-------------------------- MODULE IdentityProofs ----------------------------
(***************************************************************************)
(* The identities of VMs, for any number of them.                          *)
(*                                                                         *)
(* First, IdClaim, for any number of processes, allocators and ids.        *)
(* ClaimExclusive is not inductive: it does not say why a claimer about to *)
(* link finds the id free.  ClaimInv adds the reason.  While a call is     *)
(* past flock(), it is the holder of the coordination file; once it has    *)
(* read a lock file without a live owner nobody has the id out, and nobody *)
(* can take it, since taking it needs the same flock.  The argument is in  *)
(* terms of who has the id out, not of which pids are live, so it survives *)
(* the reuse of a pid.                                                     *)
(*                                                                         *)
(* Second, MicroVm: ids, CIDs and homes that are adopted from an ancestor. *)
(* Every id and every CID that is out has one guard, which is why a drop   *)
(* gives back nothing that another VM holds; and a VM that another one met *)
(* on the way into its directory knows it was raced, so that the directory *)
(* of one that was not is out of everybody else's reach.                   *)
(***************************************************************************)
EXTENDS IdClaim, MicroVm, WellFoundedInduction, TLAPS

-----------------------------------------------------------------------------
(* IdClaim *)


ClaimInv ==
  /\ TypeOK
  /\ \A a \in Allocs : pc[a] \in Flocked \cup {"flock"} => cand[a] \in Ids
  /\ \A a \in Allocs : pc[a] \in Flocked => coord[cand[a]] = a
  /\ \A a \in Allocs : pc[a] \in {"unlink", "link"} =>
       \A b \in Allocs : cand[a] \notin active[b]
  /\ \A a \in Allocs : pc[a] = "link" => lockfile[cand[a]] = None
  /\ \A a \in Allocs : \A id \in active[a] : lockfile[id] = PidOf[a] /\ Up(a)
  /\ ClaimExclusive

\* The allocators start in ClaimInv.
LEMMA InitClaimInv == Init => ClaimInv
  BY IdClaimConstants DEF Init, ClaimInv, TypeOK, Pcs, Flocked, ClaimExclusive

\* Every step keeps ClaimInv.
LEMMA NextClaimInv == ClaimInv /\ [Next]_vars => ClaimInv'
<1> SUFFICES ASSUME ClaimInv, [Next]_vars PROVE ClaimInv'
  OBVIOUS
<1> USE IdClaimConstants DEF ClaimInv, TypeOK, Pcs, Flocked, ClaimExclusive, Up
<1>1. ASSUME NEW a \in Allocs, NEW ids \in SUBSET Ids, Begin(a, ids) PROVE ClaimInv'
  BY <1>1 DEF Begin
<1>2. ASSUME NEW a \in Allocs, NEW id \in Ids, Try(a, id) PROVE ClaimInv'
  BY <1>2 DEF Try
<1>3. ASSUME NEW a \in Allocs, GiveUp(a) PROVE ClaimInv'
  BY <1>3 DEF GiveUp
<1>4. ASSUME NEW a \in Allocs, Flock(a) PROVE ClaimInv'
  BY <1>4 DEF Flock
<1>5. ASSUME NEW a \in Allocs, ReadOwner(a) PROVE ClaimInv'
  BY <1>5 DEF ReadOwner, Taken, OwnerIsLive
<1>6. ASSUME NEW a \in Allocs, Unlink(a) PROVE ClaimInv'
  BY <1>6 DEF Unlink
<1>7. ASSUME NEW a \in Allocs, Link(a) PROVE ClaimInv'
  <2>1. CASE lockfile[cand[a]] # None
    BY <1>7, <2>1 DEF Link, Taken
  <2>2. CASE lockfile[cand[a]] = None
    <3>1. cand[a] \in Ids /\ coord[cand[a]] = a /\ \A b \in Allocs : cand[a] \notin active[b]
      BY <1>7 DEF Link
    <3>2. TypeOK'
      <4>1. active[a] \cup {cand[a]} \in SUBSET Ids
        BY <3>1
      <4>2. active' \in [Allocs -> SUBSET Ids] /\ pc' \in [Allocs -> Pcs]
        BY <1>7, <2>2, <4>1 DEF Link
      <4>3. lockfile' \in [Ids -> Pids \cup {None}] /\ coord' \in [Ids -> Allocs \cup {None}]
        BY <1>7, <2>2, <3>1 DEF Link
      <4> QED
        BY <1>7, <4>2, <4>3 DEF Link
    <3>3. \A b \in Allocs : b # a => ~(pc[b] \in Flocked /\ cand[b] = cand[a])
      BY <3>1
    <3>4. \A b \in Allocs : \A id \in active'[b] : lockfile'[id] = PidOf[b] /\ Up(b)'
      BY <1>7, <2>2, <3>1 DEF Link
    <3>5. ClaimExclusive'
      BY <1>7, <2>2, <3>1 DEF Link
    <3> QED
      BY <1>7, <2>2, <3>1, <3>2, <3>3, <3>4, <3>5 DEF Link
  <2> QED
    BY <2>1, <2>2
<1>8. ASSUME NEW a \in Allocs, ClaimIoError(a) PROVE ClaimInv'
  BY <1>8 DEF ClaimIoError
<1>9. ASSUME NEW a \in Allocs, NEW id \in Ids, Release(a, id) PROVE ClaimInv'
  BY <1>9 DEF Release
<1>10. ASSUME NEW a \in Allocs, NEW id \in Ids, ReleaseFails(a, id) PROVE ClaimInv'
  BY <1>10 DEF ReleaseFails
<1>11. ASSUME NEW p \in Pids, Crash(p) PROVE ClaimInv'
  BY <1>11 DEF Crash
<1>12. ASSUME NEW p \in Pids, PidReused(p) PROVE ClaimInv'
  BY <1>12 DEF PidReused
<1>13. CASE UNCHANGED vars
  BY <1>13 DEF vars
<1> QED
  BY <1>1, <1>2, <1>3, <1>4, <1>5, <1>6, <1>7, <1>8, <1>9, <1>10, <1>11, <1>12, <1>13
  DEF Next, Step

\* ClaimInv holds in every reachable state.
THEOREM ClaimInvariant == Spec => []ClaimInv
  BY InitClaimInv, NextClaimInv, PTL DEF Spec

\* No id is out from two allocators at once.
THEOREM Exclusive == Spec => []ClaimExclusive
<1>1. ClaimInv => ClaimExclusive
  BY DEF ClaimInv
<1> QED
  BY <1>1, ClaimInvariant, PTL

\* The types of the claim state.
THEOREM TypeCorrect == Spec => []TypeOK
<1>1. ClaimInv => TypeOK
  BY DEF ClaimInv
<1> QED
  BY <1>1, ClaimInvariant, PTL

\* An id that is out has a lock file with a live owner: what the orphan sweeps
\* rely on.
THEOREM HeldHasLiveOwner == Spec => []HeldIdHasLiveOwner
<1>1. ClaimInv => HeldIdHasLiveOwner
  BY DEF ClaimInv, HeldIdHasLiveOwner, OwnerIsLive, Up, TypeOK
<1> QED
  BY <1>1, ClaimInvariant, PTL

\* A claimer that reaches the hard link has won.
THEOREM LinkWins == Spec => []LinkFindsNoLock
<1>1. ClaimInv => LinkFindsNoLock
  BY DEF ClaimInv, LinkFindsNoLock
<1> QED
  BY <1>1, ClaimInvariant, PTL

\* The allocators of all processes implement one pool of ids: a step that hands
\* an id out finds it held by nobody.
THEOREM RefinesIdPool == Spec => ImplementsIdPool
<1>1. Init => Pool!Init
  BY DEF Init, Pool!Init
<1>2. ClaimInv /\ [Next]_vars => [Pool!Next]_active
  <2> SUFFICES ASSUME ClaimInv, Next PROVE Pool!Next \/ UNCHANGED active
    BY DEF vars
  <2>1. ASSUME NEW a \in Allocs, Link(a) PROVE Pool!Next \/ UNCHANGED active
    BY <2>1 DEF Link, ClaimInv, TypeOK, Flocked, Pool!Next, Pool!Take
  <2>2. ASSUME NEW a \in Allocs, NEW id \in Ids, Release(a, id) \/ ReleaseFails(a, id)
        PROVE  Pool!Next
    BY <2>2 DEF Release, ReleaseFails, Pool!Next, Pool!Give
  <2>3. ASSUME NEW p \in Pids, Crash(p) PROVE Pool!Next
    <3> DEFINE dead == {a \in Allocs : PidOf[a] = p}
    <3>1. Pool!Die(dead)
      BY <2>3 DEF Crash, Pool!Die
    <3> QED
      BY <3>1 DEF Pool!Next
  <2> QED
    BY <2>1, <2>2, <2>3
    DEF Next, Step, Begin, Try, GiveUp, Flock, ReadOwner, Unlink, ClaimIoError, PidReused
<1> QED
  BY <1>1, <1>2, ClaimInvariant, PTL DEF Spec, ImplementsIdPool, Pool!Spec

-----------------------------------------------------------------------------
(* MicroVm *)

MicroRecord ==
  [restore : BOOLEAN, id : VmIds \cup {0}, home : VmIds \cup {0}, lineage : VmIds \cup {0},
   cid : Cids \cup {0}, answers : Cids \cup {0}, baked : Cids \cup {0},
   bakedCid : Cids \cup {0}, up : BOOLEAN, respawns : 0 .. MaxRespawns, raced : BOOLEAN]

Image == [home : VmIds, cid : Cids]

MicroStages == {"new", "running", "done"} \cup Starting \cup Stopping

\* The parts of the type invariant.
MicroShape == microStage \in [MicroVms -> MicroStages] /\ micro \in [MicroVms -> MicroRecord]

HostShape ==
  /\ backend \in Backends
  /\ claimed \subseteq VmIds /\ dirs \subseteq VmIds
  /\ sock \in [VmIds -> MicroVms \cup {Nobody}]
  /\ image \in Image \cup {Nobody}

PoolShape == cids \subseteq Cids /\ nextFree \in MinCid .. (MaxCid + 1)

MicroTypes == MicroShape /\ HostShape /\ PoolShape

Over == {"new", "done"}
Unprobed == {"claimed", "dir", "env", "verify"}
Unadopted == Unprobed \cup {"probed", "loaded"}

\* The vmid, the home and the adopted id of a VM at each of its stages.
IdsAtStage ==
  \A v \in MicroVms :
    /\ microStage[v] \in Over =>
         micro[v].id = 0 /\ micro[v].home = 0 /\ micro[v].lineage = 0
    /\ microStage[v] \notin Over => micro[v].id \in VmIds /\ micro[v].home \in VmIds
    /\ microStage[v] \in Unprobed => micro[v].home = micro[v].id
    /\ microStage[v] \in Unadopted => micro[v].lineage = 0
    /\ micro[v].lineage # 0 => micro[v].lineage = micro[v].home /\ micro[v].lineage # micro[v].id
    /\ microStage[v] \notin Over /\ micro[v].restore => image \in Image

\* The ids of a guard are out, ...
IdsAreOut ==
  \A v \in MicroVms : {micro[v].id, micro[v].lineage} \ {0} \subseteq claimed

\* ... are its own, ...
IdsAreOwn ==
  \A v, w \in MicroVms : v # w =>
    /\ micro[v].id # 0 => micro[v].id # micro[w].id /\ micro[v].id # micro[w].lineage
    /\ micro[v].lineage # 0 => micro[v].lineage # micro[w].lineage

\* ... and no others are out.
OutHasGuard ==
  \A i \in claimed : \E v \in MicroVms : i \in {micro[v].id, micro[v].lineage}

IdInv == IdsAtStage /\ IdsAreOut /\ IdsAreOwn /\ OutHasGuard

\* The CIDs of a VM at each of its stages.
CidsAtStage ==
  \A v \in MicroVms :
    /\ microStage[v] \in Over \cup {"claimed", "dir", "rmdir", "release"} => micro[v].cid = 0
    /\ microStage[v] \in Over \cup Unadopted \cup {"lineage", "rmdir", "release"} =>
         micro[v].baked = 0
    /\ microStage[v] \in (Starting \ {"claimed", "dir"}) \cup {"running"} => micro[v].cid \in Cids
    /\ microStage[v] \in {"verify", "loaded", "lineage", "resume", "running"} =>
         micro[v].answers \in Cids
    /\ microStage[v] = "probed" => micro[v].bakedCid \in Cids

\* Two guards never hold the same CID, nor does one hold it twice.
CidsAreOwn ==
  \A v, w \in MicroVms :
    /\ v # w /\ micro[v].cid # 0 => micro[v].cid # micro[w].cid
    /\ micro[v].cid # 0 => micro[v].cid # micro[w].baked
    /\ v # w /\ micro[v].baked # 0 => micro[v].baked # micro[w].baked

\* A CID that is out has its guard.
CidHasGuard == \A c \in cids : \E v \in MicroVms : c \in {micro[v].cid, micro[v].baked}

CidInv == CidsAtStage /\ HeldCidIsReserved /\ CidsAreOwn /\ CidHasGuard /\ NothingFreeBelowHint

Down == Over \cup {"claimed", "dir", "env", "probed", "cid", "rmdir", "release"}
Bound == {"verify", "loaded", "lineage", "resume", "running"}

\* Whoever has another VM in its home, or about to enter it, was raced.
MetIsRaced ==
  \A v, w \in MicroVms :
    v # w /\ micro[v].home # 0 /\ micro[v].home \in {micro[w].id, micro[w].home} => micro[v].raced

\* A VM that was not raced is bound in its home.
HomeIsBound ==
  \A v \in MicroVms : microStage[v] \in Bound /\ ~micro[v].raced =>
    micro[v].home \in dirs /\ sock[micro[v].home] = v

\* A socket is that of a VMM that is up and lives there.
SocketHasVmm ==
  \A i \in VmIds : sock[i] \in MicroVms => micro[sock[i]].up /\ micro[sock[i]].home = i

UpAtStage == \A v \in MicroVms : microStage[v] \in Down => ~micro[v].up

HomeInv == MetIsRaced /\ HomeIsBound /\ SocketHasVmm /\ UpAtStage

-----------------------------------------------------------------------------
(* Lemmas *)

\* What a step of v leaves of the others.
OnlyMoves(v, to) ==
  /\ microStage' \in [MicroVms -> MicroStages]
  /\ microStage'[v] = to
  /\ \A w \in MicroVms : w # v => microStage'[w] = microStage[w]

\* To enter a stage moves one VM there and no other.
LEMMA EnterMoves ==
  ASSUME MicroTypes, NEW v \in MicroVms, NEW to \in MicroStages, Enter(v, to)
  PROVE  OnlyMoves(v, to)
BY DEF Enter, OnlyMoves, MicroTypes, MicroShape

SameIds ==
  \A w \in MicroVms : /\ micro'[w].id = micro[w].id /\ micro'[w].home = micro[w].home
                      /\ micro'[w].lineage = micro[w].lineage
                      /\ micro'[w].restore = micro[w].restore

SameCids == \A w \in MicroVms : micro'[w].cid = micro[w].cid /\ micro'[w].baked = micro[w].baked

SameHomes ==
  \A w \in MicroVms : /\ micro'[w].id = micro[w].id /\ micro'[w].home = micro[w].home
                      /\ micro'[w].raced = micro[w].raced

\* A step that draws, adopts and gives back no id.
LEMMA IdFrame ==
  ASSUME MicroTypes, IdInv, NEW v \in MicroVms, NEW to \in MicroStages \ Over, OnlyMoves(v, to),
         SameIds, UNCHANGED claimed, image' = image \/ image' \in Image,
         microStage[v] \notin Over,
         to \in Unprobed => microStage[v] \in Unprobed,
         to \in Unadopted => microStage[v] \in Unadopted
  PROVE  IdInv'
<1>1. IdsAtStage'
  <2> SUFFICES ASSUME NEW w \in MicroVms
               PROVE  IdsAtStage!(w)'
    BY DEF IdsAtStage
  <2> QED BY DEF IdInv, IdsAtStage, OnlyMoves, SameIds
<1>2. IdsAreOut' BY DEF IdInv, IdsAreOut, SameIds
<1>3. IdsAreOwn' BY DEF IdInv, IdsAreOwn, SameIds
<1>4. OutHasGuard' BY DEF IdInv, OutHasGuard, SameIds
<1> QED BY <1>1, <1>2, <1>3, <1>4 DEF IdInv

CidEarly == Over \cup {"claimed", "dir", "rmdir", "release"}
CidReady == (Starting \ {"claimed", "dir"}) \cup {"running"}
Unbaked == Over \cup Unadopted \cup {"lineage", "rmdir", "release"}

\* A step that draws, adopts and gives back no CID.
LEMMA CidFrame ==
  ASSUME MicroTypes, CidInv, NEW v \in MicroVms, NEW to \in MicroStages, OnlyMoves(v, to),
         SameCids, UNCHANGED <<cids, nextFree>>,
         \A w \in MicroVms : w # v => micro'[w] = micro[w] \/
           (micro'[w].answers = micro[w].answers /\ micro'[w].bakedCid = micro[w].bakedCid),
         to \in CidEarly => microStage[v] \in CidEarly,
         to \in Unbaked => microStage[v] \in Unbaked,
         to \in CidReady => microStage[v] \in CidReady,
         to \in Bound => micro'[v].answers \in Cids,
         to = "probed" => micro'[v].bakedCid \in Cids
  PROVE  CidInv'
<1>1. CidsAtStage'
  <2> SUFFICES ASSUME NEW w \in MicroVms
               PROVE  CidsAtStage!(w)'
    BY DEF CidsAtStage
  <2>1. CASE w = v
    BY <2>1 DEF CidInv, CidsAtStage, OnlyMoves, SameCids, CidEarly, CidReady, Unbaked, Bound
  <2>2. CASE w # v BY <2>2 DEF CidInv, CidsAtStage, OnlyMoves, SameCids
  <2> QED BY <2>1, <2>2
<1>2. HeldCidIsReserved' BY DEF CidInv, HeldCidIsReserved, SameCids
<1>3. CidsAreOwn' BY DEF CidInv, CidsAreOwn, SameCids
<1>4. CidHasGuard' BY DEF CidInv, CidHasGuard, SameCids
<1>5. NothingFreeBelowHint' BY DEF CidInv, NothingFreeBelowHint
<1> QED BY <1>1, <1>2, <1>3, <1>4, <1>5 DEF CidInv

\* A step that binds and unlinks no socket and removes no directory.
LEMMA HomeFrame ==
  ASSUME MicroTypes, HomeInv, NEW v \in MicroVms, NEW to \in MicroStages, OnlyMoves(v, to),
         SameHomes, \A w \in MicroVms : micro'[w].up = micro[w].up,
         UNCHANGED sock, dirs \subseteq dirs',
         to \in Bound => microStage[v] \in Bound,
         to \in Down => microStage[v] \in Down
  PROVE  HomeInv'
<1>1. MetIsRaced' BY DEF HomeInv, MetIsRaced, SameHomes
<1>2. HomeIsBound' BY DEF HomeInv, HomeIsBound, SameHomes, OnlyMoves
<1>3. SocketHasVmm' BY DEF HomeInv, SocketHasVmm, SameHomes
<1>4. UpAtStage' BY DEF HomeInv, UpAtStage, OnlyMoves
<1> QED BY <1>1, <1>2, <1>3, <1>4 DEF HomeInv

\* A VMM comes up, bound in its home if the home is there and free.
LEMMA BindKeepsHomes ==
  ASSUME MicroTypes, HomeInv, NEW v \in MicroVms, NEW to \in {"verify", "loaded", "stop"},
         OnlyMoves(v, to), SameHomes, micro[v].home \in VmIds,
         micro'[v].up = TRUE, \A w \in MicroVms : w # v => micro'[w].up = micro[w].up,
         UNCHANGED dirs,
         IF micro[v].home \in dirs /\ sock[micro[v].home] = Nobody
         THEN sock' = [sock EXCEPT ![micro[v].home] = v]
         ELSE UNCHANGED sock /\ to = "stop"
  PROVE  HomeInv'
<1>1. MetIsRaced' BY DEF HomeInv, MetIsRaced, SameHomes
<1>2. \A i \in VmIds : sock'[i] = sock[i] \/ (i = micro[v].home /\ sock'[i] = v)
  BY DEF MicroTypes, HostShape
<1>3. to # "stop" => micro[v].home \in dirs /\ sock'[micro[v].home] = v
  BY DEF MicroTypes, HostShape
<1>4. HomeIsBound'
  <2> SUFFICES ASSUME NEW w \in MicroVms, microStage'[w] \in Bound, ~micro'[w].raced
               PROVE  micro'[w].home \in dirs' /\ sock'[micro'[w].home] = w
    BY DEF HomeIsBound
  <2>1. CASE w = v BY <1>3, <2>1 DEF OnlyMoves, SameHomes, Bound
  <2>2. CASE w # v
    <3>1. microStage[w] \in Bound /\ ~micro[w].raced /\ micro'[w].home = micro[w].home
      BY <2>2 DEF OnlyMoves, SameHomes
    <3>2. micro[w].home \in dirs /\ sock[micro[w].home] = w
      BY <3>1 DEF HomeInv, HomeIsBound
    <3>3. micro[w].home \in VmIds /\ micro[w].home # 0
      BY <3>2, MicroVmConstants DEF MicroTypes, HostShape
    <3>4. micro[w].home # micro[v].home BY <2>2, <3>1, <3>3 DEF HomeInv, MetIsRaced
    <3> QED BY <1>2, <3>1, <3>2, <3>3, <3>4
  <2> QED BY <2>1, <2>2
<1>5. SocketHasVmm' BY <1>2 DEF HomeInv, SocketHasVmm, SameHomes
<1>6. UpAtStage' BY DEF HomeInv, UpAtStage, OnlyMoves, Down, Over
<1> QED BY <1>1, <1>4, <1>5, <1>6 DEF HomeInv

\* What is in the directories i of S goes; none of them is the home of a VM that is
\* still to be bound there.
LEMMA UnlinkKeepsHomes ==
  ASSUME MicroTypes, HomeInv, NEW v \in MicroVms, NEW to \in MicroStages \ Bound,
         OnlyMoves(v, to), SameHomes, micro'[v].up \in BOOLEAN,
         \A w \in MicroVms : w # v => micro'[w].up = micro[w].up,
         NEW i \in VmIds, i \in {micro[v].id, micro[v].home},
         sock' = [sock EXCEPT ![i] = Nobody], dirs \ {i} \subseteq dirs',
         micro'[v].up = micro[v].up \/ (micro'[v].up = FALSE /\ i = micro[v].home),
         to \in Down => ~micro'[v].up
  PROVE  HomeInv'
<1>1. MetIsRaced' BY DEF HomeInv, MetIsRaced, SameHomes
<1>2. \A j \in VmIds : sock'[j] = IF j = i THEN Nobody ELSE sock[j]
  BY DEF MicroTypes, HostShape
<1>3. HomeIsBound'
  <2> SUFFICES ASSUME NEW w \in MicroVms, microStage'[w] \in Bound, ~micro'[w].raced
               PROVE  micro'[w].home \in dirs' /\ sock'[micro'[w].home] = w
    BY DEF HomeIsBound
  <2>1. w # v BY DEF OnlyMoves
  <2>2. microStage[w] \in Bound /\ ~micro[w].raced /\ micro'[w].home = micro[w].home
    BY <2>1 DEF OnlyMoves, SameHomes
  <2>3. micro[w].home \in dirs /\ sock[micro[w].home] = w
    BY <2>2 DEF HomeInv, HomeIsBound
  <2>4. micro[w].home \in VmIds /\ micro[w].home # 0
    BY <2>3, MicroVmConstants DEF MicroTypes, HostShape
  <2>5. micro[w].home # i BY <2>1, <2>2, <2>4 DEF HomeInv, MetIsRaced
  <2> QED BY <1>2, <2>2, <2>3, <2>4, <2>5
<1>4. SocketHasVmm'
  <2> SUFFICES ASSUME NEW j \in VmIds, sock'[j] \in MicroVms
               PROVE  micro'[sock'[j]].up /\ micro'[sock'[j]].home = j
    BY DEF SocketHasVmm
  <2>1. j # i /\ sock'[j] = sock[j] BY <1>2, MicroVmConstants
  <2>2. micro[sock[j]].up /\ micro[sock[j]].home = j BY <2>1 DEF HomeInv, SocketHasVmm
  <2>3. sock[j] = v => micro'[v].up BY <2>1, <2>2
  <2> QED BY <2>1, <2>2, <2>3 DEF SameHomes
<1>5. UpAtStage' BY DEF HomeInv, UpAtStage, OnlyMoves
<1> QED BY <1>1, <1>3, <1>4, <1>5 DEF HomeInv

\* allocate finds the lowest CID that is free from the hint on, if only the one past
\* the range.
LEMMA CidFoundFacts ==
  ASSUME PoolShape
  PROVE  /\ CidFound \in nextFree .. (MaxCid + 1)
         /\ CidFound \notin cids
         /\ \A d \in nextFree .. (CidFound - 1) : d \in cids
<1> DEFINE Free == {c \in nextFree .. (MaxCid + 1) : c \notin cids}
           Less == OpToRel(<, Nat)
<1>1. MinCid \in Nat /\ MaxCid \in Nat /\ nextFree \in Nat /\ nextFree <= MaxCid + 1
  BY MicroVmConstants DEF PoolShape
<1>2. MaxCid + 1 \in Free BY <1>1 DEF PoolShape, Cids
<1>3. Free \subseteq Nat BY <1>1
<1>4. \A x, y \in Nat : <<x, y>> \in Less <=> x < y BY DEF OpToRel
<1>5. PICK c \in Free : \A d \in Free : ~(<<d, c>> \in Less)
  <2> HIDE DEF Free, Less
  <2>1. IsWellFoundedOn(Less, Nat) BY NatLessThanWellFounded DEF Less
  <2> QED BY <1>2, <1>3, <2>1, WFMin
<1>6. \A d \in nextFree .. (c - 1) : d \in cids
  <2> SUFFICES ASSUME NEW d \in nextFree .. (c - 1), d \notin cids
               PROVE  FALSE
    OBVIOUS
  <2>1. d \in Nat /\ c \in Nat /\ d < c /\ d \in Free BY <1>1, <1>3
  <2>2. <<d, c>> \in Less BY <1>4, <2>1
  <2> QED BY <1>5, <2>1, <2>2
<1>7. c \in nextFree .. (MaxCid + 1) /\ c \notin cids OBVIOUS
<1> QED BY <1>6, <1>7 DEF CidFound

\* A record of which only the mark is set.
Marked(w, b) ==
  /\ micro'[w] \in MicroRecord
  /\ micro'[w].restore = micro[w].restore /\ micro'[w].id = micro[w].id
  /\ micro'[w].home = micro[w].home /\ micro'[w].lineage = micro[w].lineage
  /\ micro'[w].cid = micro[w].cid /\ micro'[w].answers = micro[w].answers
  /\ micro'[w].baked = micro[w].baked /\ micro'[w].bakedCid = micro[w].bakedCid
  /\ micro'[w].up = micro[w].up
  /\ micro'[w].raced = b

\* What a record holds before the VM starts and after it is dropped.
LEMMA BlankFields ==
  /\ Blank.restore = FALSE /\ Blank.id = 0 /\ Blank.home = 0 /\ Blank.lineage = 0
  /\ Blank.cid = 0 /\ Blank.baked = 0 /\ ~Blank.up
BY DEF Blank

\* Setting the mark of a record leaves its other fields and its type.
LEMMA MarkFacts ==
  ASSUME NEW w \in MicroVms, micro[w] \in MicroRecord, NEW b \in BOOLEAN,
         micro'[w] = [micro[w] EXCEPT !.raced = b]
  PROVE  Marked(w, b)
BY DEF Marked, MicroRecord

\* What a claim does to the records: the new one is blank but for its id, and those on
\* their way into the directory are marked.
ClaimedAs(v, restore, i, met) ==
  /\ restore => image # Nobody
  /\ claimed' = claimed \cup {i}
  /\ \A w \in MicroVms : micro[w].home = i /\ micro[w].lineage # i => w \in met
  /\ micro' \in [MicroVms -> MicroRecord]
  /\ micro'[v].id = i /\ micro'[v].home = i /\ micro'[v].lineage = 0
  /\ micro'[v].restore = restore /\ micro'[v].cid = 0 /\ micro'[v].baked = 0
  /\ ~micro'[v].up /\ (micro'[v].raced <=> met # {})
  /\ \A w \in MicroVms : w # v => Marked(w, micro[w].raced \/ w \in met)

\* A claim is such a step.
LEMMA ClaimEffect ==
  ASSUME MicroTypes, IdInv, NEW v \in MicroVms, ClaimVmid(v)
  PROVE  \E restore \in BOOLEAN, i \in VmIds \ claimed, met \in SUBSET MicroVms :
           ClaimedAs(v, restore, i, met)
<1>1. PICK restore \in BOOLEAN, i \in VmIds \ claimed :
        /\ restore => image # Nobody
        /\ claimed' = claimed \cup {i}
        /\ LET entering == {w \in MicroVms : micro[w].home = i /\ micro[w].lineage # i} IN
           micro' = [w \in MicroVms |->
             IF w = v THEN [Blank EXCEPT !.restore = restore, !.id = i, !.home = i,
                                         !.raced = entering # {}]
             ELSE [micro[w] EXCEPT !.raced = @ \/ w \in entering]]
  BY DEF ClaimVmid
<1> DEFINE met == {w \in MicroVms : micro[w].home = i /\ micro[w].lineage # i}
           b == met # {}
<1>2. micro \in [MicroVms -> MicroRecord] BY DEF MicroTypes, MicroShape
<1>3. /\ micro'[v] = [Blank EXCEPT !.restore = restore, !.id = i, !.home = i, !.raced = b]
      /\ DOMAIN micro' = MicroVms /\ micro' = [w \in MicroVms |-> micro'[w]]
  BY <1>1
<1>4. ASSUME NEW w \in MicroVms, w # v
      PROVE  Marked(w, micro[w].raced \/ w \in met)
  <2> DEFINE m == micro[w].raced \/ w \in met
  <2>1. m \in BOOLEAN OBVIOUS
  <2>2. micro'[w] = [micro[w] EXCEPT !.raced = m] BY <1>1, <1>4
  <2> HIDE DEF m
  <2>3. Marked(w, m) BY <1>2, <2>1, <2>2, MarkFacts
  <2> QED BY <2>3 DEF m
<1>5. b \in BOOLEAN OBVIOUS
<1>6. met \in SUBSET MicroVms
      /\ \A w \in MicroVms : micro[w].home = i /\ micro[w].lineage # i => w \in met
  OBVIOUS
<1>7. b <=> met # {} OBVIOUS
<1> HIDE DEF met, b
<1>r. micro'[v] \in MicroRecord
  <2>1. Blank \in MicroRecord BY MicroVmConstants DEF Blank, MicroRecord
  <2> QED BY <1>3, <1>5, <2>1 DEF MicroRecord
<1>8. /\ micro'[v].id = i /\ micro'[v].home = i /\ micro'[v].lineage = 0
      /\ micro'[v].restore = restore /\ micro'[v].cid = 0 /\ micro'[v].baked = 0
      /\ micro'[v].up = FALSE /\ micro'[v].raced = b
  BY <1>3 DEF Blank
<1>9. micro' \in [MicroVms -> MicroRecord] BY <1>3, <1>4, <1>r DEF Marked
<1>10. ClaimedAs(v, restore, i, met)
  BY <1>1, <1>4, <1>6, <1>7, <1>8, <1>9, Zenon DEF ClaimedAs
<1> QED BY <1>6, <1>10

\* What a probe that permits the restore does to them: the VM's home is the image's, and
\* it and those who have a claim to that directory are marked.
ProbedWith(v, met) ==
  /\ image \in Image
  /\ \A w \in MicroVms : w # v /\ image.home \in {micro[w].id, micro[w].home} => w \in met
  /\ micro' \in [MicroVms -> MicroRecord]
  /\ micro'[v].id = micro[v].id /\ micro'[v].home = image.home
  /\ micro'[v].lineage = micro[v].lineage /\ micro'[v].restore = micro[v].restore
  /\ micro'[v].cid = micro[v].cid /\ micro'[v].baked = micro[v].baked
  /\ micro'[v].bakedCid = image.cid /\ micro'[v].up = micro[v].up
  /\ (micro[v].raced \/ met # {} => micro'[v].raced)
  /\ \A w \in MicroVms : w # v => Marked(w, micro[w].raced \/ w \in met)

\* A permitted probe is such a step.
LEMMA ProbeEffect ==
  ASSUME MicroTypes, IdInv, NEW v \in MicroVms, Probe(v), ProbePermits(image.home)
  PROVE  \E met \in SUBSET MicroVms : ProbedWith(v, met)
<1> DEFINE met == {w \in MicroVms \ {v} : micro[w].id = image.home \/ micro[w].home = image.home}
           b == micro[v].raced \/ met # {}
<1>1. micro' = [w \in MicroVms |->
        IF w = v THEN [micro[v] EXCEPT !.home = image.home, !.bakedCid = image.cid, !.raced = b]
        ELSE [micro[w] EXCEPT !.raced = @ \/ w \in met]]
  BY DEF Probe
<1>2. micro \in [MicroVms -> MicroRecord] BY DEF MicroTypes, MicroShape
<1>3. /\ micro'[v] = [micro[v] EXCEPT !.home = image.home, !.bakedCid = image.cid, !.raced = b]
      /\ DOMAIN micro' = MicroVms /\ micro' = [w \in MicroVms |-> micro'[w]]
  <2> HIDE DEF b
  <2> QED BY <1>1
<1>4. ASSUME NEW w \in MicroVms, w # v
      PROVE  Marked(w, micro[w].raced \/ w \in met)
  <2> DEFINE m == micro[w].raced \/ w \in met
  <2>1. m \in BOOLEAN OBVIOUS
  <2>2. micro'[w] = [micro[w] EXCEPT !.raced = m]
    <3> HIDE DEF met, b
    <3> QED BY <1>1, <1>4
  <2> HIDE DEF m, met
  <2>3. Marked(w, m) BY <1>2, <2>1, <2>2, MarkFacts
  <2> QED BY <2>3 DEF m
<1>5. b \in BOOLEAN OBVIOUS
<1>6. met \in SUBSET MicroVms
      /\ \A w \in MicroVms : w # v /\ image.home \in {micro[w].id, micro[w].home} => w \in met
  OBVIOUS
<1>7. image \in Image /\ image.home \in VmIds /\ image.cid \in Cids
  BY DEF Probe, IdInv, IdsAtStage, Over, Image
<1>8. micro[v].raced \/ met # {} => b OBVIOUS
<1> HIDE DEF met, b
<1>9. /\ micro'[v] \in MicroRecord
      /\ micro'[v].id = micro[v].id /\ micro'[v].home = image.home
      /\ micro'[v].lineage = micro[v].lineage /\ micro'[v].restore = micro[v].restore
      /\ micro'[v].cid = micro[v].cid /\ micro'[v].baked = micro[v].baked
      /\ micro'[v].bakedCid = image.cid /\ micro'[v].up = micro[v].up /\ micro'[v].raced = b
  <2>1. micro[v] \in MicroRecord /\ image.home \in VmIds \cup {0} /\ image.cid \in Cids \cup {0}
    BY <1>2, <1>7
  <2> DEFINE x == micro[v]
             h == image.home
             c == image.cid
  <2>2. /\ x \in MicroRecord /\ h \in VmIds \cup {0} /\ c \in Cids \cup {0}
        /\ micro'[v] = [x EXCEPT !.home = h, !.bakedCid = c, !.raced = b]
    BY <1>3, <2>1
  <2> HIDE DEF x, h, c
  <2>3. micro'[v] \in MicroRecord BY <1>5, <2>2 DEF MicroRecord
  <2>4. /\ micro'[v].id = x.id /\ micro'[v].home = h /\ micro'[v].lineage = x.lineage
        /\ micro'[v].restore = x.restore /\ micro'[v].cid = x.cid /\ micro'[v].baked = x.baked
        /\ micro'[v].bakedCid = c /\ micro'[v].up = x.up /\ micro'[v].raced = b
    BY <2>2 DEF MicroRecord
  <2> QED BY <2>3, <2>4 DEF x, h, c
<1>10. micro' \in [MicroVms -> MicroRecord] BY <1>3, <1>4, <1>9 DEF Marked
<1>11. micro[v].raced \/ met # {} => micro'[v].raced BY <1>8, <1>9
<1>12. ProbedWith(v, met) BY <1>4, <1>6, <1>7, <1>9, <1>10, <1>11, Zenon DEF ProbedWith
<1> QED BY <1>6, <1>12

-----------------------------------------------------------------------------
(* Types *)

\* Before any VM starts the invariants hold.
LEMMA MicroInitInv == ASSUME MicroVmInit PROVE MicroTypes /\ IdInv /\ CidInv /\ HomeInv
<1> USE MicroVmConstants DEF MicroVmInit
<1>1. Blank \in MicroRecord BY DEF Blank, MicroRecord
<1>2. MicroTypes
  <2>1. MicroShape BY <1>1 DEF MicroShape, MicroStages
  <2>2. HostShape BY DEF HostShape
  <2>3. PoolShape BY DEF PoolShape
  <2> QED BY <2>1, <2>2, <2>3 DEF MicroTypes
<1>3. IdInv
  BY DEF IdInv, IdsAtStage, IdsAreOut, IdsAreOwn, OutHasGuard, Blank, Over, Unprobed
<1>4. CidInv
  <2>1. CidsAtStage BY DEF CidsAtStage, Blank, Over, Starting
  <2>2. HeldCidIsReserved /\ CidsAreOwn /\ CidHasGuard
    BY DEF HeldCidIsReserved, CidsAreOwn, CidHasGuard, Blank
  <2>3. NothingFreeBelowHint BY DEF NothingFreeBelowHint
  <2> QED BY <2>1, <2>2, <2>3 DEF CidInv
<1>5. HomeInv
  BY DEF HomeInv, MetIsRaced, HomeIsBound, SocketHasVmm, UpAtStage, Blank, Bound, Down, Over
<1> QED BY <1>2, <1>3, <1>4, <1>5

\* Each step leaves the guards, the host and the pool well formed.
LEMMA MicroTypesStep ==
  ASSUME MicroTypes, IdInv, CidInv, NEW v \in MicroVms, VmStep(v)
  PROVE  MicroTypes'
<1> USE MicroVmConstants
<1>0. /\ microStage \in [MicroVms -> MicroStages] /\ micro \in [MicroVms -> MicroRecord]
      /\ micro[v] \in MicroRecord /\ HostShape /\ PoolShape
  BY DEF MicroTypes, MicroShape
<1>a. ASSUME NEW to \in MicroStages, Enter(v, to)
      PROVE  microStage' \in [MicroVms -> MicroStages]
  BY <1>0, <1>a DEF Enter
<1>b. Blank \in MicroRecord BY DEF Blank, MicroRecord
<1>c. /\ {"new", "done", "running"} \subseteq MicroStages
      /\ {"claimed", "dir", "env", "verify", "probed", "loaded", "lineage", "resume"}
           \subseteq MicroStages
      /\ {"stop", "cid", "rmdir", "release"} \subseteq MicroStages
  BY DEF MicroStages, Starting, Stopping
<1>d. ASSUME microStage' \in [MicroVms -> MicroStages], micro' \in [MicroVms -> MicroRecord],
             HostShape', PoolShape'
      PROVE  MicroTypes'
  BY <1>d DEF MicroTypes, MicroShape
<1>e. ASSUME NEW r \in MicroRecord, micro' = [micro EXCEPT ![v] = r]
      PROVE  micro' \in [MicroVms -> MicroRecord]
  BY <1>0, <1>e
<1>f. ASSUME UNCHANGED <<backend, claimed, dirs, sock, image>>
      PROVE  HostShape'
  BY <1>0, <1>f DEF HostShape
<1>g. ASSUME UNCHANGED <<cids, nextFree>>
      PROVE  PoolShape'
  BY <1>0, <1>g DEF PoolShape
<1>1. CASE ClaimVmid(v)
  <2> USE <1>1 DEF ClaimVmid
  <2>1. microStage' \in [MicroVms -> MicroStages] BY <1>0, <1>a, <1>c
  <2>2. micro' \in [MicroVms -> MicroRecord] BY ClaimEffect DEF ClaimedAs
  <2>3. HostShape' BY <1>0 DEF HostShape
  <2>4. PoolShape' BY <1>g
  <2> QED BY <1>d, <2>1, <2>2, <2>3, <2>4
<1>2. CASE MakeDir(v)
  <2> USE <1>2 DEF MakeDir
  <2>1. microStage' \in [MicroVms -> MicroStages] BY <1>0, <1>a, <1>c
  <2>2. micro' \in [MicroVms -> MicroRecord] BY <1>0
  <2>3. HostShape' 
    <3>1. micro[v].id \in VmIds BY DEF IdInv, IdsAtStage, Over
    <3> QED BY <1>0, <3>1 DEF HostShape
  <2>4. PoolShape' BY <1>g
  <2> QED BY <1>d, <2>1, <2>2, <2>3, <2>4
<1>3. CASE AllocateCid(v)
  <2> USE <1>3 DEF AllocateCid
  <2>1. microStage' \in [MicroVms -> MicroStages] BY <1>0, <1>a, <1>c
  <2>2. micro' \in [MicroVms -> MicroRecord] 
    <3>1. CASE Exhausted(CidFound) BY <1>0, <3>1
    <3>2. CASE ~Exhausted(CidFound)
      <4>1. CidFound \in Cids BY <1>0, <3>2, CidFoundFacts DEF Exhausted, Cids, PoolShape
      <4>2. [micro[v] EXCEPT !.cid = CidFound] \in MicroRecord BY <1>0, <4>1 DEF MicroRecord
      <4> QED BY <1>0, <1>e, <3>2, <4>2
    <3> QED BY <3>1, <3>2
  <2>3. HostShape' BY <1>f
  <2>4. PoolShape' 
    <3>1. CASE Exhausted(CidFound) BY <1>g, <3>1
    <3>2. CASE ~Exhausted(CidFound)
      BY <1>0, <3>2, CidFoundFacts DEF Exhausted, Cids, PoolShape
    <3> QED BY <3>1, <3>2
  <2> QED BY <1>d, <2>1, <2>2, <2>3, <2>4
<1>4. CASE CreateVm(v)
  <2> USE <1>4 DEF CreateVm
  <2>1. microStage' \in [MicroVms -> MicroStages] BY <1>0, <1>a, <1>c
  <2>2. micro' \in [MicroVms -> MicroRecord] 
    <3>1. [micro[v] EXCEPT !.up = TRUE, !.answers = micro[v].cid] \in MicroRecord
      BY <1>0 DEF MicroRecord
    <3> QED BY <1>0, <1>e, <3>1
  <2>3. HostShape' BY <1>0 DEF HostShape
  <2>4. PoolShape' BY <1>g
  <2> QED BY <1>d, <2>1, <2>2, <2>3, <2>4
<1>5. CASE VerifiedHome(v)
  <2> USE <1>5 DEF VerifiedHome
  <2>1. microStage' \in [MicroVms -> MicroStages] BY <1>0, <1>a, <1>c
  <2>2. micro' \in [MicroVms -> MicroRecord] 
    <3>1. CASE UNCHANGED micro BY <1>0, <3>1
    <3>2. CASE /\ micro[v].respawns < MaxRespawns
               /\ micro' = [micro EXCEPT ![v].up = FALSE, ![v].respawns = @ + 1]
      <4>1. micro[v].respawns + 1 \in 0 .. MaxRespawns BY <1>0, <3>2 DEF MicroRecord
      <4>2. [micro[v] EXCEPT !.up = FALSE, !.respawns = @ + 1] \in MicroRecord
        BY <1>0, <4>1 DEF MicroRecord
      <4> QED BY <1>0, <1>e, <3>2, <4>2
    <3> QED BY <3>1, <3>2
  <2>3. HostShape' BY <1>0 DEF HostShape, Unlinked
  <2>4. PoolShape' BY <1>g
  <2> QED BY <1>d, <2>1, <2>2, <2>3, <2>4
<1>6. CASE Probe(v)
  <2> USE <1>6 DEF Probe
  <2>0. image \in Image BY DEF IdInv, IdsAtStage, Over
  <2>1. microStage' \in [MicroVms -> MicroStages] BY <1>0, <1>a, <1>c
  <2>2. micro' \in [MicroVms -> MicroRecord] 
    <3>1. CASE UNCHANGED micro BY <1>0, <3>1
    <3>2. CASE ProbePermits(image.home) BY <3>2, ProbeEffect DEF ProbedWith
    <3> QED BY <3>1, <3>2
  <2>3. HostShape' BY <1>0, <2>0 DEF HostShape, Image
  <2>4. PoolShape' BY <1>g
  <2> QED BY <1>d, <2>1, <2>2, <2>3, <2>4
<1>7. CASE Load(v)
  <2> USE <1>7 DEF Load
  <2>0. microStage[v] # "probed" => image \in Image BY DEF IdInv, IdsAtStage, Over
  <2>1. microStage' \in [MicroVms -> MicroStages] BY <1>0, <1>a, <1>c
  <2>2. micro' \in [MicroVms -> MicroRecord] 
    <3> DEFINE baked == IF microStage[v] = "probed" THEN micro[v].bakedCid ELSE image.cid
               answers == IF backend.cid THEN baked ELSE micro[v].cid
    <3>1. baked \in Cids \cup {0} BY <1>0, <2>0 DEF MicroRecord, Image
    <3>2. answers \in Cids \cup {0}
      <4> HIDE DEF baked
      <4> QED BY <1>0, <3>1 DEF MicroRecord
    <3>3. micro' = [micro EXCEPT ![v].up = TRUE, ![v].bakedCid = baked, ![v].answers = answers]
      OBVIOUS
    <3> HIDE DEF baked, answers
    <3>4. [micro[v] EXCEPT !.up = TRUE, !.bakedCid = baked, !.answers = answers] \in MicroRecord
      BY <1>0, <3>1, <3>2 DEF MicroRecord
    <3>5. micro' = [micro EXCEPT ![v] = [micro[v] EXCEPT !.up = TRUE, !.bakedCid = baked,
                                                         !.answers = answers]]
      BY <3>3
    <3> QED BY <1>e, <3>4, <3>5
  <2>3. HostShape' BY <1>0 DEF HostShape
  <2>4. PoolShape' BY <1>g
  <2> QED BY <1>d, <2>1, <2>2, <2>3, <2>4
<1>8. CASE LineageAdopted(v)
  <2> USE <1>8 DEF LineageAdopted
  <2>1. microStage' \in [MicroVms -> MicroStages] BY <1>0, <1>a, <1>c
  <2>2. micro' \in [MicroVms -> MicroRecord] 
    <3>1. [micro[v] EXCEPT !.lineage = micro[v].home] \in MicroRecord BY <1>0 DEF MicroRecord
    <3> QED BY <1>0, <1>e, <3>1 DEF AdoptLineage
  <2>3. HostShape' 
    <3>1. micro[v].home \in VmIds BY DEF IdInv, IdsAtStage, Over
    <3> QED BY <1>0, <3>1 DEF HostShape, AdoptLineage
  <2>4. PoolShape' BY <1>g
  <2> QED BY <1>d, <2>1, <2>2, <2>3, <2>4
<1>9. CASE CidAdopted(v)
  <2> USE <1>9 DEF CidAdopted
  <2>1. microStage' \in [MicroVms -> MicroStages] BY <1>0, <1>a, <1>c
  <2>2. micro' \in [MicroVms -> MicroRecord] 
    <3>1. [micro[v] EXCEPT !.baked = micro[v].answers] \in MicroRecord BY <1>0 DEF MicroRecord
    <3> QED BY <1>0, <1>e, <3>1 DEF AdoptBakedCid
  <2>3. HostShape' BY <1>f
  <2>4. PoolShape' 
    <3>1. micro[v].answers \in Cids BY DEF CidInv, CidsAtStage
    <3> QED BY <1>0, <3>1 DEF PoolShape, AdoptBakedCid
  <2> QED BY <1>d, <2>1, <2>2, <2>3, <2>4
<1>10. CASE Resumed(v)
  <2> USE <1>10 DEF Resumed
  <2>1. microStage' \in [MicroVms -> MicroStages] BY <1>0, <1>a, <1>c
  <2>2. micro' \in [MicroVms -> MicroRecord] BY <1>0
  <2>3. HostShape' BY <1>f DEF host
  <2>4. PoolShape' BY <1>g DEF host
  <2> QED BY <1>d, <2>1, <2>2, <2>3, <2>4
<1>11. CASE FailStart(v)
  <2> USE <1>11 DEF FailStart
  <2>1. microStage' \in [MicroVms -> MicroStages] BY <1>0, <1>a, <1>c
  <2>2. micro' \in [MicroVms -> MicroRecord] BY <1>0
  <2>3. HostShape' BY <1>f DEF host
  <2>4. PoolShape' BY <1>g DEF host
  <2> QED BY <1>d, <2>1, <2>2, <2>3, <2>4
<1>12. CASE SnapshotVm(v)
  <2> USE <1>12 DEF SnapshotVm
  <2>1. microStage' \in [MicroVms -> MicroStages] BY <1>0
  <2>2. micro' \in [MicroVms -> MicroRecord] BY <1>0
  <2>3. HostShape' 
    <3>1. micro[v].home \in VmIds BY DEF IdInv, IdsAtStage, Over
    <3>2. micro[v].answers \in Cids BY DEF CidInv, CidsAtStage
    <3>3. image' \in Image BY <3>1, <3>2 DEF Image
    <3> QED BY <1>0, <3>3 DEF HostShape, host
  <2>4. PoolShape' BY <1>g DEF host
  <2> QED BY <1>d, <2>1, <2>2, <2>3, <2>4
<1>13. CASE ShutdownVm(v)
  <2> USE <1>13 DEF ShutdownVm
  <2>1. microStage' \in [MicroVms -> MicroStages] BY <1>0, <1>a, <1>c
  <2>2. micro' \in [MicroVms -> MicroRecord] BY <1>0
  <2>3. HostShape' BY <1>f DEF host
  <2>4. PoolShape' BY <1>g DEF host
  <2> QED BY <1>d, <2>1, <2>2, <2>3, <2>4
<1>14. CASE DropVm(v)
  <2> USE <1>14 DEF DropVm
  <2>1. microStage' \in [MicroVms -> MicroStages] BY <1>0, <1>a, <1>c
  <2>2. micro' \in [MicroVms -> MicroRecord] 
    <3>1. [micro[v] EXCEPT !.up = FALSE] \in MicroRecord BY <1>0 DEF MicroRecord
    <3> QED BY <1>0, <1>e, <3>1
  <2>3. HostShape' BY <1>0 DEF HostShape, Unlinked, Emptied
  <2>4. PoolShape' BY <1>g
  <2> QED BY <1>d, <2>1, <2>2, <2>3, <2>4
<1>15. CASE DropCid(v)
  <2> USE <1>15 DEF DropCid
  <2>1. microStage' \in [MicroVms -> MicroStages] BY <1>0, <1>a, <1>c
  <2>2. micro' \in [MicroVms -> MicroRecord] 
    <3>1. PICK c : \/ UNCHANGED micro
                   \/ micro' = [micro EXCEPT ![v].baked = 0, ![v].cid = IF @ = c THEN 0 ELSE @]
      OBVIOUS
    <3> DEFINE d == IF micro[v].cid = c THEN 0 ELSE micro[v].cid
    <3>2. d \in Cids \cup {0} BY <1>0 DEF MicroRecord
    <3>3. \/ UNCHANGED micro
          \/ micro' = [micro EXCEPT ![v].baked = 0, ![v].cid = d]
      BY <3>1
    <3> HIDE DEF d
    <3>4. [micro[v] EXCEPT !.baked = 0, !.cid = d] \in MicroRecord BY <1>0, <3>2 DEF MicroRecord
    <3> QED BY <1>0, <1>e, <3>3, <3>4
  <2>3. HostShape' BY <1>f
  <2>4. PoolShape' 
    <3>1. \A c \in {micro[v].baked, micro[v].cid} \ {0} : c \in Cids
      BY <1>0 DEF MicroRecord
    <3> QED BY <1>0, <3>1 DEF PoolShape, HintAfter, Cids
  <2> QED BY <1>d, <2>1, <2>2, <2>3, <2>4
<1>16. CASE RemoveHome(v)
  <2> USE <1>16 DEF RemoveHome
  <2>1. microStage' \in [MicroVms -> MicroStages] BY <1>0, <1>a, <1>c
  <2>2. micro' \in [MicroVms -> MicroRecord] BY <1>0
  <2>3. HostShape' BY <1>0 DEF HostShape
  <2>4. PoolShape' BY <1>g
  <2> QED BY <1>d, <2>1, <2>2, <2>3, <2>4
<1>17. CASE DropVmid(v)
  <2> USE <1>17 DEF DropVmid
  <2>1. microStage' \in [MicroVms -> MicroStages] BY <1>0, <1>a, <1>c
  <2>2. micro' \in [MicroVms -> MicroRecord] BY <1>0, <1>b, <1>e
  <2>3. HostShape' BY <1>0 DEF HostShape
  <2>4. PoolShape' BY <1>g
  <2> QED BY <1>d, <2>1, <2>2, <2>3, <2>4
<1> QED
  BY <1>1, <1>2, <1>3, <1>4, <1>5, <1>6, <1>7, <1>8, <1>9, <1>10, <1>11, <1>12, <1>13, <1>14,
     <1>15, <1>16, <1>17 DEF VmStep

-----------------------------------------------------------------------------
(* Ids *)

\* A drawn or adopted id is fresh, and what a guard gives back was its own.
LEMMA IdStep ==
  ASSUME MicroTypes, IdInv, CidInv, NEW v \in MicroVms, VmStep(v)
  PROVE  IdInv'
<1> USE MicroVmConstants
<1>0. /\ micro \in [MicroVms -> MicroRecord] /\ micro[v] \in MicroRecord
      /\ microStage \in [MicroVms -> MicroStages]
  BY DEF MicroTypes, MicroShape
<1>c. /\ {"new", "done", "running"} \subseteq MicroStages
      /\ {"claimed", "dir", "env", "verify", "probed", "loaded", "lineage", "resume"}
           \subseteq MicroStages
      /\ {"stop", "cid", "rmdir", "release"} \subseteq MicroStages
  BY DEF MicroStages, Starting, Stopping
<1>1. CASE ClaimVmid(v)
  <2>1. PICK restore \in BOOLEAN, i \in VmIds \ claimed, met \in SUBSET MicroVms :
          ClaimedAs(v, restore, i, met)
    BY <1>1, ClaimEffect
  <2>2. /\ restore => image # Nobody
        /\ claimed' = claimed \cup {i}
        /\ micro'[v].id = i /\ micro'[v].home = i /\ micro'[v].lineage = 0
        /\ micro'[v].restore = restore
    BY <2>1 DEF ClaimedAs
  <2>3. \A w \in MicroVms : w # v =>
          /\ micro'[w].id = micro[w].id /\ micro'[w].home = micro[w].home
          /\ micro'[w].lineage = micro[w].lineage /\ micro'[w].restore = micro[w].restore
    BY <2>1 DEF ClaimedAs, Marked
  <2>4. OnlyMoves(v, "claimed") BY <1>1, <1>c, EnterMoves DEF ClaimVmid
  <2>5. image' = image BY <1>1 DEF ClaimVmid
  <2>6. \A w \in MicroVms : micro[w].id # i /\ micro[w].lineage # i
    BY <2>1, i # 0 DEF IdInv, IdsAreOut
  <2>7. IdsAtStage'
    <3> SUFFICES ASSUME NEW w \in MicroVms
                 PROVE  IdsAtStage!(w)'
      BY DEF IdsAtStage
    <3>1. CASE w = v
      <4>1. restore => image \in Image BY <2>2 DEF MicroTypes, HostShape
      <4> QED BY <2>2, <2>4, <2>5, <3>1, <4>1 DEF OnlyMoves, Over
    <3>2. CASE w # v BY <2>3, <2>4, <2>5, <3>2 DEF IdInv, IdsAtStage, OnlyMoves
    <3> QED BY <3>1, <3>2
  <2>8. IdsAreOut'
    <3> SUFFICES ASSUME NEW w \in MicroVms
                 PROVE  {micro'[w].id, micro'[w].lineage} \ {0} \subseteq claimed'
      BY DEF IdsAreOut
    <3>1. CASE w = v BY <2>2, <3>1
    <3>2. CASE w # v BY <2>2, <2>3, <3>2 DEF IdInv, IdsAreOut
    <3> QED BY <3>1, <3>2
  <2>9. IdsAreOwn'
    <3> SUFFICES ASSUME NEW a \in MicroVms, NEW b \in MicroVms, a # b
                 PROVE  IdsAreOwn!(a, b)!2'
      BY DEF IdsAreOwn
    <3>1. CASE a # v /\ b # v BY <2>3, <3>1 DEF IdInv, IdsAreOwn
    <3>2. CASE a = v BY <2>2, <2>3, <2>6, <3>2
    <3>3. CASE b = v BY <2>2, <2>3, <2>6, <3>3
    <3> QED BY <3>1, <3>2, <3>3
  <2>10. OutHasGuard'
    <3> SUFFICES ASSUME NEW j \in claimed'
                 PROVE  \E w \in MicroVms : j \in {micro'[w].id, micro'[w].lineage}
      BY DEF OutHasGuard
    <3>1. CASE j = i BY <2>2, <3>1
    <3>2. CASE j # i
      <4>1. j \in claimed BY <2>2, <3>2
      <4>2. PICK w \in MicroVms : j \in {micro[w].id, micro[w].lineage}
        BY <4>1 DEF IdInv, OutHasGuard
      <4>3. j # 0 BY <4>1 DEF MicroTypes, HostShape
      <4>4. w # v BY <1>1, <4>2, <4>3 DEF ClaimVmid, IdInv, IdsAtStage, Over
      <4> QED BY <2>3, <4>2, <4>4
    <3> QED BY <3>1, <3>2
  <2> QED BY <2>7, <2>8, <2>9, <2>10 DEF IdInv
<1>2. CASE MakeDir(v)
  <2> USE DEF MakeDir
  <2>1. PICK to \in {"dir"} : Enter(v, to) BY <1>2
  <2>2. to \in MicroStages /\ OnlyMoves(v, to) BY <1>c, <2>1, EnterMoves
  <2>3. SameIds BY <1>0, <1>2 DEF SameIds
  <2>4. microStage[v] \notin Over BY <1>2 DEF Over
  <2>5. to \in MicroStages \ Over /\ (to \in Unprobed => microStage[v] \in Unprobed)
        /\ (to \in Unadopted => microStage[v] \in Unadopted)
    BY <1>2, <2>1, <2>2 DEF Over, Unprobed, Unadopted
  <2>6. UNCHANGED <<claimed, image>> BY <1>2
  <2> QED BY <2>2, <2>3, <2>4, <2>5, <2>6, IdFrame
<1>3. CASE AllocateCid(v)
  <2> USE DEF AllocateCid
  <2>1. PICK to \in {"env", "stop"} : Enter(v, to) BY <1>3
  <2>2. to \in MicroStages /\ OnlyMoves(v, to) BY <1>c, <2>1, EnterMoves
  <2>3. SameIds
    <3>1. UNCHANGED micro \/ micro' = [micro EXCEPT ![v].cid = CidFound] BY <1>3
    <3>2. CASE UNCHANGED micro BY <3>2 DEF SameIds
    <3>3. CASE micro' = [micro EXCEPT ![v].cid = CidFound] BY <1>0, <3>3 DEF SameIds, MicroRecord
    <3> QED BY <3>1, <3>2, <3>3
  <2>4. microStage[v] \notin Over BY <1>3 DEF Over
  <2>5. to \in MicroStages \ Over /\ (to \in Unprobed => microStage[v] \in Unprobed)
        /\ (to \in Unadopted => microStage[v] \in Unadopted)
    BY <1>3, <2>1, <2>2 DEF Over, Unprobed, Unadopted
  <2>6. UNCHANGED <<claimed, image>> BY <1>3
  <2> QED BY <2>2, <2>3, <2>4, <2>5, <2>6, IdFrame
<1>4. CASE CreateVm(v)
  <2> USE DEF CreateVm
  <2>1. PICK to \in {"verify", "stop"} : Enter(v, to) BY <1>4
  <2>2. to \in MicroStages /\ OnlyMoves(v, to) BY <1>c, <2>1, EnterMoves
  <2>3. SameIds BY <1>0, <1>4 DEF SameIds
  <2>4. microStage[v] \notin Over BY <1>4 DEF Over
  <2>5. to \in MicroStages \ Over /\ (to \in Unprobed => microStage[v] \in Unprobed)
        /\ (to \in Unadopted => microStage[v] \in Unadopted)
    BY <1>4, <2>1, <2>2 DEF Over, Unprobed, Unadopted
  <2>6. UNCHANGED <<claimed, image>> BY <1>4
  <2> QED BY <2>2, <2>3, <2>4, <2>5, <2>6, IdFrame
<1>5. CASE VerifiedHome(v)
  <2> USE DEF VerifiedHome
  <2>1. PICK to \in {"running", "env"} : Enter(v, to) BY <1>5
  <2>2. to \in MicroStages /\ OnlyMoves(v, to) BY <1>c, <2>1, EnterMoves
  <2>3. SameIds
    <3>1. UNCHANGED micro \/ micro' = [micro EXCEPT ![v].up = FALSE, ![v].respawns = @ + 1] BY <1>5
    <3>2. CASE UNCHANGED micro BY <3>2 DEF SameIds
    <3>3. CASE micro' = [micro EXCEPT ![v].up = FALSE, ![v].respawns = @ + 1]
      BY <1>0, <3>3 DEF SameIds, MicroRecord
    <3> QED BY <3>1, <3>2, <3>3
  <2>4. microStage[v] \notin Over BY <1>5 DEF Over
  <2>5. to \in MicroStages \ Over /\ (to \in Unprobed => microStage[v] \in Unprobed)
        /\ (to \in Unadopted => microStage[v] \in Unadopted)
    BY <1>5, <2>1, <2>2 DEF Over, Unprobed, Unadopted
  <2>6. UNCHANGED <<claimed, image>> BY <1>5
  <2> QED BY <2>2, <2>3, <2>4, <2>5, <2>6, IdFrame
<1>6. CASE Probe(v)
  <2>1. CASE UNCHANGED micro /\ Enter(v, "stop")
    <3>1. OnlyMoves(v, "stop") BY <1>c, <2>1, EnterMoves
    <3>2. SameIds BY <2>1 DEF SameIds
    <3>3. "stop" \in MicroStages \ Over /\ "stop" \notin Unprobed /\ "stop" \notin Unadopted
      BY <1>c DEF Over, Unprobed, Unadopted
    <3>4. microStage[v] \notin Over /\ UNCHANGED <<claimed, image>> BY <1>6 DEF Probe, Over
    <3> QED BY <3>1, <3>2, <3>3, <3>4, IdFrame
  <2>2. CASE ProbePermits(image.home)
    <3>1. image \in Image /\ micro[v].lineage = 0 /\ microStage[v] = "env"
      BY <1>6 DEF Probe, IdInv, IdsAtStage, Over, Unprobed, Unadopted
    <3>2. /\ micro'[v].home = image.home /\ micro'[v].id = micro[v].id
          /\ micro'[v].lineage = 0 /\ micro'[v].restore = micro[v].restore
      <4>1. PICK met \in SUBSET MicroVms : ProbedWith(v, met) BY <1>6, <2>2, ProbeEffect
      <4> QED BY <3>1, <4>1 DEF ProbedWith
    <3>3. \A w \in MicroVms : w # v =>
            /\ micro'[w].id = micro[w].id /\ micro'[w].home = micro[w].home
            /\ micro'[w].lineage = micro[w].lineage /\ micro'[w].restore = micro[w].restore
      <4>1. PICK met \in SUBSET MicroVms : ProbedWith(v, met) BY <1>6, <2>2, ProbeEffect
      <4> QED BY <4>1 DEF ProbedWith, Marked
    <3>4. OnlyMoves(v, "probed") BY <1>6, <1>c, <2>2, EnterMoves DEF Probe
    <3>5. UNCHANGED <<claimed, image>> BY <1>6 DEF Probe
    <3>6. IdsAtStage'
      <4> SUFFICES ASSUME NEW w \in MicroVms
                   PROVE  IdsAtStage!(w)'
        BY DEF IdsAtStage
      <4>1. CASE w = v
        BY <3>1, <3>2, <3>4, <3>5, <4>1
           DEF IdInv, IdsAtStage, OnlyMoves, Over, Unprobed, Image
      <4>2. CASE w # v BY <3>3, <3>4, <3>5, <4>2 DEF IdInv, IdsAtStage, OnlyMoves
      <4> QED BY <4>1, <4>2
    <3>7. \A w \in MicroVms : micro'[w].id = micro[w].id /\ micro'[w].lineage = micro[w].lineage
      BY <3>1, <3>2, <3>3
    <3>8. IdsAreOut' BY <3>5, <3>7 DEF IdInv, IdsAreOut
    <3>9. IdsAreOwn' BY <3>7 DEF IdInv, IdsAreOwn
    <3>10. OutHasGuard' BY <3>5, <3>7 DEF IdInv, OutHasGuard
    <3> QED BY <3>6, <3>8, <3>9, <3>10 DEF IdInv
  <2> QED BY <1>6, <2>1, <2>2 DEF Probe
<1>7. CASE Load(v)
  <2> USE DEF Load
  <2>1. PICK to \in {"loaded", "stop"} : Enter(v, to) BY <1>7
  <2>2. to \in MicroStages /\ OnlyMoves(v, to) BY <1>c, <2>1, EnterMoves
  <2>3. SameIds BY <1>0, <1>7 DEF SameIds
  <2>4. microStage[v] \notin Over BY <1>7 DEF Over
  <2>5. to \in MicroStages \ Over /\ (to \in Unprobed => microStage[v] \in Unprobed)
        /\ (to \in Unadopted => microStage[v] \in Unadopted)
    BY <1>7, <2>1, <2>2 DEF Over, Unprobed, Unadopted
  <2>6. UNCHANGED <<claimed, image>> BY <1>7
  <2> QED BY <2>2, <2>3, <2>4, <2>5, <2>6, IdFrame
<1>8. CASE LineageAdopted(v)
  <2>1. PICK to \in {"lineage"} : Enter(v, to) BY <1>8 DEF LineageAdopted
  <2>2. OnlyMoves(v, "lineage") BY <1>c, <2>1, EnterMoves
  <2>3. UNCHANGED image /\ microStage[v] = "loaded" BY <1>8 DEF LineageAdopted
  <2>4. CASE UNCHANGED <<micro, claimed>>
    <3>1. SameIds BY <2>4 DEF SameIds
    <3>2. "lineage" \in MicroStages \ Over /\ "lineage" \notin Unprobed \cup Unadopted
      BY <1>c DEF Over, Unprobed, Unadopted
    <3>3. microStage[v] \notin Over BY <2>3 DEF Over
    <3> QED BY <2>2, <2>3, <2>4, <3>1, <3>2, <3>3, IdFrame
  <2>5. CASE ~(micro[v].home = micro[v].id \/ micro[v].home \in claimed)
    <3> DEFINE i == micro[v].home
    <3>1. i \in VmIds /\ i \notin claimed /\ i # micro[v].id /\ micro[v].lineage = 0
      BY <2>3, <2>5 DEF IdInv, IdsAtStage, Over, Unadopted
    <3>2. micro' = [micro EXCEPT ![v].lineage = i] /\ claimed' = claimed \cup {i}
      BY <1>8, <2>5 DEF LineageAdopted, AdoptLineage
    <3>3. /\ micro'[v].lineage = i
          /\ \A w \in MicroVms : /\ micro'[w].id = micro[w].id /\ micro'[w].home = micro[w].home
                                 /\ micro'[w].restore = micro[w].restore
                                 /\ w # v => micro'[w].lineage = micro[w].lineage
      BY <1>0, <3>2 DEF MicroRecord
    <3>4. \A w \in MicroVms : micro[w].id # i /\ micro[w].lineage # i
      BY <3>1 DEF IdInv, IdsAreOut
    <3>5. IdsAtStage'
      <4> SUFFICES ASSUME NEW w \in MicroVms
                   PROVE  IdsAtStage!(w)'
        BY DEF IdsAtStage
      <4>1. CASE w = v
        BY <2>2, <2>3, <3>1, <3>3, <4>1
           DEF IdInv, IdsAtStage, OnlyMoves, Over, Unprobed, Unadopted
      <4>2. CASE w # v BY <2>2, <2>3, <3>3, <4>2 DEF IdInv, IdsAtStage, OnlyMoves
      <4> QED BY <4>1, <4>2
    <3> HIDE DEF i
    <3>6. IdsAreOut'
      <4> SUFFICES ASSUME NEW w \in MicroVms
                   PROVE  {micro'[w].id, micro'[w].lineage} \ {0} \subseteq claimed'
        BY DEF IdsAreOut
      <4>1. CASE w = v BY <3>2, <3>3, <4>1 DEF IdInv, IdsAreOut
      <4>2. CASE w # v BY <3>2, <3>3, <4>2 DEF IdInv, IdsAreOut
      <4> QED BY <4>1, <4>2
    <3>7. IdsAreOwn'
      <4> SUFFICES ASSUME NEW a \in MicroVms, NEW b \in MicroVms, a # b
                   PROVE  IdsAreOwn!(a, b)!2'
        BY DEF IdsAreOwn
      <4>0. IdsAreOwn!(a, b)!2 /\ IdsAreOwn!(b, a)!2 BY DEF IdInv, IdsAreOwn
      <4>1. CASE a # v /\ b # v
        <5>1. /\ micro'[a].id = micro[a].id /\ micro'[a].lineage = micro[a].lineage
              /\ micro'[b].id = micro[b].id /\ micro'[b].lineage = micro[b].lineage
          BY <3>3, <4>1
        <5> QED BY <4>0, <5>1
      <4>2. CASE a = v BY <3>3, <3>4, <4>0, <4>2
      <4>3. CASE b = v BY <3>3, <3>4, <4>0, <4>3
      <4> QED BY <4>1, <4>2, <4>3
    <3>8. OutHasGuard'
      <4> SUFFICES ASSUME NEW j \in claimed'
                   PROVE  \E w \in MicroVms : j \in {micro'[w].id, micro'[w].lineage}
        BY DEF OutHasGuard
      <4>1. CASE j = i BY <3>3, <4>1
      <4>2. CASE j # i
        <5>1. j \in claimed /\ j # 0 BY <3>2, <4>2 DEF MicroTypes, HostShape
        <5>2. PICK w \in MicroVms : j \in {micro[w].id, micro[w].lineage}
          BY <5>1 DEF IdInv, OutHasGuard
        <5> QED BY <3>1, <3>3, <5>1, <5>2
      <4> QED BY <4>1, <4>2
    <3> QED BY <3>5, <3>6, <3>7, <3>8 DEF IdInv
  <2> QED BY <1>8, <2>4, <2>5 DEF LineageAdopted, AdoptLineage
<1>9. CASE CidAdopted(v)
  <2> USE DEF CidAdopted
  <2>1. PICK to \in {"resume"} : Enter(v, to) BY <1>9
  <2>2. to \in MicroStages /\ OnlyMoves(v, to) BY <1>c, <2>1, EnterMoves
  <2>3. SameIds
    <3>1. UNCHANGED micro \/ micro' = [micro EXCEPT ![v].baked = micro[v].answers]
      BY <1>9 DEF AdoptBakedCid
    <3>2. CASE UNCHANGED micro BY <3>2 DEF SameIds
    <3>3. CASE micro' = [micro EXCEPT ![v].baked = micro[v].answers]
      BY <1>0, <3>3 DEF SameIds, MicroRecord
    <3> QED BY <3>1, <3>2, <3>3
  <2>4. microStage[v] \notin Over BY <1>9 DEF Over
  <2>5. to \in MicroStages \ Over /\ (to \in Unprobed => microStage[v] \in Unprobed)
        /\ (to \in Unadopted => microStage[v] \in Unadopted)
    BY <1>9, <2>1, <2>2 DEF Over, Unprobed, Unadopted
  <2>6. UNCHANGED <<claimed, image>> BY <1>9
  <2> QED BY <2>2, <2>3, <2>4, <2>5, <2>6, IdFrame
<1>10. CASE Resumed(v)
  <2> USE DEF Resumed, host
  <2>1. PICK to \in {"running"} : Enter(v, to) BY <1>10
  <2>2. to \in MicroStages /\ OnlyMoves(v, to) BY <1>c, <2>1, EnterMoves
  <2>3. SameIds BY <1>0, <1>10 DEF SameIds
  <2>4. microStage[v] \notin Over BY <1>10 DEF Over
  <2>5. to \in MicroStages \ Over /\ (to \in Unprobed => microStage[v] \in Unprobed)
        /\ (to \in Unadopted => microStage[v] \in Unadopted)
    BY <1>10, <2>1, <2>2 DEF Over, Unprobed, Unadopted
  <2>6. UNCHANGED <<claimed, image>> BY <1>10
  <2> QED BY <2>2, <2>3, <2>4, <2>5, <2>6, IdFrame
<1>11. CASE FailStart(v)
  <2> USE DEF FailStart, host
  <2>1. PICK to \in {"stop"} : Enter(v, to) BY <1>11
  <2>2. to \in MicroStages /\ OnlyMoves(v, to) BY <1>c, <2>1, EnterMoves
  <2>3. SameIds BY <1>0, <1>11 DEF SameIds
  <2>4. microStage[v] \notin Over BY <1>11 DEF Over, Starting
  <2>5. to \in MicroStages \ Over /\ (to \in Unprobed => microStage[v] \in Unprobed)
        /\ (to \in Unadopted => microStage[v] \in Unadopted)
    BY <1>11, <2>1, <2>2 DEF Over, Unprobed, Unadopted
  <2>6. UNCHANGED <<claimed, image>> BY <1>11
  <2> QED BY <2>2, <2>3, <2>4, <2>5, <2>6, IdFrame
<1>12. CASE SnapshotVm(v)
  <2>1. micro[v].home \in VmIds BY <1>12 DEF SnapshotVm, IdInv, IdsAtStage, Over
  <2>2. micro[v].answers \in Cids BY <1>12 DEF SnapshotVm, CidInv, CidsAtStage
  <2>3. image' \in Image BY <1>12, <2>1, <2>2 DEF SnapshotVm, Image
  <2>4. UNCHANGED <<microStage, micro, claimed>> BY <1>12 DEF SnapshotVm, host
  <2> QED BY <2>3, <2>4 DEF IdInv, IdsAtStage, IdsAreOut, IdsAreOwn, OutHasGuard
<1>13. CASE ShutdownVm(v)
  <2> USE DEF ShutdownVm, host
  <2>1. PICK to \in {"stop"} : Enter(v, to) BY <1>13
  <2>2. to \in MicroStages /\ OnlyMoves(v, to) BY <1>c, <2>1, EnterMoves
  <2>3. SameIds BY <1>0, <1>13 DEF SameIds
  <2>4. microStage[v] \notin Over BY <1>13 DEF Over
  <2>5. to \in MicroStages \ Over /\ (to \in Unprobed => microStage[v] \in Unprobed)
        /\ (to \in Unadopted => microStage[v] \in Unadopted)
    BY <1>13, <2>1, <2>2 DEF Over, Unprobed, Unadopted
  <2>6. UNCHANGED <<claimed, image>> BY <1>13
  <2> QED BY <2>2, <2>3, <2>4, <2>5, <2>6, IdFrame
<1>14. CASE DropVm(v)
  <2> USE DEF DropVm
  <2>1. PICK to \in {"cid"} : Enter(v, to) BY <1>14
  <2>2. to \in MicroStages /\ OnlyMoves(v, to) BY <1>c, <2>1, EnterMoves
  <2>3. SameIds BY <1>0, <1>14 DEF SameIds
  <2>4. microStage[v] \notin Over BY <1>14 DEF Over
  <2>5. to \in MicroStages \ Over /\ (to \in Unprobed => microStage[v] \in Unprobed)
        /\ (to \in Unadopted => microStage[v] \in Unadopted)
    BY <1>14, <2>1, <2>2 DEF Over, Unprobed, Unadopted
  <2>6. UNCHANGED <<claimed, image>> BY <1>14
  <2> QED BY <2>2, <2>3, <2>4, <2>5, <2>6, IdFrame
<1>15. CASE DropCid(v)
  <2>1. UNCHANGED <<claimed, image>> /\ microStage[v] = "cid" BY <1>15 DEF DropCid
  <2>2. Enter(v, "rmdir") \/ UNCHANGED microStage BY <1>15 DEF DropCid
  <2>3. PICK to \in {"cid", "rmdir"} : OnlyMoves(v, to)
    <3>1. UNCHANGED microStage => OnlyMoves(v, "cid") BY <1>0, <2>1 DEF OnlyMoves
    <3> QED BY <1>c, <2>2, <3>1, EnterMoves
  <2>4. SameIds BY <1>0, <1>15 DEF DropCid, SameIds, MicroRecord
  <2>5. to \in MicroStages \ Over /\ to \notin Unprobed \cup Unadopted
    BY <1>c DEF Over, Unprobed, Unadopted
  <2>6. microStage[v] \notin Over BY <2>1 DEF Over
  <2> QED BY <2>1, <2>3, <2>4, <2>5, <2>6, IdFrame
<1>16. CASE RemoveHome(v)
  <2> USE DEF RemoveHome
  <2>1. PICK to \in {"release"} : Enter(v, to) BY <1>16
  <2>2. to \in MicroStages /\ OnlyMoves(v, to) BY <1>c, <2>1, EnterMoves
  <2>3. SameIds BY <1>0, <1>16 DEF SameIds
  <2>4. microStage[v] \notin Over BY <1>16 DEF Over
  <2>5. to \in MicroStages \ Over /\ (to \in Unprobed => microStage[v] \in Unprobed)
        /\ (to \in Unadopted => microStage[v] \in Unadopted)
    BY <1>16, <2>1, <2>2 DEF Over, Unprobed, Unadopted
  <2>6. UNCHANGED <<claimed, image>> BY <1>16
  <2> QED BY <2>2, <2>3, <2>4, <2>5, <2>6, IdFrame
<1>17. CASE DropVmid(v)
  <2>1. OnlyMoves(v, "done") BY <1>17, <1>c, EnterMoves DEF DropVmid
  <2>2. /\ micro'[v] = Blank /\ \A w \in MicroVms : w # v => micro'[w] = micro[w]
        /\ claimed' = claimed \ {micro[v].lineage, micro[v].id} /\ UNCHANGED image
    BY <1>0, <1>17 DEF DropVmid, Identities
  <2>3. micro'[v].id = 0 /\ micro'[v].home = 0 /\ micro'[v].lineage = 0
    BY <2>2, BlankFields
  <2>4. IdsAtStage'
    <3> SUFFICES ASSUME NEW w \in MicroVms
                 PROVE  IdsAtStage!(w)'
      BY DEF IdsAtStage
    <3>1. CASE w = v BY <2>1, <2>3, <3>1 DEF OnlyMoves, Over, Unprobed
    <3>2. CASE w # v BY <2>1, <2>2, <3>2 DEF IdInv, IdsAtStage, OnlyMoves
    <3> QED BY <3>1, <3>2
  <2>5. IdsAreOut'
    <3> SUFFICES ASSUME NEW w \in MicroVms, NEW i \in {micro'[w].id, micro'[w].lineage}, i # 0
                 PROVE  i \in claimed'
      BY DEF IdsAreOut
    <3>1. w # v BY <2>3
    <3>2. i \in {micro[w].id, micro[w].lineage} /\ i \in claimed
      BY <2>2, <3>1 DEF IdInv, IdsAreOut
    <3>3. i # micro[v].id /\ i # micro[v].lineage BY <3>1, <3>2 DEF IdInv, IdsAreOwn
    <3> QED BY <2>2, <3>2, <3>3
  <2>6. IdsAreOwn'
    <3> SUFFICES ASSUME NEW a \in MicroVms, NEW b \in MicroVms, a # b
                 PROVE  IdsAreOwn!(a, b)!2'
      BY DEF IdsAreOwn
    <3>1. CASE a # v /\ b # v BY <2>2, <3>1 DEF IdInv, IdsAreOwn
    <3>2. CASE a = v BY <2>3, <3>2
    <3>3. CASE b = v BY <2>3, <3>3
    <3> QED BY <3>1, <3>2, <3>3
  <2>7. OutHasGuard'
    <3> SUFFICES ASSUME NEW i \in claimed'
                 PROVE  \E w \in MicroVms : i \in {micro'[w].id, micro'[w].lineage}
      BY DEF OutHasGuard
    <3>1. PICK w \in MicroVms : i \in {micro[w].id, micro[w].lineage}
      BY <2>2 DEF IdInv, OutHasGuard
    <3>2. w # v BY <2>2, <3>1
    <3> QED BY <2>2, <3>1, <3>2
  <2> QED BY <2>4, <2>5, <2>6, <2>7 DEF IdInv
<1> QED
  BY <1>1, <1>2, <1>3, <1>4, <1>5, <1>6, <1>7, <1>8, <1>9, <1>10, <1>11, <1>12, <1>13, <1>14,
     <1>15, <1>16, <1>17 DEF VmStep

-----------------------------------------------------------------------------
(* CIDs *)

\* An allocated or adopted CID is fresh, what a guard gives back was its own, and the
\* hint stays at or below the lowest one that is free.
LEMMA CidStep ==
  ASSUME MicroTypes, IdInv, CidInv, NEW v \in MicroVms, VmStep(v)
  PROVE  CidInv'
<1> USE MicroVmConstants
<1>0. /\ micro \in [MicroVms -> MicroRecord] /\ micro[v] \in MicroRecord
      /\ microStage \in [MicroVms -> MicroStages]
  BY DEF MicroTypes, MicroShape
<1>c. /\ {"new", "done", "running"} \subseteq MicroStages
      /\ {"claimed", "dir", "env", "verify", "probed", "loaded", "lineage", "resume"}
           \subseteq MicroStages
      /\ {"stop", "cid", "rmdir", "release"} \subseteq MicroStages
  BY DEF MicroStages, Starting, Stopping
<1>p. \A w \in MicroVms : micro[w].cid \in Cids \cup {0} /\ micro[w].baked \in Cids \cup {0}
  BY <1>0 DEF MicroRecord
<1>q. 0 \notin Cids BY DEF Cids
<1>1. CASE ClaimVmid(v)
  <2>1. OnlyMoves(v, "claimed") BY <1>1, <1>c, EnterMoves DEF ClaimVmid
  <2>2. microStage[v] = "new" /\ UNCHANGED <<cids, nextFree>> BY <1>1 DEF ClaimVmid
  <2>3. micro[v].cid = 0 /\ micro[v].baked = 0
    BY <2>2 DEF CidInv, CidsAtStage, Over
  <2>4. micro'[v].cid = 0 /\ micro'[v].baked = 0 BY <1>1, ClaimEffect DEF ClaimedAs
  <2>5. \A w \in MicroVms : w # v =>
          /\ micro'[w].cid = micro[w].cid /\ micro'[w].baked = micro[w].baked
          /\ micro'[w].answers = micro[w].answers /\ micro'[w].bakedCid = micro[w].bakedCid
    <3>1. PICK restore \in BOOLEAN, i \in VmIds \ claimed, met \in SUBSET MicroVms :
            ClaimedAs(v, restore, i, met)
      BY <1>1, ClaimEffect
    <3> QED BY <3>1 DEF ClaimedAs, Marked
  <2>6. SameCids BY <2>3, <2>4, <2>5 DEF SameCids
  <2>7. /\ "claimed" \in MicroStages /\ "claimed" \notin CidReady \cup Bound
        /\ microStage[v] \in CidEarly \cap Unbaked
    BY <1>c, <2>2 DEF CidReady, Bound, CidEarly, Unbaked, Over, Starting
  <2> QED BY <2>1, <2>2, <2>5, <2>6, <2>7, CidFrame
<1>2. CASE MakeDir(v)
  <2> USE DEF MakeDir
  <2>1. PICK to \in {"dir"} : Enter(v, to) BY <1>2
  <2>2. to \in MicroStages /\ OnlyMoves(v, to) BY <1>c, <2>1, EnterMoves
  <2>3. SameCids BY <1>0, <1>2 DEF SameCids
  <2>4. \A w \in MicroVms : w # v =>
          micro'[w].answers = micro[w].answers /\ micro'[w].bakedCid = micro[w].bakedCid
    BY <1>0, <1>2 DEF MicroRecord
  <2>5. /\ to \in CidEarly => microStage[v] \in CidEarly
        /\ to \in Unbaked => microStage[v] \in Unbaked
        /\ to \in CidReady => microStage[v] \in CidReady
    BY <1>2, <2>1 DEF CidEarly, Unbaked, CidReady, Over, Unadopted, Unprobed, Starting
  <2>6. to \in Bound => micro'[v].answers \in Cids BY <2>1 DEF Bound
  <2>7. to = "probed" => micro'[v].bakedCid \in Cids BY <2>1
  <2>8. UNCHANGED <<cids, nextFree>> BY <1>2
  <2> QED BY <2>2, <2>3, <2>4, <2>5, <2>6, <2>7, <2>8, CidFrame
<1>3. CASE AllocateCid(v)
  <2>0. microStage[v] = "dir" BY <1>3 DEF AllocateCid
  <2>1. CASE Exhausted(CidFound)
    <3>1. Enter(v, "stop") /\ UNCHANGED <<micro, cids, nextFree>>
      BY <1>3, <2>1 DEF AllocateCid
    <3>2. OnlyMoves(v, "stop") /\ SameCids BY <1>c, <3>1, EnterMoves DEF SameCids
    <3>3. "stop" \in MicroStages /\ "stop" \notin CidEarly \cup Unbaked \cup CidReady \cup Bound
      BY <1>c DEF CidReady, Bound, CidEarly, Unbaked, Over, Starting, Unadopted, Unprobed
    <3> QED BY <3>1, <3>2, <3>3, CidFrame
  <2>2. CASE ~Exhausted(CidFound)
    <3> DEFINE c == CidFound
    <3>1. /\ cids' = cids \cup {c} /\ nextFree' = c + 1
          /\ micro' = [micro EXCEPT ![v].cid = c] /\ Enter(v, "env")
      BY <1>3, <2>2 DEF AllocateCid
    <3>2. /\ c \in nextFree .. (MaxCid + 1) /\ c \notin cids
          /\ \A d \in nextFree .. (c - 1) : d \in cids
      BY CidFoundFacts DEF MicroTypes
    <3>3. c <= MaxCid BY <2>2, <3>2 DEF Exhausted, MicroTypes, PoolShape
    <3> HIDE DEF c
    <3>4. c \in Cids /\ c # 0 BY <3>2, <3>3 DEF Cids, MicroTypes, PoolShape
    <3>5. OnlyMoves(v, "env") BY <1>c, <3>1, EnterMoves
    <3>6. /\ micro'[v].cid = c /\ micro'[v].baked = micro[v].baked
          /\ \A w \in MicroVms : w # v => micro'[w] = micro[w]
      BY <1>0, <3>1 DEF MicroRecord
    <3>7. micro[v].cid = 0 /\ micro[v].baked = 0
      BY <2>0 DEF CidInv, CidsAtStage, Unadopted, Unprobed
    <3>8. \A w \in MicroVms : micro[w].cid # c /\ micro[w].baked # c
      BY <3>2, <3>4 DEF CidInv, HeldCidIsReserved
    <3>9. CidsAtStage'
      <4> SUFFICES ASSUME NEW w \in MicroVms
                   PROVE  CidsAtStage!(w)'
        BY DEF CidsAtStage
      <4>1. CASE w = v BY <3>4, <3>5, <3>6, <3>7, <4>1 DEF OnlyMoves, Over
      <4>2. CASE w # v BY <3>5, <3>6, <4>2 DEF CidInv, CidsAtStage, OnlyMoves
      <4> QED BY <4>1, <4>2
    <3>10. HeldCidIsReserved'
      <4> SUFFICES ASSUME NEW w \in MicroVms
                   PROVE  {micro'[w].cid, micro'[w].baked} \ {0} \subseteq cids'
        BY DEF HeldCidIsReserved
      <4>1. CASE w = v BY <3>1, <3>6, <3>7, <4>1
      <4>2. CASE w # v BY <3>1, <3>6, <4>2 DEF CidInv, HeldCidIsReserved
      <4> QED BY <4>1, <4>2
    <3>11. CidsAreOwn'
      <4> SUFFICES ASSUME NEW a \in MicroVms, NEW b \in MicroVms
                   PROVE  CidsAreOwn!(a, b)'
        BY DEF CidsAreOwn
      <4>1. CASE a # v /\ b # v BY <3>6, <4>1 DEF CidInv, CidsAreOwn
      <4>2. CASE a = v BY <3>4, <3>6, <3>7, <3>8, <4>2
      <4>3. CASE b = v /\ a # v BY <3>4, <3>6, <3>7, <3>8, <4>3
      <4> QED BY <4>1, <4>2, <4>3
    <3>12. CidHasGuard'
      <4> SUFFICES ASSUME NEW d \in cids'
                   PROVE  \E w \in MicroVms : d \in {micro'[w].cid, micro'[w].baked}
        BY DEF CidHasGuard
      <4>1. CASE d = c BY <3>6, <4>1
      <4>2. CASE d # c
        <5>1. d \in cids /\ d # 0 BY <1>q, <3>1, <4>2 DEF MicroTypes, PoolShape
        <5>2. PICK w \in MicroVms : d \in {micro[w].cid, micro[w].baked}
          BY <5>1 DEF CidInv, CidHasGuard
        <5>3. w # v BY <3>7, <5>1, <5>2
        <5> QED BY <3>6, <5>2, <5>3
      <4> QED BY <4>1, <4>2
    <3>13. NothingFreeBelowHint'
      <4> SUFFICES ASSUME NEW d \in MinCid .. c
                   PROVE  d \in cids \cup {c}
        BY <3>1, <3>4 DEF NothingFreeBelowHint, Cids
      <4>1. d \in Nat /\ c \in Nat /\ nextFree \in Nat
        BY <3>4 DEF Cids, MicroTypes, PoolShape
      <4>2. CASE d < nextFree BY <4>1, <4>2 DEF CidInv, NothingFreeBelowHint
      <4>3. CASE nextFree <= d /\ d # c BY <3>2, <4>1, <4>3
      <4> QED BY <4>1, <4>2, <4>3
    <3> QED BY <3>9, <3>10, <3>11, <3>12, <3>13 DEF CidInv
  <2> QED BY <2>1, <2>2
<1>4. CASE CreateVm(v)
  <2> USE DEF CreateVm
  <2>1. PICK to \in {"verify", "stop"} : Enter(v, to) BY <1>4
  <2>2. to \in MicroStages /\ OnlyMoves(v, to) BY <1>c, <2>1, EnterMoves
  <2>3. SameCids BY <1>0, <1>4 DEF SameCids
  <2>4. \A w \in MicroVms : w # v =>
          micro'[w].answers = micro[w].answers /\ micro'[w].bakedCid = micro[w].bakedCid
    BY <1>0, <1>4 DEF MicroRecord
  <2>5. /\ to \in CidEarly => microStage[v] \in CidEarly
        /\ to \in Unbaked => microStage[v] \in Unbaked
        /\ to \in CidReady => microStage[v] \in CidReady
    BY <1>4, <2>1 DEF CidEarly, Unbaked, CidReady, Over, Unadopted, Unprobed, Starting
  <2>6. to \in Bound => micro'[v].answers \in Cids 
    <3>1. microStage[v] = "env" /\ micro'[v].answers = micro[v].cid
      BY <1>0, <1>4 DEF MicroRecord
    <3> QED BY <3>1 DEF CidInv, CidsAtStage, Starting
  <2>7. to = "probed" => micro'[v].bakedCid \in Cids BY <2>1
  <2>8. UNCHANGED <<cids, nextFree>> BY <1>4
  <2> QED BY <2>2, <2>3, <2>4, <2>5, <2>6, <2>7, <2>8, CidFrame
<1>5. CASE VerifiedHome(v)
  <2> USE DEF VerifiedHome
  <2>1. PICK to \in {"running", "env"} : Enter(v, to) BY <1>5
  <2>2. to \in MicroStages /\ OnlyMoves(v, to) BY <1>c, <2>1, EnterMoves
  <2>3. SameCids
    <3>1. UNCHANGED micro \/ micro' = [micro EXCEPT ![v].up = FALSE, ![v].respawns = @ + 1] BY <1>5
    <3>2. CASE UNCHANGED micro BY <3>2 DEF SameCids
    <3>3. CASE micro' = [micro EXCEPT ![v].up = FALSE, ![v].respawns = @ + 1]
      BY <1>0, <3>3 DEF SameCids, MicroRecord
    <3> QED BY <3>1, <3>2, <3>3
  <2>4. \A w \in MicroVms : w # v =>
          micro'[w].answers = micro[w].answers /\ micro'[w].bakedCid = micro[w].bakedCid
    BY <1>0, <1>5 DEF MicroRecord
  <2>5. /\ to \in CidEarly => microStage[v] \in CidEarly
        /\ to \in Unbaked => microStage[v] \in Unbaked
        /\ to \in CidReady => microStage[v] \in CidReady
    BY <1>5, <2>1 DEF CidEarly, Unbaked, CidReady, Over, Unadopted, Unprobed, Starting
  <2>6. to \in Bound => micro'[v].answers \in Cids 
    <3>1. microStage[v] = "verify" /\ micro'[v].answers = micro[v].answers
      BY <1>0, <1>5 DEF MicroRecord
    <3> QED BY <3>1 DEF CidInv, CidsAtStage
  <2>7. to = "probed" => micro'[v].bakedCid \in Cids BY <2>1
  <2>8. UNCHANGED <<cids, nextFree>> BY <1>5
  <2> QED BY <2>2, <2>3, <2>4, <2>5, <2>6, <2>7, <2>8, CidFrame
<1>6. CASE Probe(v)
  <2> USE DEF Probe
  <2>1. PICK to \in {"probed", "stop"} : Enter(v, to) BY <1>6
  <2>2. to \in MicroStages /\ OnlyMoves(v, to) BY <1>c, <2>1, EnterMoves
  <2>3. SameCids
    <3>1. CASE UNCHANGED micro BY <3>1 DEF SameCids
    <3>2. CASE ProbePermits(image.home)
      <4> HIDE DEF Probe
      <4>1. PICK met \in SUBSET MicroVms : ProbedWith(v, met) BY <1>6, <3>2, ProbeEffect
      <4>2. micro'[v].cid = micro[v].cid /\ micro'[v].baked = micro[v].baked
        BY <4>1 DEF ProbedWith
      <4>3. \A w \in MicroVms : w # v =>
              micro'[w].cid = micro[w].cid /\ micro'[w].baked = micro[w].baked
        BY <4>1 DEF ProbedWith, Marked
      <4> QED BY <4>2, <4>3 DEF SameCids
    <3> QED BY <1>6, <3>1, <3>2
  <2>4. \A w \in MicroVms : w # v =>
          micro'[w].answers = micro[w].answers /\ micro'[w].bakedCid = micro[w].bakedCid
    <3>1. CASE UNCHANGED micro BY <3>1
    <3>2. CASE ProbePermits(image.home)
      <4> HIDE DEF Probe
      <4>1. PICK met \in SUBSET MicroVms : ProbedWith(v, met) BY <1>6, <3>2, ProbeEffect
      <4> QED BY <4>1 DEF ProbedWith, Marked
    <3> QED BY <1>6, <3>1, <3>2
  <2>5. /\ to \in CidEarly => microStage[v] \in CidEarly
        /\ to \in Unbaked => microStage[v] \in Unbaked
        /\ to \in CidReady => microStage[v] \in CidReady
    BY <1>6, <2>1 DEF CidEarly, Unbaked, CidReady, Over, Unadopted, Unprobed, Starting
  <2>6. to \in Bound => micro'[v].answers \in Cids BY <2>1 DEF Bound
  <2>7. to = "probed" => micro'[v].bakedCid \in Cids 
    <3>1. CASE ProbePermits(image.home)
      <4>1. image \in Image /\ micro'[v].bakedCid = image.cid
        BY <1>6, <3>1, ProbeEffect DEF ProbedWith
      <4> QED BY <4>1 DEF Image
    <3>2. CASE ~ProbePermits(image.home)
      <4>1. Enter(v, "stop") BY <1>6, <3>2
      <4> QED BY <1>0, <2>1, <4>1 DEF Enter
    <3> QED BY <3>1, <3>2
  <2>8. UNCHANGED <<cids, nextFree>> BY <1>6
  <2> QED BY <2>2, <2>3, <2>4, <2>5, <2>6, <2>7, <2>8, CidFrame
<1>7. CASE Load(v)
  <2> USE DEF Load
  <2>1. PICK to \in {"loaded", "stop"} : Enter(v, to) BY <1>7
  <2>2. to \in MicroStages /\ OnlyMoves(v, to) BY <1>c, <2>1, EnterMoves
  <2>3. SameCids BY <1>0, <1>7 DEF SameCids
  <2>4. \A w \in MicroVms : w # v =>
          micro'[w].answers = micro[w].answers /\ micro'[w].bakedCid = micro[w].bakedCid
    BY <1>0, <1>7 DEF MicroRecord
  <2>5. /\ to \in CidEarly => microStage[v] \in CidEarly
        /\ to \in Unbaked => microStage[v] \in Unbaked
        /\ to \in CidReady => microStage[v] \in CidReady
    BY <1>7, <2>1 DEF CidEarly, Unbaked, CidReady, Over, Unadopted, Unprobed, Starting
  <2>6. to \in Bound => micro'[v].answers \in Cids 
    <3>1. micro[v].cid \in Cids
      BY <1>7 DEF CidInv, CidsAtStage, Starting
    <3>2. (IF microStage[v] = "probed" THEN micro[v].bakedCid ELSE image.cid) \in Cids
      BY <1>7 DEF CidInv, CidsAtStage, IdInv, IdsAtStage, Over, Image
    <3>3. micro'[v].answers =
            IF backend.cid THEN IF microStage[v] = "probed" THEN micro[v].bakedCid ELSE image.cid
            ELSE micro[v].cid
      BY <1>0, <1>7 DEF MicroRecord
    <3> QED BY <3>1, <3>2, <3>3
  <2>7. to = "probed" => micro'[v].bakedCid \in Cids BY <2>1
  <2>8. UNCHANGED <<cids, nextFree>> BY <1>7
  <2> QED BY <2>2, <2>3, <2>4, <2>5, <2>6, <2>7, <2>8, CidFrame
<1>8. CASE LineageAdopted(v)
  <2> USE DEF LineageAdopted
  <2>1. PICK to \in {"lineage"} : Enter(v, to) BY <1>8
  <2>2. to \in MicroStages /\ OnlyMoves(v, to) BY <1>c, <2>1, EnterMoves
  <2>3. SameCids
    <3>1. UNCHANGED micro \/ micro' = [micro EXCEPT ![v].lineage = micro[v].home]
      BY <1>8 DEF AdoptLineage
    <3>2. CASE UNCHANGED micro BY <3>2 DEF SameCids
    <3>3. CASE micro' = [micro EXCEPT ![v].lineage = micro[v].home]
      BY <1>0, <3>3 DEF SameCids, MicroRecord
    <3> QED BY <3>1, <3>2, <3>3
  <2>4. \A w \in MicroVms : w # v =>
          micro'[w].answers = micro[w].answers /\ micro'[w].bakedCid = micro[w].bakedCid
    BY <1>0, <1>8 DEF MicroRecord, AdoptLineage
  <2>5. /\ to \in CidEarly => microStage[v] \in CidEarly
        /\ to \in Unbaked => microStage[v] \in Unbaked
        /\ to \in CidReady => microStage[v] \in CidReady
    BY <1>8, <2>1 DEF CidEarly, Unbaked, CidReady, Over, Unadopted, Unprobed, Starting
  <2>6. to \in Bound => micro'[v].answers \in Cids 
    <3>1. microStage[v] = "loaded" /\ micro'[v].answers = micro[v].answers
      BY <1>0, <1>8 DEF MicroRecord, AdoptLineage
    <3> QED BY <3>1 DEF CidInv, CidsAtStage
  <2>7. to = "probed" => micro'[v].bakedCid \in Cids BY <2>1
  <2>8. UNCHANGED <<cids, nextFree>> BY <1>8
  <2> QED BY <2>2, <2>3, <2>4, <2>5, <2>6, <2>7, <2>8, CidFrame
<1>9. CASE CidAdopted(v)
  <2>0. microStage[v] = "lineage" /\ UNCHANGED nextFree BY <1>9 DEF CidAdopted
  <2>1. OnlyMoves(v, "resume") BY <1>9, <1>c, EnterMoves DEF CidAdopted
  <2>2. micro[v].baked = 0 /\ micro[v].cid \in Cids /\ micro[v].answers \in Cids
    BY <2>0 DEF CidInv, CidsAtStage, Starting
  <2>3. CASE UNCHANGED <<micro, cids>>
    <3>1. SameCids BY <2>3 DEF SameCids
    <3>2. "resume" \in MicroStages /\ "resume" \notin CidEarly \cup Unbaked
      BY <1>c DEF CidEarly, Unbaked, Over, Unadopted, Unprobed
    <3>3. microStage[v] \in CidReady BY <2>0 DEF CidReady, Starting
    <3> QED BY <2>0, <2>1, <2>2, <2>3, <3>1, <3>2, <3>3, CidFrame
  <2>4. CASE ~(micro[v].answers = micro[v].cid \/ micro[v].answers \in cids)
    <3> DEFINE c == micro[v].answers
    <3>1. micro' = [micro EXCEPT ![v].baked = c] /\ cids' = cids \cup {c}
      BY <1>9, <2>4 DEF CidAdopted, AdoptBakedCid
    <3>2. c \in Cids /\ c # 0 /\ c \notin cids BY <1>q, <2>2, <2>4
    <3>3. /\ micro'[v].baked = c /\ micro'[v].cid = micro[v].cid /\ micro'[v].answers = c
          /\ \A w \in MicroVms : w # v => micro'[w] = micro[w]
      BY <1>0, <3>1 DEF MicroRecord
    <3> HIDE DEF c
    <3>4. \A w \in MicroVms : micro[w].cid # c /\ micro[w].baked # c
      BY <3>2 DEF CidInv, HeldCidIsReserved
    <3>5. CidsAtStage'
      <4> SUFFICES ASSUME NEW w \in MicroVms
                   PROVE  CidsAtStage!(w)'
        BY DEF CidsAtStage
      <4>1. CASE w = v
        BY <2>1, <2>2, <3>2, <3>3, <4>1 DEF OnlyMoves, Over, Unadopted, Unprobed
      <4>2. CASE w # v BY <2>1, <3>3, <4>2 DEF CidInv, CidsAtStage, OnlyMoves
      <4> QED BY <4>1, <4>2
    <3>6. HeldCidIsReserved'
      <4> SUFFICES ASSUME NEW w \in MicroVms
                   PROVE  {micro'[w].cid, micro'[w].baked} \ {0} \subseteq cids'
        BY DEF HeldCidIsReserved
      <4>1. CASE w = v BY <3>1, <3>3, <4>1 DEF CidInv, HeldCidIsReserved
      <4>2. CASE w # v BY <3>1, <3>3, <4>2 DEF CidInv, HeldCidIsReserved
      <4> QED BY <4>1, <4>2
    <3>7. CidsAreOwn'
      <4> SUFFICES ASSUME NEW a \in MicroVms, NEW b \in MicroVms
                   PROVE  CidsAreOwn!(a, b)'
        BY DEF CidsAreOwn
      <4>1. CASE a # v /\ b # v BY <3>3, <4>1 DEF CidInv, CidsAreOwn
      <4>2. CASE a = v BY <3>3, <3>4, <4>2 DEF CidInv, CidsAreOwn
      <4>3. CASE b = v /\ a # v BY <3>3, <3>4, <4>3 DEF CidInv, CidsAreOwn
      <4> QED BY <4>1, <4>2, <4>3
    <3>8. CidHasGuard'
      <4> SUFFICES ASSUME NEW d \in cids'
                   PROVE  \E w \in MicroVms : d \in {micro'[w].cid, micro'[w].baked}
        BY DEF CidHasGuard
      <4>1. CASE d = c BY <3>3, <4>1
      <4>2. CASE d # c
        <5>1. d \in cids /\ d # 0 BY <1>q, <3>1, <4>2 DEF MicroTypes, PoolShape
        <5>2. PICK w \in MicroVms : d \in {micro[w].cid, micro[w].baked}
          BY <5>1 DEF CidInv, CidHasGuard
        <5> QED BY <2>2, <3>3, <5>1, <5>2
      <4> QED BY <4>1, <4>2
    <3>9. NothingFreeBelowHint' BY <2>0, <3>1 DEF CidInv, NothingFreeBelowHint
    <3> QED BY <3>5, <3>6, <3>7, <3>8, <3>9 DEF CidInv
  <2> QED BY <1>9, <2>3, <2>4 DEF CidAdopted, AdoptBakedCid
<1>10. CASE Resumed(v)
  <2> USE DEF Resumed, host
  <2>1. PICK to \in {"running"} : Enter(v, to) BY <1>10
  <2>2. to \in MicroStages /\ OnlyMoves(v, to) BY <1>c, <2>1, EnterMoves
  <2>3. SameCids BY <1>0, <1>10 DEF SameCids
  <2>4. \A w \in MicroVms : w # v =>
          micro'[w].answers = micro[w].answers /\ micro'[w].bakedCid = micro[w].bakedCid
    BY <1>0, <1>10 DEF MicroRecord
  <2>5. /\ to \in CidEarly => microStage[v] \in CidEarly
        /\ to \in Unbaked => microStage[v] \in Unbaked
        /\ to \in CidReady => microStage[v] \in CidReady
    BY <1>10, <2>1 DEF CidEarly, Unbaked, CidReady, Over, Unadopted, Unprobed, Starting
  <2>6. to \in Bound => micro'[v].answers \in Cids BY <1>10 DEF CidInv, CidsAtStage
  <2>7. to = "probed" => micro'[v].bakedCid \in Cids BY <2>1
  <2>8. UNCHANGED <<cids, nextFree>> BY <1>10
  <2> QED BY <2>2, <2>3, <2>4, <2>5, <2>6, <2>7, <2>8, CidFrame
<1>11. CASE FailStart(v)
  <2> USE DEF FailStart, host
  <2>1. PICK to \in {"stop"} : Enter(v, to) BY <1>11
  <2>2. to \in MicroStages /\ OnlyMoves(v, to) BY <1>c, <2>1, EnterMoves
  <2>3. SameCids BY <1>0, <1>11 DEF SameCids
  <2>4. \A w \in MicroVms : w # v =>
          micro'[w].answers = micro[w].answers /\ micro'[w].bakedCid = micro[w].bakedCid
    BY <1>0, <1>11 DEF MicroRecord
  <2>5. /\ to \in CidEarly => microStage[v] \in CidEarly
        /\ to \in Unbaked => microStage[v] \in Unbaked
        /\ to \in CidReady => microStage[v] \in CidReady
    BY <1>11, <2>1 DEF CidEarly, Unbaked, CidReady, Over, Unadopted, Unprobed, Starting
  <2>6. to \in Bound => micro'[v].answers \in Cids BY <2>1 DEF Bound
  <2>7. to = "probed" => micro'[v].bakedCid \in Cids BY <2>1
  <2>8. UNCHANGED <<cids, nextFree>> BY <1>11
  <2> QED BY <2>2, <2>3, <2>4, <2>5, <2>6, <2>7, <2>8, CidFrame
<1>12. CASE SnapshotVm(v)
  <2>1. UNCHANGED <<microStage, micro, cids, nextFree>> BY <1>12 DEF SnapshotVm, host
  <2> QED BY <2>1 DEF CidInv, CidsAtStage, HeldCidIsReserved, CidsAreOwn, CidHasGuard,
                      NothingFreeBelowHint
<1>13. CASE ShutdownVm(v)
  <2> USE DEF ShutdownVm, host
  <2>1. PICK to \in {"stop"} : Enter(v, to) BY <1>13
  <2>2. to \in MicroStages /\ OnlyMoves(v, to) BY <1>c, <2>1, EnterMoves
  <2>3. SameCids BY <1>0, <1>13 DEF SameCids
  <2>4. \A w \in MicroVms : w # v =>
          micro'[w].answers = micro[w].answers /\ micro'[w].bakedCid = micro[w].bakedCid
    BY <1>0, <1>13 DEF MicroRecord
  <2>5. /\ to \in CidEarly => microStage[v] \in CidEarly
        /\ to \in Unbaked => microStage[v] \in Unbaked
        /\ to \in CidReady => microStage[v] \in CidReady
    BY <1>13, <2>1 DEF CidEarly, Unbaked, CidReady, Over, Unadopted, Unprobed, Starting
  <2>6. to \in Bound => micro'[v].answers \in Cids BY <2>1 DEF Bound
  <2>7. to = "probed" => micro'[v].bakedCid \in Cids BY <2>1
  <2>8. UNCHANGED <<cids, nextFree>> BY <1>13
  <2> QED BY <2>2, <2>3, <2>4, <2>5, <2>6, <2>7, <2>8, CidFrame
<1>14. CASE DropVm(v)
  <2> USE DEF DropVm
  <2>1. PICK to \in {"cid"} : Enter(v, to) BY <1>14
  <2>2. to \in MicroStages /\ OnlyMoves(v, to) BY <1>c, <2>1, EnterMoves
  <2>3. SameCids BY <1>0, <1>14 DEF SameCids
  <2>4. \A w \in MicroVms : w # v =>
          micro'[w].answers = micro[w].answers /\ micro'[w].bakedCid = micro[w].bakedCid
    BY <1>0, <1>14 DEF MicroRecord
  <2>5. /\ to \in CidEarly => microStage[v] \in CidEarly
        /\ to \in Unbaked => microStage[v] \in Unbaked
        /\ to \in CidReady => microStage[v] \in CidReady
    BY <1>14, <2>1 DEF CidEarly, Unbaked, CidReady, Over, Unadopted, Unprobed, Starting
  <2>6. to \in Bound => micro'[v].answers \in Cids BY <2>1 DEF Bound
  <2>7. to = "probed" => micro'[v].bakedCid \in Cids BY <2>1
  <2>8. UNCHANGED <<cids, nextFree>> BY <1>14
  <2> QED BY <2>2, <2>3, <2>4, <2>5, <2>6, <2>7, <2>8, CidFrame
<1>15. CASE DropCid(v)
  <2> DEFINE gone == {micro[v].baked, micro[v].cid} \ {0}
  <2>0. microStage[v] = "cid" BY <1>15 DEF DropCid
  <2>1. PICK c \in gone \cup {0} :
          /\ c = 0 <=> gone = {}
          /\ micro[v].baked # 0 => c = micro[v].baked
          /\ IF c = 0 THEN Enter(v, "rmdir") /\ UNCHANGED <<micro, cids, nextFree>>
             ELSE /\ cids' = cids \ {c} /\ nextFree' = HintAfter(c)
                  /\ micro' = [micro EXCEPT ![v].baked = 0, ![v].cid = IF @ = c THEN 0 ELSE @]
                  /\ UNCHANGED microStage
    BY <1>15 DEF DropCid
  <2>2. CASE c = 0
    <3>1. OnlyMoves(v, "rmdir") /\ UNCHANGED <<micro, cids, nextFree>>
      BY <1>c, <2>1, <2>2, EnterMoves
    <3>2. micro[v].cid = 0 /\ micro[v].baked = 0 BY <2>1, <2>2
    <3>3. CidsAtStage'
      <4> SUFFICES ASSUME NEW w \in MicroVms
                   PROVE  CidsAtStage!(w)'
        BY DEF CidsAtStage
      <4>1. CASE w = v BY <3>1, <3>2, <4>1 DEF OnlyMoves, Starting
      <4>2. CASE w # v BY <3>1, <4>2 DEF CidInv, CidsAtStage, OnlyMoves
      <4> QED BY <4>1, <4>2
    <3> QED BY <3>1, <3>3
            DEF CidInv, HeldCidIsReserved, CidsAreOwn, CidHasGuard, NothingFreeBelowHint
  <2>3. CASE c # 0
    <3>1. /\ cids' = cids \ {c} /\ nextFree' = HintAfter(c) /\ UNCHANGED microStage
          /\ micro' = [micro EXCEPT ![v].baked = 0, ![v].cid = IF @ = c THEN 0 ELSE @]
      BY <2>1, <2>3
    <3>2. /\ c \in {micro[v].baked, micro[v].cid} /\ (micro[v].baked # 0 => c = micro[v].baked)
          /\ c \in Cids
      BY <1>p, <2>1, <2>3
    <3> HIDE DEF gone
    <3>3. /\ micro'[v].baked = 0
          /\ micro'[v].cid = IF micro[v].cid = c THEN 0 ELSE micro[v].cid
          /\ \A w \in MicroVms : w # v => micro'[w] = micro[w]
      BY <1>0, <3>1 DEF MicroRecord
    <3>4. CidsAtStage'
      <4> SUFFICES ASSUME NEW w \in MicroVms
                   PROVE  CidsAtStage!(w)'
        BY DEF CidsAtStage
      <4>1. CASE w = v BY <2>0, <3>1, <4>1 DEF Over, Unadopted, Unprobed, Starting
      <4>2. CASE w # v BY <3>1, <3>3, <4>2 DEF CidInv, CidsAtStage
      <4> QED BY <4>1, <4>2
    <3>5. HeldCidIsReserved'
      <4> SUFFICES ASSUME NEW w \in MicroVms, NEW d \in {micro'[w].cid, micro'[w].baked}, d # 0
                   PROVE  d \in cids'
        BY DEF HeldCidIsReserved
      <4>1. CASE w = v
        <5>1. d = micro[v].cid /\ d # c BY <3>3, <4>1
        <5> QED BY <3>1, <5>1 DEF CidInv, HeldCidIsReserved
      <4>2. CASE w # v
        <5>1. d \in {micro[w].cid, micro[w].baked} /\ d \in cids
          BY <3>3, <4>2 DEF CidInv, HeldCidIsReserved
        <5>2. d # c BY <3>2, <4>2, <5>1 DEF CidInv, CidsAreOwn
        <5> QED BY <3>1, <5>1, <5>2
      <4> QED BY <4>1, <4>2
    <3>6. CidsAreOwn'
      <4> SUFFICES ASSUME NEW a \in MicroVms, NEW b \in MicroVms
                   PROVE  CidsAreOwn!(a, b)'
        BY DEF CidsAreOwn
      <4>1. \A w \in MicroVms : /\ micro'[w].cid \in {micro[w].cid, 0}
                                /\ micro'[w].baked \in {micro[w].baked, 0}
        BY <3>3
      <4>2. CidsAreOwn!(a, b) BY DEF CidInv, CidsAreOwn
      <4> QED BY <4>1, <4>2
    <3>7. CidHasGuard'
      <4> SUFFICES ASSUME NEW d \in cids'
                   PROVE  \E w \in MicroVms : d \in {micro'[w].cid, micro'[w].baked}
        BY DEF CidHasGuard
      <4>1. d \in cids /\ d # c /\ d # 0 BY <1>q, <3>1 DEF MicroTypes, PoolShape
      <4>2. PICK w \in MicroVms : d \in {micro[w].cid, micro[w].baked}
        BY <4>1 DEF CidInv, CidHasGuard
      <4>3. CASE w = v
        <5>1. d = micro[v].cid BY <3>2, <4>1, <4>2, <4>3
        <5> QED BY <3>3, <4>1, <5>1
      <4>4. CASE w # v BY <3>3, <4>2, <4>4
      <4> QED BY <4>3, <4>4
    <3>8. NothingFreeBelowHint'
      <4> SUFFICES ASSUME NEW d \in MinCid .. (HintAfter(c) - 1)
                   PROVE  d \in cids /\ d # c
        BY <3>1 DEF NothingFreeBelowHint
      <4>1. nextFree \in Nat /\ c \in Nat BY <3>2 DEF Cids, MicroTypes, PoolShape
      <4>2. d \in Nat /\ d < nextFree /\ d < c /\ MinCid <= d BY <4>1 DEF HintAfter
      <4>3. d \in MinCid .. (nextFree - 1) BY <4>1, <4>2
      <4> QED BY <4>1, <4>2, <4>3 DEF CidInv, NothingFreeBelowHint
    <3> QED BY <3>4, <3>5, <3>6, <3>7, <3>8 DEF CidInv
  <2> QED BY <2>2, <2>3
<1>16. CASE RemoveHome(v)
  <2> USE DEF RemoveHome
  <2>1. PICK to \in {"release"} : Enter(v, to) BY <1>16
  <2>2. to \in MicroStages /\ OnlyMoves(v, to) BY <1>c, <2>1, EnterMoves
  <2>3. SameCids BY <1>0, <1>16 DEF SameCids
  <2>4. \A w \in MicroVms : w # v =>
          micro'[w].answers = micro[w].answers /\ micro'[w].bakedCid = micro[w].bakedCid
    BY <1>0, <1>16 DEF MicroRecord
  <2>5. /\ to \in CidEarly => microStage[v] \in CidEarly
        /\ to \in Unbaked => microStage[v] \in Unbaked
        /\ to \in CidReady => microStage[v] \in CidReady
    BY <1>16, <2>1 DEF CidEarly, Unbaked, CidReady, Over, Unadopted, Unprobed, Starting
  <2>6. to \in Bound => micro'[v].answers \in Cids BY <2>1 DEF Bound
  <2>7. to = "probed" => micro'[v].bakedCid \in Cids BY <2>1
  <2>8. UNCHANGED <<cids, nextFree>> BY <1>16
  <2> QED BY <2>2, <2>3, <2>4, <2>5, <2>6, <2>7, <2>8, CidFrame
<1>17. CASE DropVmid(v)
  <2>1. OnlyMoves(v, "done") BY <1>17, <1>c, EnterMoves DEF DropVmid
  <2>2. /\ microStage[v] = "release" /\ UNCHANGED <<cids, nextFree>>
        /\ micro'[v] = Blank /\ \A w \in MicroVms : w # v => micro'[w] = micro[w]
    BY <1>0, <1>17 DEF DropVmid
  <2>3. micro[v].cid = 0 /\ micro[v].baked = 0 BY <2>2 DEF CidInv, CidsAtStage
  <2>4. SameCids
    <3>1. micro'[v].cid = 0 /\ micro'[v].baked = 0 BY <2>2, BlankFields
    <3> QED BY <2>2, <2>3, <3>1 DEF SameCids
  <2>5. /\ "done" \in MicroStages /\ "done" \notin CidReady \cup Bound
        /\ microStage[v] \in CidEarly \cap Unbaked
    BY <1>c, <2>2 DEF CidReady, Bound, CidEarly, Unbaked, Starting
  <2> QED BY <2>1, <2>2, <2>4, <2>5, CidFrame
<1> QED
  BY <1>1, <1>2, <1>3, <1>4, <1>5, <1>6, <1>7, <1>8, <1>9, <1>10, <1>11, <1>12, <1>13, <1>14,
     <1>15, <1>16, <1>17 DEF VmStep

-----------------------------------------------------------------------------
(* Homes *)

\* Whoever enters a directory meets the VM that is there or on its way, and marks it; so
\* what a VM unlinks or removes is not the home of one that was not raced.
LEMMA HomeStep ==
  ASSUME MicroTypes, IdInv, HomeInv, NEW v \in MicroVms, VmStep(v)
  PROVE  HomeInv'
<1> USE MicroVmConstants
<1>0. /\ micro \in [MicroVms -> MicroRecord] /\ micro[v] \in MicroRecord
      /\ microStage \in [MicroVms -> MicroStages]
  BY DEF MicroTypes, MicroShape
<1>c. /\ {"new", "done", "running"} \subseteq MicroStages
      /\ {"claimed", "dir", "env", "verify", "probed", "loaded", "lineage", "resume"}
           \subseteq MicroStages
      /\ {"stop", "cid", "rmdir", "release"} \subseteq MicroStages
  BY DEF MicroStages, Starting, Stopping
<1>1. CASE ClaimVmid(v)
  <2>1. PICK restore \in BOOLEAN, i \in VmIds \ claimed, met \in SUBSET MicroVms :
          ClaimedAs(v, restore, i, met)
    BY <1>1, ClaimEffect
  <2>2. /\ micro'[v].id = i /\ micro'[v].home = i /\ ~micro'[v].up
        /\ micro'[v].raced <=> met # {}
    BY <2>1 DEF ClaimedAs
  <2>3. \A w \in MicroVms : w # v =>
          /\ micro'[w].id = micro[w].id /\ micro'[w].home = micro[w].home
          /\ micro'[w].up = micro[w].up
          /\ micro'[w].raced = (micro[w].raced \/ w \in met)
    BY <2>1 DEF ClaimedAs, Marked
  <2>4. OnlyMoves(v, "claimed") BY <1>1, <1>c, EnterMoves DEF ClaimVmid
  <2>5. /\ UNCHANGED <<sock, dirs>> /\ microStage[v] = "new"
    BY <1>1 DEF ClaimVmid
  <2>6. \A w \in MicroVms : micro[w].id # i /\ micro[w].lineage # i
    BY i # 0 DEF IdInv, IdsAreOut
  <2>7. \A w \in MicroVms : micro[w].home = i => w \in met BY <2>1, <2>6 DEF ClaimedAs
  <2>8. MetIsRaced'
    <3> SUFFICES ASSUME NEW a \in MicroVms, NEW b \in MicroVms, a # b, micro'[a].home # 0,
                        micro'[a].home \in {micro'[b].id, micro'[b].home}
                 PROVE  micro'[a].raced
      BY DEF MetIsRaced
    <3>1. CASE a = v BY <2>2, <2>3, <2>6, <2>7, <3>1
    <3>2. CASE b = v BY <2>2, <2>3, <2>7, <3>2
    <3>3. CASE a # v /\ b # v BY <2>3, <3>3 DEF HomeInv, MetIsRaced
    <3> QED BY <3>1, <3>2, <3>3
  <2>9. HomeIsBound'
    <3> SUFFICES ASSUME NEW w \in MicroVms, microStage'[w] \in Bound, ~micro'[w].raced
                 PROVE  micro'[w].home \in dirs' /\ sock'[micro'[w].home] = w
      BY DEF HomeIsBound
    <3>1. w # v /\ microStage[w] \in Bound BY <2>4 DEF OnlyMoves, Bound
    <3> QED BY <2>3, <2>5, <3>1 DEF HomeInv, HomeIsBound
  <2>10. SocketHasVmm'
    <3>1. ~micro[v].up BY <2>5 DEF HomeInv, UpAtStage, Down, Over
    <3> QED BY <2>3, <2>5, <3>1 DEF HomeInv, SocketHasVmm
  <2>11. UpAtStage' BY <2>2, <2>3, <2>4 DEF HomeInv, UpAtStage, OnlyMoves
  <2> QED BY <2>8, <2>9, <2>10, <2>11 DEF HomeInv
<1>2. CASE MakeDir(v)
  <2> USE DEF MakeDir
  <2>1. PICK to \in {"dir"} : Enter(v, to) BY <1>2
  <2>2. to \in MicroStages /\ OnlyMoves(v, to) BY <1>c, <2>1, EnterMoves
  <2>3. SameHomes /\ \A w \in MicroVms : micro'[w].up = micro[w].up
    BY <1>0, <1>2 DEF SameHomes, MicroRecord
  <2>4. (to \in Bound => microStage[v] \in Bound) /\ (to \in Down => microStage[v] \in Down)
    BY <1>2, <2>1 DEF Bound, Down, Over
  <2>5. UNCHANGED sock /\ dirs \subseteq dirs' BY <1>2
  <2> QED BY <2>2, <2>3, <2>4, <2>5, HomeFrame
<1>3. CASE AllocateCid(v)
  <2> USE DEF AllocateCid
  <2>1. PICK to \in {"env", "stop"} : Enter(v, to) BY <1>3
  <2>2. to \in MicroStages /\ OnlyMoves(v, to) BY <1>c, <2>1, EnterMoves
  <2>3. SameHomes /\ \A w \in MicroVms : micro'[w].up = micro[w].up
    BY <1>0, <1>3 DEF SameHomes, MicroRecord
  <2>4. (to \in Bound => microStage[v] \in Bound) /\ (to \in Down => microStage[v] \in Down)
    BY <1>3, <2>1 DEF Bound, Down, Over
  <2>5. UNCHANGED sock /\ dirs \subseteq dirs' BY <1>3
  <2> QED BY <2>2, <2>3, <2>4, <2>5, HomeFrame
<1>4. CASE CreateVm(v)
  <2>1. microStage[v] = "env" /\ UNCHANGED dirs BY <1>4 DEF CreateVm
  <2>2. micro[v].home = micro[v].id /\ micro[v].home \in VmIds
    BY <2>1 DEF IdInv, IdsAtStage, Over, Unprobed
  <2>3. /\ SameHomes /\ micro'[v].up = TRUE
        /\ \A w \in MicroVms : w # v => micro'[w].up = micro[w].up
    BY <1>0, <1>4 DEF CreateVm, SameHomes, MicroRecord
  <2>4. CASE micro[v].home \in dirs /\ sock[micro[v].home] = Nobody
    <3>1. sock' = [sock EXCEPT ![micro[v].home] = v] /\ OnlyMoves(v, "verify")
      BY <1>4, <1>c, <2>2, <2>4, EnterMoves DEF CreateVm
    <3> QED BY <2>1, <2>2, <2>3, <2>4, <3>1, BindKeepsHomes
  <2>5. CASE ~(micro[v].home \in dirs /\ sock[micro[v].home] = Nobody)
    <3>1. UNCHANGED sock /\ OnlyMoves(v, "stop")
      BY <1>4, <1>c, <2>2, <2>5, EnterMoves DEF CreateVm
    <3> QED BY <2>1, <2>2, <2>3, <2>5, <3>1, BindKeepsHomes
  <2> QED BY <2>4, <2>5
<1>5. CASE VerifiedHome(v)
  <2>0. microStage[v] = "verify" /\ UNCHANGED dirs BY <1>5 DEF VerifiedHome
  <2>1. CASE Enter(v, "running") /\ UNCHANGED <<micro, sock>>
    <3>1. OnlyMoves(v, "running") BY <1>c, <2>1, EnterMoves
    <3>2. SameHomes /\ \A w \in MicroVms : micro'[w].up = micro[w].up
      BY <2>1 DEF SameHomes
    <3>3. "running" \in MicroStages /\ microStage[v] \in Bound /\ "running" \notin Down
      BY <1>c, <2>0 DEF Bound, Down, Over
    <3> QED BY <2>0, <2>1, <3>1, <3>2, <3>3, HomeFrame
  <2>2. CASE /\ sock' = Unlinked(v) /\ Enter(v, "env")
             /\ micro' = [micro EXCEPT ![v].up = FALSE, ![v].respawns = @ + 1]
    <3>1. OnlyMoves(v, "env") BY <1>c, <2>2, EnterMoves
    <3>2. /\ SameHomes /\ micro'[v].up = FALSE
          /\ \A w \in MicroVms : w # v => micro'[w].up = micro[w].up
      BY <1>0, <2>2 DEF SameHomes, MicroRecord
    <3>3. "env" \in MicroStages \ Bound BY <1>c DEF Bound
    <3>4. micro[v].home \in VmIds BY <2>0 DEF IdInv, IdsAtStage, Over
    <3>5. sock' = [sock EXCEPT ![micro[v].home] = Nobody] BY <2>2 DEF Unlinked
    <3> QED BY <2>0, <3>1, <3>2, <3>3, <3>4, <3>5, UnlinkKeepsHomes
  <2> QED BY <1>5, <2>1, <2>2 DEF VerifiedHome
<1>6. CASE Probe(v)
  <2>0. microStage[v] = "env" BY <1>6 DEF Probe
  <2>1. CASE Enter(v, "stop") /\ UNCHANGED <<sock, dirs, micro>>
    <3>1. OnlyMoves(v, "stop") BY <1>c, <2>1, EnterMoves
    <3>2. SameHomes /\ \A w \in MicroVms : micro'[w].up = micro[w].up
      BY <2>1 DEF SameHomes
    <3>3. "stop" \in MicroStages /\ "stop" \notin Bound \cup Down
      BY <1>c DEF Bound, Down, Over
    <3> QED BY <2>1, <3>1, <3>2, <3>3, HomeFrame
  <2>2. CASE ProbePermits(image.home)
    <3> DEFINE i == image.home
    <3>1. PICK met \in SUBSET MicroVms : ProbedWith(v, met) BY <1>6, <2>2, ProbeEffect
    <3>2. /\ micro'[v].id = micro[v].id /\ micro'[v].home = i /\ micro'[v].up = micro[v].up
          /\ (micro[v].raced \/ met # {} => micro'[v].raced)
      BY <3>1 DEF ProbedWith
    <3>3. \A w \in MicroVms : w # v =>
            /\ micro'[w].id = micro[w].id /\ micro'[w].home = micro[w].home
            /\ micro'[w].up = micro[w].up
            /\ micro'[w].raced = (micro[w].raced \/ w \in met)
      BY <3>1 DEF ProbedWith, Marked
    <3>4. OnlyMoves(v, "probed") BY <1>6, <1>c, <2>2, EnterMoves DEF Probe
    <3>5. dirs \subseteq dirs' /\ sock' = [sock EXCEPT ![i] = Nobody] /\ sock[i] = Nobody
      BY <1>6, <2>2 DEF Probe, ProbePermits
    <3>6. \A j \in VmIds : sock'[j] = sock[j] BY <3>5 DEF MicroTypes, HostShape
    <3>7. \A w \in MicroVms : w # v /\ (micro[w].id = i \/ micro[w].home = i) => w \in met
      BY <3>1 DEF ProbedWith
    <3> HIDE DEF i
    <3>8. MetIsRaced'
      <4> SUFFICES ASSUME NEW a \in MicroVms, NEW b \in MicroVms, a # b, micro'[a].home # 0,
                          micro'[a].home \in {micro'[b].id, micro'[b].home}
                   PROVE  micro'[a].raced
        BY DEF MetIsRaced
      <4>1. CASE a = v BY <3>2, <3>3, <3>7, <4>1
      <4>2. CASE b = v
        <5>1. CASE micro[a].home = i BY <3>2, <3>3, <3>7, <4>2, <5>1
        <5>2. CASE micro[a].home # i
          <6>1. micro[a].home = micro[v].id BY <3>2, <3>3, <4>2, <5>2
          <6> QED BY <3>3, <4>2, <6>1 DEF HomeInv, MetIsRaced
        <5> QED BY <5>1, <5>2
      <4>3. CASE a # v /\ b # v BY <3>3, <4>3 DEF HomeInv, MetIsRaced
      <4> QED BY <4>1, <4>2, <4>3
    <3>9. HomeIsBound'
      <4> SUFFICES ASSUME NEW w \in MicroVms, microStage'[w] \in Bound, ~micro'[w].raced
                   PROVE  micro'[w].home \in dirs' /\ sock'[micro'[w].home] = w
        BY DEF HomeIsBound
      <4>1. w # v /\ microStage[w] \in Bound BY <3>4 DEF OnlyMoves, Bound
      <4>2. micro'[w].home = micro[w].home /\ ~micro[w].raced BY <3>3, <4>1
      <4>3. micro[w].home \in dirs /\ sock[micro[w].home] = w
        BY <4>1, <4>2 DEF HomeInv, HomeIsBound
      <4>4. micro[w].home \in VmIds BY <4>3 DEF MicroTypes, HostShape
      <4> QED BY <3>5, <3>6, <4>2, <4>3, <4>4
    <3>10. SocketHasVmm'
      <4> SUFFICES ASSUME NEW j \in VmIds, sock'[j] \in MicroVms
                   PROVE  micro'[sock'[j]].up /\ micro'[sock'[j]].home = j
        BY DEF SocketHasVmm
      <4>1. micro[sock[j]].up /\ micro[sock[j]].home = j /\ sock'[j] = sock[j]
        BY <3>6 DEF HomeInv, SocketHasVmm
      <4>2. ~micro[v].up BY <2>0 DEF HomeInv, UpAtStage, Down
      <4> QED BY <3>3, <4>1, <4>2
    <3>11. UpAtStage'
      <4>1. ~micro[v].up BY <2>0 DEF HomeInv, UpAtStage, Down
      <4> QED BY <3>2, <3>3, <3>4, <4>1 DEF HomeInv, UpAtStage, OnlyMoves
    <3> QED BY <3>8, <3>9, <3>10, <3>11 DEF HomeInv
  <2> QED BY <1>6, <2>1, <2>2 DEF Probe
<1>7. CASE Load(v)
  <2>1. microStage[v] \in {"probed", "env"} /\ UNCHANGED dirs BY <1>7 DEF Load
  <2>2. micro[v].home \in VmIds BY <2>1 DEF IdInv, IdsAtStage, Over
  <2>3. /\ SameHomes /\ micro'[v].up = TRUE
        /\ \A w \in MicroVms : w # v => micro'[w].up = micro[w].up
    BY <1>0, <1>7 DEF Load, SameHomes, MicroRecord
  <2>4. CASE micro[v].home \in dirs /\ sock[micro[v].home] = Nobody
    <3>1. sock' = [sock EXCEPT ![micro[v].home] = v] /\ OnlyMoves(v, "loaded")
      BY <1>7, <1>c, <2>4, EnterMoves DEF Load
    <3> QED BY <2>1, <2>2, <2>3, <2>4, <3>1, BindKeepsHomes
  <2>5. CASE ~(micro[v].home \in dirs /\ sock[micro[v].home] = Nobody)
    <3>1. UNCHANGED sock /\ OnlyMoves(v, "stop")
      BY <1>7, <1>c, <2>5, EnterMoves DEF Load
    <3> QED BY <2>1, <2>2, <2>3, <2>5, <3>1, BindKeepsHomes
  <2> QED BY <2>4, <2>5
<1>8. CASE LineageAdopted(v)
  <2> USE DEF LineageAdopted
  <2>1. PICK to \in {"lineage"} : Enter(v, to) BY <1>8
  <2>2. to \in MicroStages /\ OnlyMoves(v, to) BY <1>c, <2>1, EnterMoves
  <2>3. SameHomes /\ \A w \in MicroVms : micro'[w].up = micro[w].up
    BY <1>0, <1>8 DEF SameHomes, MicroRecord, AdoptLineage
  <2>4. (to \in Bound => microStage[v] \in Bound) /\ (to \in Down => microStage[v] \in Down)
    BY <1>8, <2>1 DEF Bound, Down, Over
  <2>5. UNCHANGED sock /\ dirs \subseteq dirs' BY <1>8
  <2> QED BY <2>2, <2>3, <2>4, <2>5, HomeFrame
<1>9. CASE CidAdopted(v)
  <2> USE DEF CidAdopted
  <2>1. PICK to \in {"resume"} : Enter(v, to) BY <1>9
  <2>2. to \in MicroStages /\ OnlyMoves(v, to) BY <1>c, <2>1, EnterMoves
  <2>3. SameHomes /\ \A w \in MicroVms : micro'[w].up = micro[w].up
    BY <1>0, <1>9 DEF SameHomes, MicroRecord, AdoptBakedCid
  <2>4. (to \in Bound => microStage[v] \in Bound) /\ (to \in Down => microStage[v] \in Down)
    BY <1>9, <2>1 DEF Bound, Down, Over
  <2>5. UNCHANGED sock /\ dirs \subseteq dirs' BY <1>9
  <2> QED BY <2>2, <2>3, <2>4, <2>5, HomeFrame
<1>10. CASE Resumed(v)
  <2> USE DEF Resumed, host
  <2>1. PICK to \in {"running"} : Enter(v, to) BY <1>10
  <2>2. to \in MicroStages /\ OnlyMoves(v, to) BY <1>c, <2>1, EnterMoves
  <2>3. SameHomes /\ \A w \in MicroVms : micro'[w].up = micro[w].up
    BY <1>0, <1>10 DEF SameHomes, MicroRecord
  <2>4. (to \in Bound => microStage[v] \in Bound) /\ (to \in Down => microStage[v] \in Down)
    BY <1>10, <2>1 DEF Bound, Down, Over
  <2>5. UNCHANGED sock /\ dirs \subseteq dirs' BY <1>10
  <2> QED BY <2>2, <2>3, <2>4, <2>5, HomeFrame
<1>11. CASE FailStart(v)
  <2> USE DEF FailStart, host
  <2>1. PICK to \in {"stop"} : Enter(v, to) BY <1>11
  <2>2. to \in MicroStages /\ OnlyMoves(v, to) BY <1>c, <2>1, EnterMoves
  <2>3. SameHomes /\ \A w \in MicroVms : micro'[w].up = micro[w].up
    BY <1>0, <1>11 DEF SameHomes, MicroRecord
  <2>4. (to \in Bound => microStage[v] \in Bound) /\ (to \in Down => microStage[v] \in Down)
    BY <1>11, <2>1 DEF Bound, Down, Over
  <2>5. UNCHANGED sock /\ dirs \subseteq dirs' BY <1>11
  <2> QED BY <2>2, <2>3, <2>4, <2>5, HomeFrame
<1>12. CASE SnapshotVm(v)
  <2>1. UNCHANGED <<microStage, micro, dirs, sock>> BY <1>12 DEF SnapshotVm, host
  <2> QED BY <2>1 DEF HomeInv, MetIsRaced, HomeIsBound, SocketHasVmm, UpAtStage
<1>13. CASE ShutdownVm(v)
  <2> USE DEF ShutdownVm, host
  <2>1. PICK to \in {"stop"} : Enter(v, to) BY <1>13
  <2>2. to \in MicroStages /\ OnlyMoves(v, to) BY <1>c, <2>1, EnterMoves
  <2>3. SameHomes /\ \A w \in MicroVms : micro'[w].up = micro[w].up
    BY <1>0, <1>13 DEF SameHomes, MicroRecord
  <2>4. (to \in Bound => microStage[v] \in Bound) /\ (to \in Down => microStage[v] \in Down)
    BY <1>13, <2>1 DEF Bound, Down, Over
  <2>5. UNCHANGED sock /\ dirs \subseteq dirs' BY <1>13
  <2> QED BY <2>2, <2>3, <2>4, <2>5, HomeFrame
<1>14. CASE DropVm(v)
  <2>0. microStage[v] = "stop" BY <1>14 DEF DropVm
  <2>1. OnlyMoves(v, "cid") BY <1>14, <1>c, EnterMoves DEF DropVm
  <2>2. /\ SameHomes /\ micro'[v].up = FALSE
        /\ \A w \in MicroVms : w # v => micro'[w].up = micro[w].up
    BY <1>0, <1>14 DEF DropVm, SameHomes, MicroRecord
  <2>3. "cid" \in MicroStages \ Bound BY <1>c DEF Bound
  <2>4. CASE micro[v].up
    <3>1. micro[v].home \in VmIds BY <2>0 DEF IdInv, IdsAtStage, Over
    <3>2. sock' = [sock EXCEPT ![micro[v].home] = Nobody] /\ dirs \ {micro[v].home} \subseteq dirs'
      BY <1>14, <2>4 DEF DropVm, Unlinked, Emptied
    <3> QED BY <2>1, <2>2, <2>3, <3>1, <3>2, UnlinkKeepsHomes
  <2>5. CASE ~micro[v].up
    <3>1. UNCHANGED <<sock, dirs>> BY <1>14, <2>5 DEF DropVm
    <3>2. MetIsRaced' BY <2>2 DEF HomeInv, MetIsRaced, SameHomes
    <3>3. HomeIsBound'
      <4> SUFFICES ASSUME NEW w \in MicroVms, microStage'[w] \in Bound, ~micro'[w].raced
                   PROVE  micro'[w].home \in dirs' /\ sock'[micro'[w].home] = w
        BY DEF HomeIsBound
      <4>1. w # v /\ microStage[w] \in Bound BY <2>1, <2>3 DEF OnlyMoves
      <4>2. ~micro[w].raced /\ micro'[w].home = micro[w].home BY <2>2 DEF SameHomes
      <4> QED BY <3>1, <4>1, <4>2 DEF HomeInv, HomeIsBound
    <3>4. SocketHasVmm' BY <2>2, <2>5, <3>1 DEF HomeInv, SocketHasVmm, SameHomes
    <3>5. UpAtStage' BY <2>1, <2>2 DEF HomeInv, UpAtStage, OnlyMoves
    <3> QED BY <3>2, <3>3, <3>4, <3>5 DEF HomeInv
  <2> QED BY <2>4, <2>5
<1>15. CASE DropCid(v)
  <2>1. UNCHANGED <<dirs, sock>> /\ microStage[v] = "cid" BY <1>15 DEF DropCid
  <2>2. Enter(v, "rmdir") \/ UNCHANGED microStage BY <1>15 DEF DropCid
  <2>3. PICK to \in {"cid", "rmdir"} : OnlyMoves(v, to)
    <3>1. UNCHANGED microStage => OnlyMoves(v, "cid") BY <1>0, <2>1 DEF OnlyMoves
    <3> QED BY <1>c, <2>2, <3>1, EnterMoves
  <2>4. SameHomes /\ \A w \in MicroVms : micro'[w].up = micro[w].up
    BY <1>0, <1>15 DEF DropCid, SameHomes, MicroRecord
  <2>5. to \in MicroStages /\ to \notin Bound /\ microStage[v] \in Down
    BY <1>c, <2>1 DEF Bound, Down
  <2> QED BY <2>1, <2>3, <2>4, <2>5, HomeFrame
<1>16. CASE RemoveHome(v)
  <2>1. OnlyMoves(v, "release") BY <1>16, <1>c, EnterMoves DEF RemoveHome
  <2>2. /\ microStage[v] = "rmdir" /\ UNCHANGED micro
        /\ sock' = [sock EXCEPT ![micro[v].id] = Nobody] /\ dirs' = dirs \ {micro[v].id}
    BY <1>16 DEF RemoveHome
  <2>3. micro[v].id \in VmIds BY <2>2 DEF IdInv, IdsAtStage, Over
  <2>4. SameHomes BY <2>2 DEF SameHomes
  <2>5. "release" \in MicroStages \ Bound BY <1>c DEF Bound
  <2>6. ~micro[v].up BY <2>2 DEF HomeInv, UpAtStage, Down
  <2>7. micro'[v].up \in BOOLEAN BY <1>0, <2>2 DEF MicroRecord
  <2> QED BY <2>1, <2>2, <2>3, <2>4, <2>5, <2>6, <2>7, UnlinkKeepsHomes
<1>17. CASE DropVmid(v)
  <2>1. OnlyMoves(v, "done") BY <1>17, <1>c, EnterMoves DEF DropVmid
  <2>2. /\ microStage[v] = "release" /\ UNCHANGED <<dirs, sock>>
        /\ micro'[v] = Blank /\ \A w \in MicroVms : w # v => micro'[w] = micro[w]
    BY <1>0, <1>17 DEF DropVmid
  <2>3. micro'[v].id = 0 /\ micro'[v].home = 0 /\ ~micro'[v].up
    BY <2>2, BlankFields
  <2>4. MetIsRaced'
    <3> SUFFICES ASSUME NEW a \in MicroVms, NEW b \in MicroVms, a # b, micro'[a].home # 0,
                        micro'[a].home \in {micro'[b].id, micro'[b].home}
                 PROVE  micro'[a].raced
      BY DEF MetIsRaced
    <3>1. a # v /\ b # v BY <2>3
    <3> QED BY <2>2, <3>1 DEF HomeInv, MetIsRaced
  <2>5. HomeIsBound' BY <2>1, <2>2 DEF HomeInv, HomeIsBound, OnlyMoves, Bound
  <2>6. SocketHasVmm'
    <3>1. ~micro[v].up BY <2>2 DEF HomeInv, UpAtStage, Down
    <3> QED BY <2>2, <3>1 DEF HomeInv, SocketHasVmm
  <2>7. UpAtStage' BY <2>1, <2>2, <2>3 DEF HomeInv, UpAtStage, OnlyMoves
  <2> QED BY <2>4, <2>5, <2>6, <2>7 DEF HomeInv
<1> QED
  BY <1>1, <1>2, <1>3, <1>4, <1>5, <1>6, <1>7, <1>8, <1>9, <1>10, <1>11, <1>12, <1>13, <1>14,
     <1>15, <1>16, <1>17 DEF VmStep

-----------------------------------------------------------------------------
(* The theorem *)

MicroInv == MicroTypes /\ IdInv /\ CidInv /\ HomeInv

\* Every step of every VM keeps all of them.
LEMMA MicroInvStep == ASSUME MicroInv, [MicroVmNext]_microVars PROVE MicroInv'
<1>1. ASSUME NEW v \in MicroVms, VmStep(v)
      PROVE  MicroInv'
  BY <1>1, MicroTypesStep, IdStep, CidStep, HomeStep DEF MicroInv
<1>2. CASE UNCHANGED microVars
  <2> USE <1>2 DEF MicroInv, microVars
  <2>1. MicroTypes' BY DEF MicroTypes, MicroShape, HostShape, PoolShape
  <2>2. IdInv' BY DEF IdInv, IdsAtStage, IdsAreOut, IdsAreOwn, OutHasGuard
  <2>3. CidInv' BY DEF CidInv, CidsAtStage, HeldCidIsReserved, CidsAreOwn, CidHasGuard,
                       NothingFreeBelowHint
  <2>4. HomeInv' BY DEF HomeInv, MetIsRaced, HomeIsBound, SocketHasVmm, UpAtStage
  <2> QED BY <2>1, <2>2, <2>3, <2>4
<1> QED BY <1>1, <1>2 DEF MicroVmNext

\* When every VM is over no guard is left to hold an id or a CID, nor a VMM to be bound.
LEMMA OverLeavesNothing == ASSUME MicroInv PROVE IdentitiesComeBack
<1> SUFFICES ASSUME \A v \in MicroVms : microStage[v] \in {"new", "done"}
             PROVE  claimed = {} /\ cids = {} /\ \A i \in VmIds : sock[i] = Nobody
  BY DEF IdentitiesComeBack
<1> USE MicroVmConstants DEF MicroInv
<1>1. \A v \in MicroVms : /\ micro[v].id = 0 /\ micro[v].lineage = 0
                          /\ micro[v].cid = 0 /\ micro[v].baked = 0 /\ ~micro[v].up
  BY DEF IdInv, IdsAtStage, CidInv, CidsAtStage, HomeInv, UpAtStage, Over, Down
<1>2. claimed = {}
  <2> SUFFICES ASSUME NEW i \in claimed PROVE FALSE OBVIOUS
  <2>1. i # 0 BY DEF MicroTypes, HostShape
  <2> QED BY <1>1, <2>1 DEF IdInv, OutHasGuard
<1>3. cids = {}
  <2> SUFFICES ASSUME NEW c \in cids PROVE FALSE OBVIOUS
  <2>1. c # 0 BY DEF MicroTypes, PoolShape, Cids
  <2> QED BY <1>1, <2>1 DEF CidInv, CidHasGuard
<1>4. ASSUME NEW i \in VmIds
      PROVE  sock[i] = Nobody
  <2>1. sock[i] \in MicroVms \cup {Nobody} BY DEF MicroTypes, HostShape
  <2>2. sock[i] \in MicroVms => micro[sock[i]].up BY DEF HomeInv, SocketHasVmm
  <2> QED BY <1>1, <2>1, <2>2
<1> QED BY <1>2, <1>3, <1>4

\* However many VMs of a process start, are restored from each other's snapshots, are spawned
\* again and torn down, failing anywhere: a running one that was not raced keeps the directory
\* and the socket it lives by, a guard's CID stays reserved, allocate overlooks no free CID,
\* and all ids, CIDs and sockets are back when the VMs are gone (MicroVm::start, restore_inner,
\* VmidGuard, CidGuard).
THEOREM IdentitiesAreKept == MicroVmSpec => []MicroVmSafe
<1>1. MicroVmInit => MicroInv BY MicroInitInv DEF MicroInv
<1>2. MicroInv /\ [MicroVmNext]_microVars => MicroInv' BY MicroInvStep
<1>3. MicroInv => MicroVmSafe
  <2> SUFFICES ASSUME MicroInv PROVE MicroVmSafe OBVIOUS
  <2>1. MicroVmTypeOK
    <3>1. \A v \in MicroVms : micro[v] \in MicroRecord BY DEF MicroInv, MicroTypes, MicroShape
    <3>2. \A v \in MicroVms :
            /\ {micro[v].id, micro[v].home, micro[v].lineage} \subseteq VmIds \cup {0}
            /\ {micro[v].cid, micro[v].answers, micro[v].baked, micro[v].bakedCid}
                 \subseteq Cids \cup {0}
            /\ {micro[v].restore, micro[v].up, micro[v].raced} \subseteq BOOLEAN
            /\ micro[v].respawns \in 0 .. MaxRespawns
      BY <3>1 DEF MicroRecord
    <3> QED BY <3>2 DEF MicroVmTypeOK, MicroInv, MicroTypes, MicroShape, HostShape, PoolShape,
                        MicroStages, Image
  <2>2. AdoptedHomeIsKept BY DEF AdoptedHomeIsKept, MicroInv, HomeInv, HomeIsBound, Bound
  <2>3. HeldCidIsReserved /\ NothingFreeBelowHint BY DEF MicroInv, CidInv
  <2> QED BY <2>1, <2>2, <2>3, OverLeavesNothing DEF MicroVmSafe
<1> QED BY <1>1, <1>2, <1>3, PTL DEF MicroVmSpec
=============================================================================
