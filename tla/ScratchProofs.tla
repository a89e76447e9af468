--------------------------- MODULE ScratchProofs ----------------------------
(***************************************************************************)
(* Scratch files for every number of daemons, pids and launches: a VMM only *)
(* ever opens the file its own VM cloned, because no two live daemons share *)
(* a pid and clone_file never writes over an existing target; the sweep     *)
(* takes nothing a live VM uses, and what a crash left is not forgotten.    *)
(***************************************************************************)
EXTENDS Scratch, TLAPS

\* No two live daemons have the same pid, and a pid is one of Pids.
PidsDiffer ==
  \A d, e \in Daemons : d # e /\ DaemonAlive(d) /\ DaemonAlive(e) => pid[d] # pid[e]

PidsKnown == \A d \in Daemons : DaemonAlive(d) => pid[d] \in Pids

\* A launch is under way only in a daemon that serves.
LaunchInServing == \A v \in Vms : vmOf[v] \in {"dir", "copied"} => daemon[v[1]] = "serve"

\* Between the clone and the VMM's open, the file under the VM's name is its own
\* clone or gone.
CopiedIsOwn == \A v \in Vms : vmOf[v] = "copied" => copy[DirOf(v)] \in {v, NoVm}

\* A VMM has its own VM's clone open or none.
DiskIsOwn == \A v \in Vms : disk[v] \in {v, NoVm}

\* The parts of the type invariant the functional updates need.
Shape ==
  /\ daemon \in [Daemons -> {"off", "reclaim", "serve", "dead"}]
  /\ pid \in [Daemons -> Pids \cup {NoDaemon}]
  /\ copy \in [Dirs -> Vms \cup {NoVm}]
  /\ vmOf \in [Vms -> {"none", "dir", "copied", "running", "stopped", "orphan", "gone"}]
  /\ disk \in [Vms -> Vms \cup {NoVm}]

ScratchInv ==
  Shape /\ PidsDiffer /\ PidsKnown /\ LaunchInServing /\ CopiedIsOwn /\ DiskIsOwn

-----------------------------------------------------------------------------

\* A serving VM's directory is one of Dirs.
LEMMA DirOfInDirs ==
  ASSUME NEW v \in Vms, daemon[v[1]] = "serve", PidsKnown
  PROVE  DirOf(v) \in Dirs
BY DEF Vms, Dirs, DirOf, PidsKnown, DaemonAlive

\* Two VMs of serving daemons have the same directory only if they are one.
LEMMA DirsDiffer ==
  ASSUME NEW v \in Vms, NEW w \in Vms, v # w, PidsDiffer,
         daemon[v[1]] = "serve", daemon[w[1]] = "serve"
  PROVE  DirOf(v) # DirOf(w)
BY DEF Vms, DirOf, PidsDiffer, DaemonAlive

\* The initial states satisfy the invariant.
LEMMA InitInv == ScratchInit => ScratchInv
BY DEF ScratchInit, ScratchInv, Shape, PidsDiffer, PidsKnown, LaunchInServing, CopiedIsOwn,
       DiskIsOwn, DaemonAlive, Vms, Dirs, NoVm

\* The invariant implies the property.
LEMMA InvImpliesPrivate == ScratchInv => CopyIsPrivate
BY DEF ScratchInv, DiskIsOwn, CopyIsPrivate

\* A step that changes neither daemons nor pids, moves no launch to another state,
\* opens no disk and at most removes copies preserves the invariant.
LEMMA RemovalKeepsInv ==
  ASSUME ScratchInv, UNCHANGED <<daemon, pid>>, Shape',
         \A v \in Vms : vmOf'[v] \in {"dir", "copied"} => vmOf'[v] = vmOf[v],
         \A v \in Vms : disk'[v] \in {disk[v], NoVm},
         \A x \in Dirs : copy'[x] \in {copy[x], NoVm}
  PROVE  ScratchInv'
<1>1. PidsDiffer' /\ PidsKnown' BY DEF ScratchInv, PidsDiffer, PidsKnown, DaemonAlive
<1>2. LaunchInServing' BY DEF ScratchInv, LaunchInServing
<1>3. CopiedIsOwn'
  <2> SUFFICES ASSUME NEW v \in Vms, vmOf'[v] = "copied" PROVE copy'[DirOf(v)] \in {v, NoVm}
    BY DEF CopiedIsOwn, DirOf
  <2>1. vmOf[v] = "copied" /\ daemon[v[1]] = "serve" BY DEF ScratchInv, LaunchInServing
  <2>2. DirOf(v) \in Dirs BY <2>1, DirOfInDirs DEF ScratchInv
  <2>3. copy[DirOf(v)] \in {v, NoVm} BY <2>1 DEF ScratchInv, CopiedIsOwn
  <2> QED BY <2>2, <2>3
<1>4. DiskIsOwn' BY DEF ScratchInv, DiskIsOwn
<1> QED BY <1>1, <1>2, <1>3, <1>4 DEF ScratchInv

\* Every step preserves the invariant.
LEMMA NextInv == ScratchInv /\ [ScratchNext]_scratchVars => ScratchInv'
<1> SUFFICES ASSUME ScratchInv, [ScratchNext]_scratchVars PROVE ScratchInv'
  OBVIOUS
<1>1. ASSUME NEW d \in Daemons, NEW p \in Pids, DaemonStart(d, p) PROVE ScratchInv'
  <2>1. Shape' BY <1>1 DEF DaemonStart, ScratchInv, Shape
  <2>2. PidsDiffer' BY <1>1 DEF DaemonStart, ScratchInv, Shape, PidsDiffer, DaemonAlive
  <2>3. PidsKnown' BY <1>1 DEF DaemonStart, ScratchInv, Shape, PidsKnown, DaemonAlive
  <2>4. LaunchInServing' BY <1>1 DEF DaemonStart, ScratchInv, Shape, LaunchInServing, Vms
  <2>5. CopiedIsOwn'
    <3> SUFFICES ASSUME NEW v \in Vms, vmOf'[v] = "copied" PROVE (copy[DirOf(v)])' \in {v, NoVm}
      BY DEF CopiedIsOwn
    <3>1. vmOf[v] = "copied" /\ daemon[v[1]] = "serve"
      BY <1>1 DEF DaemonStart, ScratchInv, LaunchInServing
    <3>2. DirOf(v)' = DirOf(v) BY <1>1, <3>1 DEF DaemonStart, DirOf, ScratchInv, Shape, Vms
    <3> QED BY <1>1, <3>1, <3>2 DEF DaemonStart, ScratchInv, CopiedIsOwn
  <2>6. DiskIsOwn' BY <1>1 DEF DaemonStart, ScratchInv, DiskIsOwn
  <2> QED BY <2>1, <2>2, <2>3, <2>4, <2>5, <2>6 DEF ScratchInv
<1>2. ASSUME NEW d \in Daemons, Judge(d) \/ RemoveFails(d) PROVE ScratchInv'
  BY <1>2, RemovalKeepsInv DEF Judge, RemoveFails, ScratchInv, Shape
<1>3. ASSUME NEW d \in Daemons, RemoveDoomed(d) PROVE ScratchInv'
  <2>1. Shape' BY <1>3 DEF RemoveDoomed, RemoveDir, ScratchInv, Shape
  <2>2. \A x \in Dirs : copy'[x] \in {copy[x], NoVm}
    BY <1>3 DEF RemoveDoomed, RemoveDir, ScratchInv, Shape
  <2> QED BY <1>3, <2>1, <2>2, RemovalKeepsInv DEF RemoveDoomed
<1>4. ASSUME NEW d \in Daemons, DirsReclaimed(d) PROVE ScratchInv'
  <2>1. Shape' BY <1>4 DEF DirsReclaimed, ScratchInv, Shape
  <2>2. PidsDiffer' /\ PidsKnown'
    BY <1>4 DEF DirsReclaimed, ScratchInv, Shape, PidsDiffer, PidsKnown, DaemonAlive
  <2>3. LaunchInServing' BY <1>4 DEF DirsReclaimed, ScratchInv, Shape, LaunchInServing, Vms
  <2>4. CopiedIsOwn' BY <1>4 DEF DirsReclaimed, ScratchInv, CopiedIsOwn, DirOf
  <2>5. DiskIsOwn' BY <1>4 DEF DirsReclaimed, ScratchInv, DiskIsOwn
  <2> QED BY <2>1, <2>2, <2>3, <2>4, <2>5 DEF ScratchInv
<1>5. ASSUME NEW d \in Daemons, Killed(d) PROVE ScratchInv'
  <2>1. Shape' BY <1>5 DEF Killed, ScratchInv, Shape
  <2>2. PidsDiffer' /\ PidsKnown'
    BY <1>5 DEF Killed, ScratchInv, Shape, PidsDiffer, PidsKnown, DaemonAlive
  <2>3. LaunchInServing' BY <1>5 DEF Killed, ScratchInv, Shape, LaunchInServing, Vms
  <2>4. CopiedIsOwn' BY <1>5 DEF Killed, ScratchInv, CopiedIsOwn, DirOf
  <2>5. DiskIsOwn' BY <1>5 DEF Killed, ScratchInv, DiskIsOwn
  <2> QED BY <2>1, <2>2, <2>3, <2>4, <2>5 DEF ScratchInv
<1>6. ASSUME NEW v \in Vms, CreateScratch(v) PROVE ScratchInv'
  <2>1. Shape' BY <1>6 DEF CreateScratch, VmGoto, ScratchInv, Shape
  <2>2. PidsDiffer' /\ PidsKnown'
    BY <1>6 DEF CreateScratch, ScratchInv, PidsDiffer, PidsKnown, DaemonAlive
  <2>3. LaunchInServing' BY <1>6 DEF CreateScratch, VmGoto, ScratchInv, Shape, LaunchInServing
  <2>4. CopiedIsOwn' BY <1>6 DEF CreateScratch, VmGoto, ScratchInv, Shape, CopiedIsOwn, DirOf
  <2>5. DiskIsOwn' BY <1>6 DEF CreateScratch, ScratchInv, DiskIsOwn
  <2> QED BY <2>1, <2>2, <2>3, <2>4, <2>5 DEF ScratchInv
<1>7. ASSUME NEW v \in Vms, CloneFile(v) PROVE ScratchInv'
  <2>1. DirOf(v) \in Dirs BY <1>7, DirOfInDirs DEF CloneFile, ScratchInv
  <2>2. copy[DirOf(v)] = NoVm BY <1>7 DEF CloneFile, TargetExists
  <2>3. copy' = [copy EXCEPT ![DirOf(v)] = v] BY <1>7, <2>2 DEF CloneFile
  <2>4. Shape'
    <3>1. copy \in [Dirs -> Vms \cup {NoVm}] BY DEF ScratchInv, Shape
    <3>2. copy' \in [Dirs -> Vms \cup {NoVm}] BY <2>3, <3>1
    <3> QED BY <1>7, <3>2 DEF CloneFile, VmGoto, ScratchInv, Shape
  <2>5. PidsDiffer' /\ PidsKnown'
    BY <1>7 DEF CloneFile, ScratchInv, PidsDiffer, PidsKnown, DaemonAlive
  <2>6. LaunchInServing' BY <1>7 DEF CloneFile, VmGoto, ScratchInv, Shape, LaunchInServing
  <2>7. CopiedIsOwn'
    <3> SUFFICES ASSUME NEW w \in Vms, vmOf'[w] = "copied" PROVE copy'[DirOf(w)] \in {w, NoVm}
      BY <1>7 DEF CopiedIsOwn, DirOf, CloneFile
    <3>1. CASE w = v
      <4>1. copy \in [Dirs -> Vms \cup {NoVm}] BY DEF ScratchInv, Shape
      <4>2. copy'[DirOf(v)] = v BY <4>1, <2>1, <2>3
      <4> QED BY <3>1, <4>2
    <3>2. CASE w # v
      <4>1. vmOf[w] = "copied" BY <1>7, <3>2 DEF CloneFile, VmGoto, ScratchInv, Shape
      <4>2. daemon[w[1]] = "serve" BY <4>1 DEF ScratchInv, LaunchInServing
      <4>3. DirOf(w) # DirOf(v) BY <1>7, <3>2, <4>2, DirsDiffer DEF CloneFile, ScratchInv
      <4>4. DirOf(w) \in Dirs BY <4>2, DirOfInDirs DEF ScratchInv
      <4>5. copy'[DirOf(w)] = copy[DirOf(w)] BY <2>3, <4>3, <4>4 DEF ScratchInv, Shape
      <4> QED BY <4>1, <4>5 DEF ScratchInv, CopiedIsOwn
    <3> QED BY <3>1, <3>2
  <2>8. DiskIsOwn' BY <1>7 DEF CloneFile, ScratchInv, DiskIsOwn
  <2> QED BY <2>4, <2>5, <2>6, <2>7, <2>8 DEF ScratchInv
<1>8. ASSUME NEW v \in Vms, Boot(v) PROVE ScratchInv'
  <2>1. copy[DirOf(v)] = v BY <1>8 DEF Boot, ScratchInv, CopiedIsOwn
  <2>2. disk' = [disk EXCEPT ![v] = v] BY <1>8, <2>1 DEF Boot
  <2>3. Shape' BY <1>8, <2>2 DEF Boot, VmGoto, ScratchInv, Shape
  <2>4. PidsDiffer' /\ PidsKnown' BY <1>8 DEF Boot, ScratchInv, PidsDiffer, PidsKnown, DaemonAlive
  <2>5. LaunchInServing' BY <1>8 DEF Boot, VmGoto, ScratchInv, Shape, LaunchInServing
  <2>6. CopiedIsOwn' BY <1>8 DEF Boot, VmGoto, ScratchInv, Shape, CopiedIsOwn, DirOf
  <2>7. DiskIsOwn' BY <2>2 DEF ScratchInv, Shape, DiskIsOwn
  <2> QED BY <2>3, <2>4, <2>5, <2>6, <2>7 DEF ScratchInv
<1>9. ASSUME NEW v \in Vms, LaunchFails(v) \/ DropAfterVmm(v) PROVE ScratchInv'
  <2>1. UNCHANGED <<daemon, pid, disk>> BY <1>9 DEF LaunchFails, DropAfterVmm
  <2>2. copy' = [copy EXCEPT ![DirOf(v)] = NoVm] \/ UNCHANGED copy
    BY <1>9 DEF LaunchFails, DropAfterVmm, DropScratch, RemoveDir
  <2>3. vmOf' = [vmOf EXCEPT ![v] = "gone"]
    BY <1>9 DEF LaunchFails, DropAfterVmm, MayDrop, VmGoto
  <2>4. Shape' BY <2>1, <2>2, <2>3 DEF ScratchInv, Shape
  <2>5. \A x \in Dirs : copy'[x] \in {copy[x], NoVm} BY <2>2 DEF ScratchInv, Shape
  <2>6. \A w \in Vms : vmOf'[w] \in {"dir", "copied"} => vmOf'[w] = vmOf[w]
    BY <2>3 DEF ScratchInv, Shape
  <2> QED BY <2>1, <2>4, <2>5, <2>6, RemovalKeepsInv
<1>10. ASSUME NEW v \in Vms, StopVmm(v) \/ OrphanExits(v) PROVE ScratchInv'
  <2>1. disk' = [disk EXCEPT ![v] = NoVm] /\ UNCHANGED <<daemon, pid, copy>>
    BY <1>10 DEF StopVmm, OrphanExits
  <2>2. vmOf' = [vmOf EXCEPT ![v] = "stopped"] \/ vmOf' = [vmOf EXCEPT ![v] = "gone"]
    BY <1>10 DEF StopVmm, OrphanExits, VmGoto
  <2>3. Shape' BY <2>1, <2>2 DEF ScratchInv, Shape
  <2>4. \A w \in Vms : vmOf'[w] \in {"dir", "copied"} => vmOf'[w] = vmOf[w]
    BY <2>2 DEF ScratchInv, Shape
  <2>5. \A w \in Vms : disk'[w] \in {disk[w], NoVm} BY <2>1 DEF ScratchInv, Shape
  <2> QED BY <2>1, <2>3, <2>4, <2>5, RemovalKeepsInv
<1>11. ASSUME (\E p \in Pids : StrangerStarts(p)) \/ StrangerExits PROVE ScratchInv'
  BY <1>11, RemovalKeepsInv DEF StrangerStarts, StrangerExits, ScratchInv, Shape
<1>12. CASE UNCHANGED scratchVars
  BY <1>12, RemovalKeepsInv DEF scratchVars, ScratchInv, Shape
<1> QED BY <1>1, <1>2, <1>3, <1>4, <1>5, <1>6, <1>7, <1>8, <1>9, <1>10, <1>11, <1>12
        DEF ScratchNext

\* Writable disks are private (scratch.rs, reflink.rs): in every behaviour of any
\* number of daemons, with any recycling of pids, any kill and any removal that
\* fails, no two VMMs have the same copy open.
THEOREM CopiesArePrivate == ScratchSpec => []CopyIsPrivate
<1>1. ScratchSpec => []ScratchInv BY InitInv, NextInv, PTL DEF ScratchSpec
<1> QED BY <1>1, InvImpliesPrivate, PTL

-----------------------------------------------------------------------------
(* The rest of the types *)

Records ==
  /\ stranger \subseteq Pids
  /\ maker \in [Dirs -> Daemons \cup {NoDaemon}]
  /\ todo \in [Daemons -> SUBSET Dirs]
  /\ doomed \in [Daemons -> Dirs \cup {NoDir}]
  /\ seq \in [Daemons -> 0..MaxSeq]
  /\ before \in [Daemons -> SUBSET Daemons]
  /\ excused \subseteq Dirs
  /\ pidRaced \subseteq Pids

\* A VM is of a daemon and has a number; no sentinel is a directory.
LEMMA VmParts ==
  /\ \A v \in Vms : v[1] \in Daemons /\ v[2] \in 0..MaxSeq - 1
  /\ NoDir \notin Dirs /\ \A x \in Dirs : x[1] \in Pids
BY ScratchConstants DEF Vms, Dirs, NoDir

\* The initial states have the types.
LEMMA RecordsInit == ScratchInit => Records
BY ScratchConstants DEF ScratchInit, Records

\* Every step keeps the types.
LEMMA RecordsNext ==
  ASSUME ScratchInv, Records, [ScratchNext]_scratchVars
  PROVE  Records'
<1>1. ASSUME NEW d \in Daemons, NEW p \in Pids, DaemonStart(d, p) PROVE Records'
  <2>1. {x \in Dirs : maker[x] # NoDaemon} \in SUBSET Dirs
        /\ {e \in Daemons : daemon[e] = "dead"} \in SUBSET Daemons
    OBVIOUS
  <2>2. pidRaced' \subseteq Pids BY <1>1 DEF DaemonStart, Records
  <2> QED BY <1>1, <2>1, <2>2 DEF DaemonStart, Records
<1>2. ASSUME NEW d \in Daemons, Judge(d) PROVE Records'
  <2>1. PICK x \in todo[d] :
          /\ todo' = [todo EXCEPT ![d] = @ \ {x}]
          /\ doomed' \in {doomed, [doomed EXCEPT ![d] = x]}
          /\ excused' \subseteq excused \cup {x}
    BY <1>2 DEF Judge
  <2>2. x \in Dirs BY DEF Records
  <2> QED BY <1>2, <2>1, <2>2 DEF Judge, Records
<1>3. ASSUME NEW d \in Daemons, RemoveDoomed(d) PROVE Records'
  BY <1>3 DEF RemoveDoomed, RemoveDir, Records
<1>4. ASSUME NEW d \in Daemons, RemoveFails(d) PROVE Records'
  BY <1>4 DEF RemoveFails, Records
<1>5. ASSUME NEW d \in Daemons, DirsReclaimed(d) PROVE Records'
  BY <1>5 DEF DirsReclaimed, Records
<1>6. ASSUME NEW d \in Daemons, Killed(d) PROVE Records'
  BY <1>6 DEF Killed, Records
<1>7. ASSUME NEW v \in Vms, CreateScratch(v) PROVE Records'
  <2>1. NextSeq(v[1]) \in 0..MaxSeq
    BY <1>7, VmParts, ScratchConstants DEF CreateScratch, NextSeq
  <2> QED BY <1>7, <2>1, VmParts DEF CreateScratch, Records
<1>8. ASSUME NEW v \in Vms, CloneFile(v) PROVE Records'
  BY <1>8, VmParts DEF CloneFile, Records
<1>9. ASSUME NEW v \in Vms, Boot(v) \/ StopVmm(v) \/ OrphanExits(v) PROVE Records'
  BY <1>9 DEF Boot, StopVmm, OrphanExits, Records
<1>10. ASSUME NEW v \in Vms, LaunchFails(v) PROVE Records'
  <2>1. DirOf(v) \in Dirs BY <1>10, DirOfInDirs DEF LaunchFails, ScratchInv
  <2> QED BY <1>10, <2>1 DEF LaunchFails, DropScratch, RemoveDir, Records
<1>11. ASSUME NEW v \in Vms, DropAfterVmm(v) PROVE Records'
  <2>1. DirOf(v) \in Dirs BY <1>11, DirOfInDirs DEF DropAfterVmm, ScratchInv
  <2> QED BY <1>11, <2>1 DEF DropAfterVmm, DropScratch, RemoveDir, Records
<1>12. ASSUME NEW p \in Pids, StrangerStarts(p) PROVE Records'
  BY <1>12 DEF StrangerStarts, Records
<1>13. CASE StrangerExits BY <1>13 DEF StrangerExits, Records
<1>14. CASE UNCHANGED scratchVars BY <1>14 DEF scratchVars, Records
<1> QED BY <1>1, <1>2, <1>3, <1>4, <1>5, <1>6, <1>7, <1>8, <1>9, <1>10, <1>11, <1>12, <1>13, <1>14
        DEF ScratchNext

-----------------------------------------------------------------------------
(* A copy in use stays *)

\* A running VM is of a serving daemon and has its own clone open.
RunningIsLive ==
  \A v \in Vms : vmOf[v] = "running" => daemon[v[1]] = "serve" /\ disk[v] = v

\* A daemon has a directory to remove only while it reclaims.
DoomedInReclaim == \A d \in Daemons : doomed[d] # NoDir => daemon[d] = "reclaim"

\* A directory another daemon is about to remove has no live daemon's pid, unless
\* that pid was given out after the judgement.
DoomedIsDead ==
  \A d, e \in Daemons :
    DaemonAlive(d) /\ e # d /\ doomed[e] # NoDir /\ doomed[e][1] = pid[d] => pid[d] \in pidRaced

UseInv == RunningIsLive /\ DoomedInReclaim /\ DoomedIsDead /\ LiveCopySurvives

\* The initial states satisfy the invariant.
LEMMA UseInit == ScratchInit => UseInv
BY DEF ScratchInit, UseInv, RunningIsLive, DoomedInReclaim, DoomedIsDead, LiveCopySurvives,
   DaemonAlive

\* A step that starts no VMM, stops no daemon and leaves the copies of running VMs
\* keeps what is said of running VMs.
LEMMA UseStays ==
  ASSUME UseInv, UNCHANGED <<daemon, pid>>, pidRaced \subseteq pidRaced',
         \A v \in Vms : vmOf'[v] = "running" => vmOf[v] = "running" /\ disk'[v] = disk[v],
         \A v \in Vms : vmOf[v] = "running" /\ vmOf'[v] = "running" /\ pid[v[1]] \notin pidRaced =>
                          copy'[DirOf(v)] = copy[DirOf(v)]
  PROVE  RunningIsLive' /\ LiveCopySurvives'
BY DEF UseInv, RunningIsLive, LiveCopySurvives, DirOf

\* A step that starts and stops no daemon and dooms no directory keeps what is said
\* of doomed ones.
LEMMA DoomedStays ==
  ASSUME UseInv, UNCHANGED <<daemon, pid, pidRaced>>,
         \A d \in Daemons : doomed'[d] \in {doomed[d], NoDir}
  PROVE  DoomedInReclaim' /\ DoomedIsDead'
BY DEF UseInv, DoomedInReclaim, DoomedIsDead, DaemonAlive

\* A step that touches neither daemons, directories nor copies, and starts no VMM.
LEMMA UseFrame ==
  ASSUME UseInv, UNCHANGED <<daemon, pid, pidRaced, doomed, copy>>,
         \A v \in Vms : vmOf'[v] = "running" => vmOf[v] = "running" /\ disk'[v] = disk[v]
  PROVE  UseInv'
BY UseStays, DoomedStays DEF UseInv

\* Every step keeps the copies in use.
LEMMA UseNext ==
  ASSUME ScratchInv, Records, UseInv, [ScratchNext]_scratchVars
  PROVE  UseInv'
<1>1. ASSUME NEW d \in Daemons, NEW p \in Pids, DaemonStart(d, p) PROVE UseInv'
  <2>1. \A e \in Daemons : e # d => daemon'[e] = daemon[e] /\ pid'[e] = pid[e]
    BY <1>1 DEF DaemonStart, ScratchInv, Shape
  <2>2. daemon[d] = "off" /\ daemon'[d] = "reclaim" /\ pid'[d] = p
    BY <1>1 DEF DaemonStart, ScratchInv, Shape
  <2>3. \A v \in Vms : vmOf[v] = "running" => v[1] # d
    BY <2>2 DEF UseInv, RunningIsLive
  <2>4. RunningIsLive'
    BY <1>1, <2>1, <2>3, VmParts DEF DaemonStart, UseInv, RunningIsLive
  <2>5. LiveCopySurvives'
    BY <1>1, <2>1, <2>3, VmParts DEF DaemonStart, UseInv, LiveCopySurvives, DirOf
  <2>6. DoomedInReclaim' BY <1>1, <2>1, <2>2 DEF DaemonStart, UseInv, DoomedInReclaim
  <2>7. DoomedIsDead'
    <3> SUFFICES ASSUME NEW f \in Daemons, NEW e \in Daemons, DaemonAlive(f)', e # f,
                        doomed'[e] # NoDir, doomed'[e][1] = pid'[f]
                 PROVE  pid'[f] \in pidRaced'
      BY DEF DoomedIsDead
    <3>1. UNCHANGED doomed /\ pidRaced \subseteq pidRaced' BY <1>1 DEF DaemonStart
    <3>2. CASE f = d BY <1>1, <2>2, <3>1, <3>2 DEF DaemonStart
    <3>3. CASE f # d BY <2>1, <3>1, <3>3 DEF UseInv, DoomedIsDead, DaemonAlive
    <3> QED BY <3>2, <3>3
  <2> QED BY <2>4, <2>5, <2>6, <2>7 DEF UseInv
<1>2. ASSUME NEW d \in Daemons, Judge(d) PROVE UseInv'
  <2>1. UNCHANGED <<daemon, pid, copy, vmOf, disk, pidRaced>> BY <1>2 DEF Judge
  <2>2. RunningIsLive' /\ LiveCopySurvives' BY <2>1, UseStays
  <2>3. PICK x \in todo[d] :
          doomed' = doomed \/ (~Retained(d, x) /\ doomed' = [doomed EXCEPT ![d] = x])
    BY <1>2 DEF Judge
  <2>4. CASE doomed' = doomed BY <2>1, <2>2, <2>4, DoomedStays DEF UseInv
  <2>5. CASE ~Retained(d, x) /\ doomed' = [doomed EXCEPT ![d] = x]
    <3>1. doomed'[d] = x /\ \A e \in Daemons : e # d => doomed'[e] = doomed[e]
      BY <2>5 DEF Records
    <3>2. daemon[d] = "reclaim" BY <1>2 DEF Judge
    <3>3. DoomedInReclaim' BY <2>1, <3>1, <3>2 DEF UseInv, DoomedInReclaim
    <3>4. \A f \in Daemons : f # d /\ DaemonAlive(f) => x[1] # pid[f]
      BY <2>5, <3>2 DEF Retained, PidIsAlive, ScratchInv, PidsDiffer, DaemonAlive
    <3>5. DoomedIsDead' BY <2>1, <3>1, <3>4 DEF UseInv, DoomedIsDead, DaemonAlive
    <3> QED BY <2>2, <3>3, <3>5 DEF UseInv
  <2> QED BY <2>3, <2>4, <2>5
<1>3. ASSUME NEW d \in Daemons, RemoveDoomed(d) PROVE UseInv'
  <2>1. UNCHANGED <<daemon, pid, vmOf, disk, pidRaced>> BY <1>3 DEF RemoveDoomed
  <2>2. \A e \in Daemons : doomed'[e] \in {doomed[e], NoDir} BY <1>3 DEF RemoveDoomed, Records
  <2>3. ASSUME NEW v \in Vms, vmOf[v] = "running", pid[v[1]] \notin pidRaced
        PROVE  copy'[DirOf(v)] = copy[DirOf(v)]
    <3>1. daemon[v[1]] = "serve" /\ v[1] \in Daemons
      BY <2>3, VmParts DEF UseInv, RunningIsLive
    <3>2. doomed[d] # NoDir /\ d # v[1] BY <1>3, <3>1 DEF RemoveDoomed
    <3>3. doomed[d][1] # pid[v[1]] BY <2>3, <3>1, <3>2 DEF UseInv, DoomedIsDead, DaemonAlive
    <3>4. DirOf(v)[1] = pid[v[1]] BY DEF DirOf
    <3>5. DirOf(v) # doomed[d] BY <3>3, <3>4
    <3>6. DirOf(v) \in Dirs BY <3>1, DirOfInDirs DEF ScratchInv
    <3> QED BY <1>3, <3>5, <3>6 DEF RemoveDoomed, RemoveDir, ScratchInv, Shape
  <2> QED BY <2>1, <2>2, <2>3, UseStays, DoomedStays DEF UseInv
<1>4. ASSUME NEW d \in Daemons, RemoveFails(d) PROVE UseInv'
  <2>1. \A e \in Daemons : doomed'[e] \in {doomed[e], NoDir} BY <1>4 DEF RemoveFails, Records
  <2> QED BY <1>4, <2>1, UseStays, DoomedStays DEF RemoveFails, UseInv
<1>5. ASSUME NEW d \in Daemons, DirsReclaimed(d) PROVE UseInv'
  <2>1. /\ daemon[d] = "reclaim" /\ daemon'[d] = "serve" /\ doomed[d] = NoDir
        /\ \A e \in Daemons : e # d => daemon'[e] = daemon[e]
        /\ UNCHANGED <<pid, copy, doomed, vmOf, disk, pidRaced>>
    BY <1>5 DEF DirsReclaimed, ScratchInv, Shape
  <2>2. RunningIsLive' BY <2>1, VmParts DEF UseInv, RunningIsLive
  <2>3. LiveCopySurvives' BY <2>1 DEF UseInv, LiveCopySurvives, DirOf
  <2>4. DoomedInReclaim' BY <2>1 DEF UseInv, DoomedInReclaim
  <2>5. DoomedIsDead' BY <2>1 DEF UseInv, DoomedIsDead, DaemonAlive
  <2> QED BY <2>2, <2>3, <2>4, <2>5 DEF UseInv
<1>6. ASSUME NEW d \in Daemons, Killed(d) PROVE UseInv'
  <2>1. /\ daemon'[d] = "dead" /\ doomed'[d] = NoDir
        /\ \A e \in Daemons : e # d => daemon'[e] = daemon[e] /\ doomed'[e] = doomed[e]
        /\ UNCHANGED <<pid, copy, disk, pidRaced>>
    BY <1>6 DEF Killed, ScratchInv, Shape, Records
  <2>2. \A v \in Vms : vmOf'[v] = "running" => v[1] # d /\ vmOf[v] = "running"
    BY <1>6 DEF Killed
  <2>3. RunningIsLive' BY <2>1, <2>2, VmParts DEF UseInv, RunningIsLive
  <2>4. LiveCopySurvives' BY <2>1, <2>2 DEF UseInv, LiveCopySurvives, DirOf
  <2>5. DoomedInReclaim' BY <2>1 DEF UseInv, DoomedInReclaim
  <2>6. DoomedIsDead' BY <2>1 DEF UseInv, DoomedIsDead, DaemonAlive
  <2> QED BY <2>3, <2>4, <2>5, <2>6 DEF UseInv
<1>7. ASSUME NEW v \in Vms, CreateScratch(v) PROVE UseInv'
  <2>1. \A w \in Vms : vmOf'[w] = "running" => vmOf[w] = "running"
    BY <1>7 DEF CreateScratch, VmGoto, ScratchInv, Shape
  <2> QED BY <1>7, <2>1, UseFrame DEF CreateScratch
<1>8. ASSUME NEW v \in Vms, CloneFile(v) PROVE UseInv'
  <2>1. \A w \in Vms : vmOf'[w] = "running" => vmOf[w] = "running" /\ w # v
    BY <1>8 DEF CloneFile, VmGoto, ScratchInv, Shape
  <2>2. ASSUME NEW w \in Vms, vmOf'[w] = "running" PROVE copy'[DirOf(w)] = copy[DirOf(w)]
    <3>1. daemon[w[1]] = "serve" BY <2>1, <2>2 DEF UseInv, RunningIsLive
    <3>2. DirOf(w) # DirOf(v) BY <1>8, <2>1, <2>2, <3>1, DirsDiffer DEF CloneFile, ScratchInv
    <3>3. DirOf(w) \in Dirs BY <3>1, DirOfInDirs DEF ScratchInv
    <3> QED BY <1>8, <3>2, <3>3 DEF CloneFile, ScratchInv, Shape
  <2> QED BY <1>8, <2>1, <2>2, UseStays, DoomedStays DEF CloneFile, UseInv
<1>9. ASSUME NEW v \in Vms, Boot(v) PROVE UseInv'
  <2>1. copy[DirOf(v)] = v BY <1>9 DEF Boot, ScratchInv, CopiedIsOwn
  <2>2. /\ disk'[v] = v /\ vmOf'[v] = "running"
        /\ \A w \in Vms : w # v => disk'[w] = disk[w] /\ vmOf'[w] = vmOf[w]
        /\ UNCHANGED <<daemon, pid, copy, doomed, pidRaced>> /\ daemon[v[1]] = "serve"
    BY <1>9, <2>1 DEF Boot, VmGoto, ScratchInv, Shape
  <2>3. RunningIsLive' BY <2>2 DEF UseInv, RunningIsLive
  <2>4. LiveCopySurvives' BY <2>1, <2>2 DEF UseInv, LiveCopySurvives, DirOf
  <2> QED BY <2>2, <2>3, <2>4, DoomedStays DEF UseInv
<1>10. ASSUME NEW v \in Vms, LaunchFails(v) \/ DropAfterVmm(v) PROVE UseInv'
  <2>1. UNCHANGED <<daemon, pid, disk, doomed, pidRaced>> /\ daemon[v[1]] = "serve"
    BY <1>10 DEF LaunchFails, DropAfterVmm
  <2>2. \A w \in Vms : vmOf'[w] = "running" => vmOf[w] = "running" /\ w # v
    BY <1>10 DEF LaunchFails, DropAfterVmm, MayDrop, VmGoto, ScratchInv, Shape
  <2>3. copy' = [copy EXCEPT ![DirOf(v)] = NoVm] \/ UNCHANGED copy
    BY <1>10 DEF LaunchFails, DropAfterVmm, DropScratch, RemoveDir
  <2>4. ASSUME NEW w \in Vms, vmOf'[w] = "running" PROVE copy'[DirOf(w)] = copy[DirOf(w)]
    <3>1. daemon[w[1]] = "serve" BY <2>2, <2>4 DEF UseInv, RunningIsLive
    <3>2. DirOf(w) # DirOf(v) BY <2>1, <2>2, <2>4, <3>1, DirsDiffer DEF ScratchInv
    <3>3. DirOf(w) \in Dirs BY <3>1, DirOfInDirs DEF ScratchInv
    <3> QED BY <2>3, <3>2, <3>3 DEF ScratchInv, Shape
  <2> QED BY <2>1, <2>2, <2>4, UseStays, DoomedStays DEF UseInv
<1>11. ASSUME NEW v \in Vms, StopVmm(v) \/ OrphanExits(v) PROVE UseInv'
  <2>1. \A w \in Vms : vmOf'[w] = "running" => vmOf[w] = "running" /\ disk'[w] = disk[w]
    BY <1>11 DEF StopVmm, OrphanExits, VmGoto, ScratchInv, Shape
  <2> QED BY <1>11, <2>1, UseFrame DEF StopVmm, OrphanExits
<1>12. ASSUME NEW p \in Pids, StrangerStarts(p) PROVE UseInv'
  BY <1>12, UseFrame DEF StrangerStarts
<1>13. CASE StrangerExits BY <1>13, UseFrame DEF StrangerExits
<1>14. CASE UNCHANGED scratchVars BY <1>14, UseFrame DEF scratchVars
<1> QED BY <1>1, <1>2, <1>3, <1>4, <1>5, <1>6, <1>7, <1>8, <1>9, <1>10, <1>11, <1>12, <1>13, <1>14
        DEF ScratchNext

-----------------------------------------------------------------------------
(* What a killed daemon left goes *)

\* The daemons a start-up counts as its predecessors are dead, for good.
BeforeIsDead == \A d \in Daemons : \A e \in before[d] : daemon[e] = "dead"

\* A directory a predecessor left is excused, or the start-up still has it on its list
\* or in its hand.
ResidueIsListed ==
  \A d \in Daemons, x \in Dirs :
    DaemonAlive(d) /\ maker[x] \in before[d] =>
      x \in excused \/ (daemon[d] = "reclaim" /\ (x \in todo[d] \/ x = doomed[d]))

ResidueInv == BeforeIsDead /\ ResidueIsListed

\* The initial states satisfy the invariant.
LEMMA ResidueInit == ScratchInit => ResidueInv
BY DEF ScratchInit, ResidueInv, BeforeIsDead, ResidueIsListed, DaemonAlive

\* A step that leaves the start-ups alone, and removes directories, excuses them or
\* makes them for a daemon that serves.
LEMMA ResidueStays ==
  ASSUME ResidueInv, Records, UNCHANGED <<daemon, before, todo, doomed>>,
         \A x \in Dirs : \/ maker'[x] = maker[x] /\ (x \in excused => x \in excused')
                         \/ maker'[x] = NoDaemon
                         \/ daemon[maker'[x]] = "serve"
  PROVE  ResidueInv'
<1>1. BeforeIsDead' BY DEF ResidueInv, BeforeIsDead
<1>2. \A d \in Daemons : NoDaemon \notin before[d] BY ScratchConstants DEF Records
<1>3. \A d \in Daemons : \A e \in before[d] : daemon[e] # "serve" BY DEF ResidueInv, BeforeIsDead
<1>4. ResidueIsListed' BY <1>2, <1>3 DEF ResidueInv, ResidueIsListed, DaemonAlive
<1> QED BY <1>1, <1>4 DEF ResidueInv

\* A guard that is dropped removes its directory or leaves it excused.
LEMMA DropKeepsResidue ==
  ASSUME NEW v \in Vms, DropScratch(v), ScratchInv, Records, ResidueInv,
         daemon[v[1]] = "serve", UNCHANGED <<daemon, before, todo, doomed>>
  PROVE  ResidueInv'
<1>1. DirOf(v) \in Dirs BY DirOfInDirs DEF ScratchInv
<1>2. CASE RemoveDir(DirOf(v))
  BY <1>1, <1>2, ResidueStays DEF RemoveDir, Records
<1>3. CASE excused' = excused \cup {DirOf(v)} /\ UNCHANGED <<maker, copy>>
  BY <1>3, ResidueStays
<1> QED BY <1>2, <1>3 DEF DropScratch

\* Every step keeps account of what was left.
LEMMA ResidueNext ==
  ASSUME ScratchInv, Records, ResidueInv, [ScratchNext]_scratchVars
  PROVE  ResidueInv'
<1>0. \A d \in Daemons : NoDaemon \notin before[d] BY ScratchConstants DEF Records
<1>1. ASSUME NEW d \in Daemons, NEW p \in Pids, DaemonStart(d, p) PROVE ResidueInv'
  <2>1. /\ daemon[d] = "off" /\ daemon'[d] = "reclaim"
        /\ \A e \in Daemons : e # d => daemon'[e] = daemon[e]
    BY <1>1 DEF DaemonStart, ScratchInv, Shape
  <2>2. /\ before'[d] = {e \in Daemons : daemon[e] = "dead"}
        /\ todo'[d] = {x \in Dirs : maker[x] # NoDaemon}
        /\ \A e \in Daemons : e # d => before'[e] = before[e] /\ todo'[e] = todo[e]
        /\ UNCHANGED <<maker, doomed, excused>>
    BY <1>1 DEF DaemonStart, Records
  <2>3. \A e \in Daemons : before[e] \subseteq Daemons BY DEF Records
  <2>4. \A e \in Daemons : \A f \in before[e] : f # d /\ daemon'[f] = "dead"
    BY <2>1, <2>3 DEF ResidueInv, BeforeIsDead
  <2>5. \A f \in before'[d] : f # d /\ daemon'[f] = "dead" BY <2>1, <2>2
  <2>6. BeforeIsDead' BY <2>2, <2>4, <2>5 DEF BeforeIsDead
  <2>7. ASSUME NEW e \in Daemons, NEW x \in Dirs, e # d,
               DaemonAlive(e)', maker'[x] \in before'[e]
        PROVE  x \in excused' \/ (daemon'[e] = "reclaim" /\ (x \in todo'[e] \/ x = doomed'[e]))
    BY <2>1, <2>2, <2>7 DEF ResidueInv, ResidueIsListed, DaemonAlive
  <2>8. ASSUME NEW x \in Dirs, maker'[x] \in before'[d]
        PROVE  daemon'[d] = "reclaim" /\ x \in todo'[d]
    BY <2>1, <2>2, <2>8, ScratchConstants
  <2>9. ResidueIsListed' BY <2>7, <2>8 DEF ResidueIsListed
  <2> QED BY <2>6, <2>9 DEF ResidueInv
<1>2. ASSUME NEW d \in Daemons, Judge(d) PROVE ResidueInv'
  <2>1. UNCHANGED <<daemon, before, maker>> /\ doomed[d] = NoDir /\ daemon[d] = "reclaim"
    BY <1>2 DEF Judge
  <2>2. PICK x \in todo[d] :
          /\ todo' = [todo EXCEPT ![d] = @ \ {x}]
          /\ \/ UNCHANGED doomed /\ x \in excused'
             \/ doomed' = [doomed EXCEPT ![d] = x]
          /\ excused \subseteq excused'
    BY <1>2 DEF Judge, Retained
  <2>3. /\ todo'[d] = todo[d] \ {x}
        /\ x \in excused' \/ x = doomed'[d]
        /\ \A e \in Daemons : e # d => todo'[e] = todo[e] /\ doomed'[e] = doomed[e]
    BY <2>2 DEF Records
  <2>4. BeforeIsDead' BY <2>1 DEF ResidueInv, BeforeIsDead
  <2>5. ResidueIsListed' BY <2>1, <2>2, <2>3, VmParts DEF ResidueInv, ResidueIsListed, DaemonAlive
  <2> QED BY <2>4, <2>5 DEF ResidueInv
<1>3. ASSUME NEW d \in Daemons, RemoveDoomed(d) PROVE ResidueInv'
  <2>1. UNCHANGED <<daemon, before, todo>> BY <1>3 DEF RemoveDoomed
  <2>2. doomed[d] \in Dirs BY <1>3 DEF RemoveDoomed, Records
  <2>3. /\ maker'[doomed[d]] = NoDaemon
        /\ \A x \in Dirs : x # doomed[d] => maker'[x] = maker[x] /\ (x \in excused => x \in excused')
        /\ \A e \in Daemons : e # d => doomed'[e] = doomed[e]
    BY <1>3, <2>2 DEF RemoveDoomed, RemoveDir, Records
  <2>4. BeforeIsDead' BY <2>1 DEF ResidueInv, BeforeIsDead
  <2>5. ResidueIsListed' BY <1>0, <2>1, <2>3 DEF ResidueInv, ResidueIsListed, DaemonAlive
  <2> QED BY <2>4, <2>5 DEF ResidueInv
<1>4. ASSUME NEW d \in Daemons, RemoveFails(d) PROVE ResidueInv'
  <2>1. /\ UNCHANGED <<daemon, before, todo, maker>> /\ excused' = excused \cup {doomed[d]}
        /\ \A e \in Daemons : e # d => doomed'[e] = doomed[e]
    BY <1>4 DEF RemoveFails, Records
  <2>2. BeforeIsDead' BY <2>1 DEF ResidueInv, BeforeIsDead
  <2>3. ResidueIsListed' BY <2>1 DEF ResidueInv, ResidueIsListed, DaemonAlive
  <2> QED BY <2>2, <2>3 DEF ResidueInv
<1>5. ASSUME NEW d \in Daemons, DirsReclaimed(d) PROVE ResidueInv'
  <2>1. /\ daemon[d] = "reclaim" /\ todo[d] = {} /\ doomed[d] = NoDir
        /\ \A e \in Daemons : e # d => daemon'[e] = daemon[e]
        /\ daemon'[d] = "serve"
        /\ UNCHANGED <<maker, before, todo, doomed, excused>>
    BY <1>5 DEF DirsReclaimed, ScratchInv, Shape
  <2>2. BeforeIsDead' BY <2>1 DEF ResidueInv, BeforeIsDead, Records
  <2>3. ResidueIsListed' BY <2>1, VmParts DEF ResidueInv, ResidueIsListed, DaemonAlive
  <2> QED BY <2>2, <2>3 DEF ResidueInv
<1>6. ASSUME NEW d \in Daemons, Killed(d) PROVE ResidueInv'
  <2>1. /\ daemon'[d] = "dead"
        /\ \A e \in Daemons : e # d => /\ daemon'[e] = daemon[e]
                                       /\ todo'[e] = todo[e] /\ doomed'[e] = doomed[e]
        /\ UNCHANGED <<maker, before, excused>>
    BY <1>6 DEF Killed, ScratchInv, Shape, Records
  <2>2. BeforeIsDead' BY <2>1 DEF ResidueInv, BeforeIsDead, Records
  <2>3. ResidueIsListed' BY <2>1 DEF ResidueInv, ResidueIsListed, DaemonAlive
  <2> QED BY <2>2, <2>3 DEF ResidueInv
<1>7. ASSUME NEW v \in Vms, CreateScratch(v) \/ CloneFile(v) PROVE ResidueInv'
  <2>1. /\ daemon[v[1]] = "serve" /\ UNCHANGED <<daemon, before, todo, doomed, excused>>
        /\ maker' = [maker EXCEPT ![DirOf(v)] = v[1]]
    BY <1>7 DEF CreateScratch, CloneFile
  <2>2. \A x \in Dirs : maker'[x] \in {maker[x], v[1]} BY <2>1 DEF Records
  <2> QED BY <2>1, <2>2, ResidueStays
<1>8. ASSUME NEW v \in Vms, LaunchFails(v) \/ DropAfterVmm(v) PROVE ResidueInv'
  BY <1>8, DropKeepsResidue DEF LaunchFails, DropAfterVmm
<1>9. ASSUME NEW v \in Vms, Boot(v) \/ StopVmm(v) \/ OrphanExits(v) PROVE ResidueInv'
  BY <1>9, ResidueStays DEF Boot, StopVmm, OrphanExits
<1>10. ASSUME NEW p \in Pids, StrangerStarts(p) PROVE ResidueInv'
  BY <1>10, ResidueStays DEF StrangerStarts
<1>11. CASE StrangerExits BY <1>11, ResidueStays DEF StrangerExits
<1>12. CASE UNCHANGED scratchVars BY <1>12, ResidueStays DEF scratchVars
<1> QED BY <1>1, <1>2, <1>3, <1>4, <1>5, <1>6, <1>7, <1>8, <1>9, <1>10, <1>11, <1>12
        DEF ScratchNext

-----------------------------------------------------------------------------

\* The whole inductive invariant and what it implies.
LEMMA InvImpliesSafe == ScratchInv /\ Records /\ UseInv /\ ResidueInv => ScratchSafe
<1> SUFFICES ASSUME ScratchInv, Records, UseInv, ResidueInv PROVE ScratchSafe
  OBVIOUS
<1>1. ScratchTypeOK
  BY DEF ScratchInv, Shape, PidsDiffer, DaemonAlive, Records, ScratchTypeOK
<1>2. ResidueIsReclaimed BY DEF ResidueInv, ResidueIsListed, DaemonAlive, ResidueIsReclaimed
<1> QED BY <1>1, <1>2, InvImpliesPrivate DEF UseInv, ScratchSafe

\* Everything the scratch directories promise, for any number of daemons, pids and
\* launches, through kills, recycled pids and removals that fail: copies are private,
\* the copy of a live daemon's running VM stays (scratch.rs: "retain on doubt"), and
\* what a killed daemon left is gone once a later one serves, or is excused.
THEOREM ScratchIsSafe == ScratchSpec => []ScratchSafe
<1> DEFINE Inv == ScratchInv /\ Records /\ UseInv /\ ResidueInv
<1>1. ScratchInit => Inv BY InitInv, RecordsInit, UseInit, ResidueInit
<1>2. Inv /\ [ScratchNext]_scratchVars => Inv' BY NextInv, RecordsNext, UseNext, ResidueNext
<1>3. Inv => ScratchSafe BY InvImpliesSafe
<1> HIDE DEF Inv
<1> QED BY <1>1, <1>2, <1>3, PTL DEF ScratchSpec
=============================================================================
