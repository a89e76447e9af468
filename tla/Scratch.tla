------------------------------ MODULE Scratch -------------------------------
(***************************************************************************)
(* The private copies of writable disks (vmcell-daemon/src/scratch.rs and  *)
(* launcher.rs): every VM that asks for one gets a directory named by its  *)
(* daemon's pid and a sequence number, and a copy-on-write clone in it,    *)
(* which lives until the VMM is gone.  A killed daemon runs no destructor; *)
(* the next one to start removes the directories of dead pids.  Pids are   *)
(* recycled, by other daemons and by strangers, and a killed daemon's VMMs *)
(* run on with their disks open.                                           *)
(*                                                                         *)
(* A VM has one writable disk; the VM stands for the file it cloned.       *)
(***************************************************************************)
EXTENDS Naturals

CONSTANTS
  Daemons,    \* the daemon processes, each started once
  Pids,
  MaxSeq,     \* bound: launches of one daemon
  NoDaemon

ASSUME ScratchConstants == MaxSeq \in Nat \ {0} /\ NoDaemon \notin Daemons \cup Pids

VARIABLES
  daemon,     \* [Daemons -> "off", "reclaim", "serve" or "dead"]
  pid,        \* [Daemons -> the daemon's pid]
  stranger,   \* pids of processes that are no daemon
  maker,      \* [Dirs -> the daemon that made the directory, or NoDaemon]
  copy,       \* [Dirs -> the VM whose clone the file in it is, or NoVm]
  todo,       \* [Daemons -> what read_dir listed and is still to be judged]
  doomed,     \* [Daemons -> the directory judged dead, before its removal]
  seq,        \* [Daemons -> scratch_seq]
  vmOf,       \* [Vms -> the state of the VM]
  disk,       \* [Vms -> the file the VMM has open, by the VM that cloned it]
  before,     \* history: [Daemons -> the daemons dead when this one started]
  excused,    \* history: directories retained for a reason the code accepts
  pidRaced    \* history: pids taken by a daemon after another judged them dead

scratchVars == <<daemon, pid, stranger, maker, copy, todo, doomed, seq, vmOf, disk,
                 before, excused, pidRaced>>

Dirs == Pids \X (0..MaxSeq - 1)
Vms == Daemons \X (0..MaxSeq - 1)
NoVm == <<NoDaemon, 0>>
NoDir == <<NoDaemon, 0>>

ScratchTypeOK ==
  /\ daemon \in [Daemons -> {"off", "reclaim", "serve", "dead"}]
  /\ pid \in [Daemons -> Pids \cup {NoDaemon}]
  /\ stranger \subseteq Pids
  /\ \A d, e \in Daemons : d # e /\ daemon[d] \in {"reclaim", "serve"}
       /\ daemon[e] \in {"reclaim", "serve"} => pid[d] # pid[e]
  /\ maker \in [Dirs -> Daemons \cup {NoDaemon}]
  /\ copy \in [Dirs -> Vms \cup {NoVm}]
  /\ todo \in [Daemons -> SUBSET Dirs]
  /\ doomed \in [Daemons -> Dirs \cup {NoDir}]
  /\ seq \in [Daemons -> 0..MaxSeq]
  /\ vmOf \in [Vms -> {"none", "dir", "copied", "running", "stopped", "orphan", "gone"}]
  /\ disk \in [Vms -> Vms \cup {NoVm}]
  /\ before \in [Daemons -> SUBSET Daemons]
  /\ excused \subseteq Dirs
  /\ pidRaced \subseteq Pids

ScratchInit ==
  /\ daemon = [d \in Daemons |-> "off"]
  /\ pid = [d \in Daemons |-> NoDaemon]
  /\ stranger = {}
  /\ maker = [x \in Dirs |-> NoDaemon]
  /\ copy = [x \in Dirs |-> NoVm]
  /\ todo = [d \in Daemons |-> {}]
  /\ doomed = [d \in Daemons |-> NoDir]
  /\ seq = [d \in Daemons |-> 0]
  /\ vmOf = [v \in Vms |-> "none"]
  /\ disk = [v \in Vms |-> NoVm]
  /\ before = [d \in Daemons |-> {}]
  /\ excused = {}
  /\ pidRaced = {}

-----------------------------------------------------------------------------

DaemonAlive(d) == daemon[d] \in {"reclaim", "serve"}

\* pid_is_alive: /proc has an entry for it.
PidIsAlive(p) == p \in stranger \/ \E d \in Daemons : DaemonAlive(d) /\ pid[d] = p

\* vm_scratch_dir_name.
DirOf(v) == <<pid[v[1]], v[2]>>

\* remove_dir_all, of the directory and the copy in it.
RemoveDir(x) ==
  /\ maker' = [maker EXCEPT ![x] = NoDaemon]
  /\ copy' = [copy EXCEPT ![x] = NoVm]
  /\ excused' = excused \ {x}

\* A process of ours is started and MicroVmLauncher::new lists the base.
DaemonStart(d, p) ==
  /\ daemon[d] = "off"
  /\ p \notin stranger /\ \A e \in Daemons : DaemonAlive(e) => pid[e] # p
  /\ daemon' = [daemon EXCEPT ![d] = "reclaim"]
  /\ pid' = [pid EXCEPT ![d] = p]
  /\ todo' = [todo EXCEPT ![d] = {x \in Dirs : maker[x] # NoDaemon}]
  /\ before' = [before EXCEPT ![d] = {e \in Daemons : daemon[e] = "dead"}]
  /\ pidRaced' = pidRaced \cup {q \in {p} : \E e \in Daemons : doomed[e][1] = p}
  /\ UNCHANGED <<stranger, maker, copy, doomed, seq, vmOf, disk, excused>>

\* A directory of a live process other than this one is left alone.
Retained(d, x) == x[1] # pid[d] /\ PidIsAlive(x[1])

\* reclaim_orphan_scratch: one entry is judged ...
Judge(d) ==
  /\ daemon[d] = "reclaim" /\ doomed[d] = NoDir
  /\ \E x \in todo[d] :
       /\ todo' = [todo EXCEPT ![d] = @ \ {x}]
       /\ IF Retained(d, x)
          THEN UNCHANGED doomed
          ELSE doomed' = [doomed EXCEPT ![d] = x]
       /\ excused' = excused \cup {y \in {x} : x[1] # pid[d] /\ PidIsAlive(x[1])}
  /\ UNCHANGED <<daemon, pid, stranger, maker, copy, seq, vmOf, disk, before, pidRaced>>

\* ... and removed,
RemoveDoomed(d) ==
  /\ daemon[d] = "reclaim" /\ doomed[d] # NoDir
  /\ RemoveDir(doomed[d])
  /\ doomed' = [doomed EXCEPT ![d] = NoDir]
  /\ UNCHANGED <<daemon, pid, stranger, todo, seq, vmOf, disk, before, pidRaced>>

\* ... or the removal fails and it is retained.
RemoveFails(d) ==
  /\ daemon[d] = "reclaim" /\ doomed[d] # NoDir
  /\ doomed' = [doomed EXCEPT ![d] = NoDir]
  /\ excused' = excused \cup {doomed[d]}
  /\ UNCHANGED <<daemon, pid, stranger, maker, copy, todo, seq, vmOf, disk, before, pidRaced>>

DirsReclaimed(d) ==
  /\ daemon[d] = "reclaim" /\ todo[d] = {} /\ doomed[d] = NoDir
  /\ daemon' = [daemon EXCEPT ![d] = "serve"]
  /\ UNCHANGED <<pid, stranger, maker, copy, todo, doomed, seq, vmOf, disk, before,
                 excused, pidRaced>>

-----------------------------------------------------------------------------

VmGoto(v, s) == vmOf' = [vmOf EXCEPT ![v] = s]

NextSeq(d) == seq[d] + 1

\* launch: fetch_add, and VmScratch::create for the first writable disk.
CreateScratch(v) ==
  /\ daemon[v[1]] = "serve" /\ vmOf[v] = "none" /\ seq[v[1]] = v[2]
  /\ seq' = [seq EXCEPT ![v[1]] = NextSeq(v[1])]
  /\ maker' = [maker EXCEPT ![DirOf(v)] = v[1]]
  /\ VmGoto(v, "dir")
  /\ UNCHANGED <<daemon, pid, stranger, copy, todo, doomed, disk, before, excused, pidRaced>>

\* The VmScratch guard is dropped: the removal may fail and is logged.
DropScratch(v) ==
  \/ RemoveDir(DirOf(v))
  \/ excused' = excused \cup {DirOf(v)} /\ UNCHANGED <<maker, copy>>

\* Mutant: an existing target is written over.
TargetExistsNot(x) == FALSE

\* clone_file refuses a target that exists.
TargetExists(x) == copy[x] # NoVm

\* attach_extra_disks: the copy is made, creating its parent; when it cannot be,
\* or a later disk fails, the guard is dropped on the way out.
CloneFile(v) ==
  /\ daemon[v[1]] = "serve" /\ vmOf[v] = "dir" /\ ~TargetExists(DirOf(v))
  /\ copy' = [copy EXCEPT ![DirOf(v)] = IF @ = NoVm THEN v ELSE @]
  /\ maker' = [maker EXCEPT ![DirOf(v)] = v[1]]
  /\ VmGoto(v, "copied")
  /\ UNCHANGED <<daemon, pid, stranger, todo, doomed, seq, disk, before, excused, pidRaced>>

\* The VMM is started with the copy, which it opens, and the steward answers.
Boot(v) ==
  /\ daemon[v[1]] = "serve" /\ vmOf[v] = "copied" /\ copy[DirOf(v)] # NoVm
  /\ disk' = [disk EXCEPT ![v] = copy[DirOf(v)]]
  /\ VmGoto(v, "running")
  /\ UNCHANGED <<daemon, pid, stranger, maker, copy, todo, doomed, seq, before, excused, pidRaced>>

\* The launch fails after the guard was made, the VMM (if any) gone first.
LaunchFails(v) ==
  /\ daemon[v[1]] = "serve" /\ vmOf[v] \in {"dir", "copied"}
  /\ DropScratch(v)
  /\ VmGoto(v, "gone")
  /\ UNCHANGED <<daemon, pid, stranger, todo, doomed, seq, disk, before, pidRaced>>

\* The guard goes after the VM, in shutdown and by field order in Drop.
MayDrop(v) == vmOf[v] = "stopped"

\* shutdown: vm.shutdown(), whatever its outcome, ...
StopVmm(v) ==
  /\ daemon[v[1]] = "serve" /\ vmOf[v] = "running"
  /\ VmGoto(v, "stopped")
  /\ disk' = [disk EXCEPT ![v] = NoVm]
  /\ UNCHANGED <<daemon, pid, stranger, maker, copy, todo, doomed, seq, before, excused, pidRaced>>

\* ... then drop(scratch).
DropAfterVmm(v) ==
  /\ daemon[v[1]] = "serve" /\ MayDrop(v)
  /\ DropScratch(v)
  /\ VmGoto(v, IF vmOf[v] = "stopped" THEN "gone" ELSE vmOf[v])
  /\ UNCHANGED <<daemon, pid, stranger, todo, doomed, seq, disk, before, pidRaced>>

-----------------------------------------------------------------------------

\* SIGKILL or power loss of the daemon alone: no Drop runs, its VMMs run on.
Killed(d) ==
  /\ DaemonAlive(d)
  /\ daemon' = [daemon EXCEPT ![d] = "dead"]
  /\ vmOf' = [v \in Vms |-> IF v[1] # d THEN vmOf[v]
                          ELSE IF vmOf[v] = "running" THEN "orphan"
                          ELSE IF vmOf[v] \in {"dir", "copied", "stopped"} THEN "gone"
                          ELSE vmOf[v]]
  /\ todo' = [todo EXCEPT ![d] = {}]
  /\ doomed' = [doomed EXCEPT ![d] = NoDir]
  /\ UNCHANGED <<pid, stranger, maker, copy, seq, disk, before, excused, pidRaced>>

OrphanExits(v) ==
  /\ vmOf[v] = "orphan"
  /\ VmGoto(v, "gone") /\ disk' = [disk EXCEPT ![v] = NoVm]
  /\ UNCHANGED <<daemon, pid, stranger, maker, copy, todo, doomed, seq, before, excused, pidRaced>>

\* The kernel gives a free pid to a process of somebody else's.
StrangerStarts(p) ==
  /\ stranger = {} /\ ~\E d \in Daemons : DaemonAlive(d) /\ pid[d] = p
  /\ \E x \in Dirs : x[1] = p /\ maker[x] # NoDaemon
  /\ stranger' = {p}
  /\ UNCHANGED <<daemon, pid, maker, copy, todo, doomed, seq, vmOf, disk, before, excused, pidRaced>>

StrangerExits ==
  /\ stranger # {} /\ stranger' = {}
  /\ UNCHANGED <<daemon, pid, maker, copy, todo, doomed, seq, vmOf, disk, before, excused, pidRaced>>

ScratchNext ==
  \/ \E d \in Daemons, p \in Pids : DaemonStart(d, p)
  \/ \E d \in Daemons :
       Judge(d) \/ RemoveDoomed(d) \/ RemoveFails(d) \/ DirsReclaimed(d) \/ Killed(d)
  \/ \E v \in Vms :
       \/ CreateScratch(v) \/ CloneFile(v) \/ Boot(v) \/ LaunchFails(v)
       \/ StopVmm(v) \/ DropAfterVmm(v) \/ OrphanExits(v)
  \/ \E p \in Pids : StrangerStarts(p)
  \/ StrangerExits

ScratchSpec == ScratchInit /\ [][ScratchNext]_scratchVars

-----------------------------------------------------------------------------
(* Properties *)

\* A disk the guest may write is private: no two VMMs, orphans of killed daemons
\* included, ever have the same copy open, however pids are recycled and whatever
\* removal fails (clone_file's refusal of an existing target).
CopyIsPrivate ==
  \A v, w \in Vms : v # w /\ disk[v] # NoVm => disk[v] # disk[w]

\* "Retain on doubt, never reap on doubt": the copy of a running VM of a live
\* daemon is not taken away, by its own teardown before the VMM is gone or by
\* another daemon's start-up, unless that one judged the pid before this daemon
\* was given it.
LiveCopySurvives ==
  \A v \in Vms : vmOf[v] = "running" /\ pid[v[1]] \notin pidRaced => copy[DirOf(v)] = disk[v]

\* What a killed daemon left is gone once a daemon that started after its death
\* serves, but for what could not be removed and what a recycled pid protects.
ResidueIsReclaimed ==
  \A d \in Daemons, x \in Dirs :
    daemon[d] = "serve" /\ maker[x] \in before[d] => x \in excused

\* Scratch copies are private, stay while they are used, and go afterwards.
ScratchSafe ==
  /\ ScratchTypeOK
  /\ CopyIsPrivate
  /\ LiveCopySurvives
  /\ ResidueIsReclaimed
=============================================================================
