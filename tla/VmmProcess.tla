----------------------------- MODULE VmmProcess -----------------------------
(***************************************************************************)
(* The processes of one VM and the control requests sent to them, as the   *)
(* four backends (Cloud Hypervisor, Firecracker, QEMU, crosvm) run them    *)
(* through the helpers they share in vmm/mod.rs.                           *)
(*                                                                         *)
(* A backend spawns the VMM as the leader of a process group of its own,   *)
(* registers it with its cgroup and waits for its control socket; only     *)
(* then does an instance exist whose Drop kills the group.  QEMU starts    *)
(* its vsock daemon and the virtiofsd of a share first, held by guards in  *)
(* between; Cloud Hypervisor starts its virtiofsd after the VMM.  A killed *)
(* process keeps its pid until it is reaped; from then on the kernel may   *)
(* give the pid to another group, which a later kill(-pgid) would hit.     *)
(*                                                                         *)
(* A request to a VMM succeeds, is refused, or times out; one that timed   *)
(* out may have taken effect.  Every await may also be the last one: the   *)
(* future that runs a creation, a kill or a snapshot can be dropped there. *)
(***************************************************************************)
EXTENDS Naturals, FiniteSets

CONSTANTS
    VmmBackends,    \* the backends of the instance, of {"ch", "fc", "qemu", "crosvm"}
    MaxCreates      \* bound: creations of the VM, one after the other

Roles == {"vmm", "daemon", "fs"}
NoConfig == [backend |-> "none", daemon |-> FALSE, share |-> FALSE, usb |-> FALSE,
             restored |-> FALSE]

VARIABLES
    config,     \* what is being created: backend, vsock daemon, share, USB, restore
    phase,      \* where the creation, or the operation on the instance, stands
    proc,       \* a process: "none", "live", "zombie", "gone" (reaped), "recycled"
    reaped,     \* VmmProcessGroup.reaped of the VMM and of the vsock daemon
    owned,      \* the processes a guard, an instance or a running future still owns
    guest,      \* "none", "stopped", "paused", "running", or "held" by a snapshot
    devices,    \* crosvm: the devices are awake
    fullNext,   \* CrosvmInstance.restored: the next resume is a full one
    driver,     \* the host driver of the USB device: "bound", "detached", "warned"
    claim,      \* UsbHostClaim: a driver was bound when the creation began
    stray,      \* where from a signal reached a process group of someone else
    unowned,     \* how processes came to run with no owner
    stranded,   \* why the last snapshot left the guest held
    creates     \* creations so far

vmmVars == <<config, phase, proc, reaped, owned, guest, devices, fullNext, driver,
             claim, stray, unowned, stranded, creates>>

Configs ==
    {c \in [backend : VmmBackends, daemon : BOOLEAN, share : BOOLEAN, usb : BOOLEAN,
             restored : BOOLEAN] :
        /\ c.daemon \/ c.usb => c.backend = "qemu"
        /\ c.share => c.backend \in {"qemu", "ch"}
        /\ c.restored => ~c.daemon /\ ~c.share /\ ~c.usb}

VmmTypeOK ==
    /\ config \in Configs \cup {NoConfig}
    /\ phase \in {"idle", "daemon", "fs", "await", "configure", "ready",
                  "killing", "killingDaemon", "take", "unpause"}
    /\ proc \in [Roles -> {"none", "live", "zombie", "gone", "recycled"}]
    /\ reaped \in [Roles -> BOOLEAN]
    /\ owned \subseteq Roles
    /\ guest \in {"none", "stopped", "paused", "running", "held"}
    /\ devices \in BOOLEAN /\ fullNext \in BOOLEAN
    /\ driver \in {"bound", "detached", "warned"} /\ claim \in BOOLEAN
    /\ stray \subseteq {"creation", "instance"}
    /\ unowned \subseteq {"failure", "cancelled"}
    /\ stranded \in {"no", "pause", "resume", "cancelled"}
    /\ creates \in 0 .. MaxCreates
    /\ phase = "idle" <=> owned = {}
    /\ \A r \in Roles : reaped[r] => proc[r] \in {"gone", "recycled"}

VmmInit ==
    /\ config = NoConfig /\ phase = "idle"
    /\ proc = [r \in Roles |-> "none"] /\ reaped = [r \in Roles |-> FALSE]
    /\ owned = {} /\ guest = "none" /\ devices = TRUE /\ fullNext = FALSE
    /\ driver = "bound" /\ claim = FALSE /\ stray = {} /\ unowned = {} /\ stranded = "no"
    /\ creates = 0

-----------------------------------------------------------------------------
(* Signals and reaping. *)

\* kill(-pgid): kills a live group, finds nobody at a free pid.
Signalled(p) == IF p = "live" THEN "zombie" ELSE p

\* A signal to the group of r, sent by code of the given kind.
Stray(p, site) == IF p = "recycled" THEN {site} ELSE {}

\* waitpid: only a process that is still a child can be reaped; the caller has
\* just killed it, so it does not block.
Waited(p) == IF p = "zombie" THEN "gone" ELSE p

\* reap_process_group signals the group whatever became of its leader, and
\* reaps the leader unless the Child has already given its pid up.
Reaped(p) == Waited(Signalled(p))
ReapedOnFailure(p) == Reaped(p)

\* VmmProcessGroup.reap_now and kill_and_wait signal only an unreaped group.
Armed(r, flags) == ~flags[r]

-----------------------------------------------------------------------------
(* Creation. *)

\* What is waited for in a phase, and the phase that waits for a process.
Awaited == IF phase = "await" THEN "vmm" ELSE phase
Waiting == {"daemon", "fs", "await"}
AwaitedIn(r) == IF r = "vmm" THEN "await" ELSE r

\* QEMU's helpers come before the VMM.
First(c) == IF c.daemon THEN "daemon" ELSE IF c.share /\ c.backend = "qemu" THEN "fs" ELSE "vmm"

\* Vmm::create and Vmm::restore up to the first await: QEMU records the USB
\* bindings, and the first process is spawned.
Create(c) ==
    /\ phase = "idle" /\ creates < MaxCreates
    /\ config' = c /\ creates' = creates + 1
    /\ reaped' = [r \in Roles |-> FALSE]
    /\ stranded' = "no" /\ fullNext' = FALSE /\ devices' = TRUE
    /\ claim' = (c.usb /\ driver = "bound")
    /\ proc' = [r \in Roles |-> IF r = First(c) THEN "live" ELSE "none"]
    /\ owned' = {First(c)} /\ phase' = AwaitedIn(First(c))
    /\ UNCHANGED <<guest, driver, stray, unowned>>

\* What the unfinished creation owns is reaped, or dropped unkilled.  The group
\* of virtiofsd is read from the live Child: a reaped one is not signalled.
AbandonCreate(reap, why) ==
    /\ stray' = stray \cup UNION {Stray(proc[r], "creation") : r \in reap \ {"fs"}}
    /\ proc' = [r \in Roles |-> IF r \in reap THEN ReapedOnFailure(proc[r]) ELSE proc[r]]
    /\ unowned' = unowned \cup {why : r \in {x \in owned : proc'[x] = "live"}}
    /\ owned' = {} /\ phase' = "idle" /\ guest' = "none"
    /\ UNCHANGED <<config, reaped, devices, fullNext, driver, claim, stranded, creates>>

\* The socket of a helper is there and the next process is spawned: a guard
\* owns the helper from now on.
HelperReady ==
    /\ phase \in {"daemon", "fs"} /\ proc[phase] = "live"
    /\ LET next == IF phase = "daemon" /\ config.share THEN "fs" ELSE "vmm" IN
         IF next \in owned
           THEN phase' = "configure" /\ UNCHANGED <<proc, owned>>
           ELSE /\ proc' = [proc EXCEPT ![next] = "live"]
                /\ owned' = owned \cup {next} /\ phase' = AwaitedIn(next)
    /\ UNCHANGED <<config, reaped, guest, devices, fullNext, driver, claim, stray, unowned,
                   stranded, creates>>

\* wait_for_socket meets an exited process: try_wait has reaped it, and the
\* poll that returns the error leaves its pid free.
EarlyExit ==
    /\ phase \in Waiting /\ proc[Awaited] = "zombie"
    /\ proc' = [proc EXCEPT ![Awaited] = "gone"]
    /\ UNCHANGED <<config, phase, reaped, owned, guest, devices, fullNext, driver, claim,
                   stray, unowned, stranded, creates>>

\* add_task fails, the deadline passes, or the process had exited: the group is
\* killed and reaped, and the guards reap the helpers; so do they when a
\* step between two processes fails.
AwaitFails == phase \in Waiting /\ AbandonCreate(owned, "failure")

\* The future is dropped: a Child kills nothing on drop, a guard does.
CreateCancelled ==
    /\ phase \in Waiting /\ proc[Awaited] \in {"live", "zombie"}
    /\ AbandonCreate(owned \ {Awaited}, "cancelled")

\* The control socket is there: the instance exists.  QEMU and crosvm come up
\* stopped, crosvm with its devices asleep; a restored guest is paused.  Cloud
\* Hypervisor starts its virtiofsd now.
SocketReady ==
    /\ phase = "await" /\ proc["vmm"] = "live"
    /\ phase' = IF config.share /\ "fs" \notin owned THEN "fs" ELSE "configure"
    /\ IF phase' = "fs" THEN /\ proc' = [proc EXCEPT !["fs"] = "live"]
                             /\ owned' = owned \cup {"fs"}
                        ELSE UNCHANGED <<proc, owned>>
    /\ guest' = IF config.restored THEN "paused" ELSE "stopped"
    /\ devices' = (config.backend # "crosvm")
    /\ fullNext' = (config.backend = "crosvm" /\ config.restored)
    /\ UNCHANGED <<config, reaped, driver, claim, stray, unowned, stranded, creates>>

\* The configuration requests (vm.create, the Firecracker PUTs, the snapshot
\* load, the incoming migration) all succeed.
Configured ==
    /\ phase = "configure" /\ proc["vmm"] = "live"
    /\ phase' = "ready"
    /\ UNCHANGED <<config, proc, reaped, owned, guest, devices, fullNext, driver, claim,
                   stray, unowned, stranded, creates>>

-----------------------------------------------------------------------------
(* The end of an instance. *)

\* Mutant: the claim is dropped without its restore.
RestoredNot(d) == {d}
\* UsbHostClaim.restore, after the VMM is gone: the drivers are bound again, or
\* the failure is logged.
Restored(d) == IF claim /\ d # "bound" THEN {"bound", "warned"} ELSE {d}

\* Drop of the instance: the VMM group, then the USB drivers, then the daemon.
DropInstance ==
    /\ phase \in {"configure", "ready"}
    /\ LET hit == {r \in owned : Armed(r, reaped)} IN
         /\ stray' = stray \cup UNION {Stray(proc[r], "instance") : r \in hit}
         /\ proc' = [r \in Roles |-> IF r \in hit THEN Reaped(proc[r]) ELSE proc[r]]
    /\ \E d \in Restored(driver) : driver' = d
    /\ unowned' = unowned \cup {"failure" : r \in {x \in owned : proc'[x] = "live"}}
    /\ owned' = {} /\ phase' = "idle" /\ guest' = "none"
    /\ UNCHANGED <<config, reaped, devices, fullNext, claim, stranded, creates>>

\* VmInstance::kill up to its wait: QEMU's quit and crosvm's stop may end the
\* VMM by themselves, the signal ends it for certain.
Kill ==
    /\ phase = "ready"
    /\ phase' = "killing"
    /\ IF Armed("vmm", reaped)
         THEN /\ stray' = stray \cup Stray(proc["vmm"], "instance")
              /\ proc' = [proc EXCEPT !["vmm"] = Signalled(@)]
         ELSE UNCHANGED <<stray, proc>>
    /\ UNCHANGED <<config, reaped, owned, guest, devices, fullNext, driver, claim, unowned,
                   stranded, creates>>

\* The leader is reaped and recorded as such; QEMU gives the USB drivers back,
\* takes its daemon out of the instance and kills it.
KillWaited ==
    /\ phase = "killing"
    /\ proc["vmm"] # "live"
    /\ reaped' = [reaped EXCEPT !["vmm"] = TRUE]
    /\ \E d \in Restored(driver) : driver' = d
    /\ IF "daemon" \in owned
         THEN /\ phase' = "killingDaemon" /\ owned' = owned \ {"daemon"}
              /\ stray' = stray \cup Stray(proc["daemon"], "instance")
              /\ proc' = [r \in Roles |-> IF r = "vmm" THEN Waited(proc[r])
                                          ELSE Signalled(proc[r])]
         ELSE /\ phase' = "ready" /\ UNCHANGED <<stray, owned>>
              /\ proc' = [proc EXCEPT !["vmm"] = Waited(@)]
    /\ UNCHANGED <<config, guest, devices, fullNext, claim, unowned, stranded, creates>>

KillDone ==
    /\ phase = "killingDaemon"
    /\ phase' = "ready"
    /\ proc' = [proc EXCEPT !["daemon"] = Waited(@)]
    /\ reaped' = [reaped EXCEPT !["daemon"] = TRUE]
    /\ UNCHANGED <<config, owned, guest, devices, fullNext, driver, claim, stray, unowned,
                   stranded, creates>>

\* The future of kill is dropped at one of its two waits; a daemon already
\* taken out of the instance is dropped with it.
KillCancelled ==
    /\ phase \in {"killing", "killingDaemon"}
    /\ phase' = "ready"
    /\ UNCHANGED <<config, proc, reaped, owned, guest, devices, fullNext, driver, claim, stray,
                   unowned, stranded, creates>>

\* VmInstance::has_exited: try_wait reaps an exited leader, and the group is
\* recorded as reaped.
Noted(flags) == [flags EXCEPT !["vmm"] = TRUE]
HasExited ==
    /\ phase = "ready" /\ proc["vmm"] = "zombie"
    /\ proc' = [proc EXCEPT !["vmm"] = "gone"]
    /\ reaped' = Noted(reaped)
    /\ UNCHANGED <<config, phase, owned, guest, devices, fullNext, driver, claim, stray, unowned,
                   stranded, creates>>

-----------------------------------------------------------------------------
(* Requests to a running VMM. *)

\* What a request can come to: it reports success, it is refused, or it times
\* out with or without having taken effect.
Outcomes == {[ok |-> TRUE, done |-> TRUE], [ok |-> FALSE, done |-> FALSE],
             [ok |-> FALSE, done |-> TRUE]}
Answer == IF proc["vmm"] = "live" THEN Outcomes ELSE {[ok |-> FALSE, done |-> FALSE]}

\* boot is refused after a restore by Cloud Hypervisor and Firecracker; for
\* QEMU it is cont, for crosvm a full resume.
Boot ==
    /\ phase = "ready" /\ guest \in {"stopped", "paused"}
    /\ config.restored => config.backend \in {"qemu", "crosvm"}
    /\ \E a \in Answer :
          /\ guest' = IF a.done THEN "running" ELSE guest
          /\ devices' = (devices \/ a.done)
    /\ UNCHANGED <<config, phase, proc, reaped, owned, fullNext, driver, claim, stray, unowned,
                   stranded, creates>>

\* pause stops the vCPUs; crosvm's devices stay as they are.
Pause ==
    /\ phase = "ready" /\ guest = "running"
    /\ \E a \in Answer : guest' = IF a.done THEN "paused" ELSE guest
    /\ UNCHANGED <<config, phase, proc, reaped, owned, devices, fullNext, driver, claim, stray,
                   unowned, stranded, creates>>

\* crosvm refuses a resume of the vCPUs while the devices are asleep.
Resumable(full) == devices \/ full

\* crosvm resumes in full while its restore is not known to be complete, and
\* takes the note back once a resume succeeded.
FullAfter(a) == fullNext /\ ~a.ok
Resume ==
    /\ phase = "ready" /\ guest \in {"paused", "held"}
    /\ \E a \in {x \in Answer : x.ok \/ x.done => Resumable(fullNext)} :
          /\ guest' = IF a.done THEN "running" ELSE guest
          /\ devices' = (devices \/ a.done)
          /\ fullNext' = FullAfter(a)
    /\ UNCHANGED <<config, phase, proc, reaped, owned, driver, claim, stray, unowned, stranded,
                   creates>>

\* A pause request that reported failure ends the snapshot at once, except in
\* Cloud Hypervisor, whose snapshot still goes on to the resume.
AfterPause(a) ==
    IF a.ok THEN "take" ELSE IF config.backend = "ch" THEN "unpause" ELSE "ready"

\* snapshot, its pause.  Only a VM without vhost-user devices gets this far, so
\* one with a vsock daemon or a share does not.
SnapshotPause ==
    /\ phase = "ready" /\ guest \in {"running", "paused"} /\ ~config.daemon /\ ~config.share
    /\ \E a \in Answer :
          /\ phase' = AfterPause(a)
          /\ guest' = IF a.done THEN "held" ELSE guest
          /\ devices' = (devices /\ ~(a.done /\ config.backend = "crosvm"))
          /\ stranded' = IF a.done /\ phase' = "ready" THEN "pause" ELSE "no"
    /\ UNCHANGED <<config, proc, reaped, owned, fullNext, driver, claim, stray, unowned, creates>>

\* The state is written, with the backend's sidecar file, or it is not.
SnapshotTake ==
    /\ phase = "take"
    /\ phase' = "unpause"
    /\ UNCHANGED <<config, proc, reaped, owned, guest, devices, fullNext, driver, claim, stray,
                   unowned, stranded, creates>>

\* The source is resumed, in full; a failure is only logged.
SnapshotResume ==
    /\ phase = "unpause"
    /\ phase' = "ready"
    /\ \E a \in Answer :
          /\ guest' = IF a.done THEN "running" ELSE guest
          /\ devices' = (devices \/ a.done)
          /\ stranded' = IF ~a.done /\ guest = "held" THEN "resume" ELSE "no"
    /\ UNCHANGED <<config, proc, reaped, owned, fullNext, driver, claim, stray, unowned, creates>>

\* The future of snapshot is dropped before its resume.
SnapshotCancelled ==
    /\ phase \in {"take", "unpause"}
    /\ phase' = "ready" /\ stranded' = "cancelled"
    /\ UNCHANGED <<config, proc, reaped, owned, guest, devices, fullNext, driver, claim, stray,
                   unowned, creates>>

-----------------------------------------------------------------------------
(* What the host and the VMM do. *)

\* A process ends by itself: the guest powers off, QEMU quits, a crash.
ProcExit(r) ==
    /\ proc[r] = "live" /\ r \in owned
    /\ proc' = [proc EXCEPT ![r] = "zombie"]
    /\ UNCHANGED <<config, phase, reaped, owned, guest, devices, fullNext, driver, claim, stray,
                   unowned, stranded, creates>>

\* The kernel gives a free pid to a process group of someone else.
Recycle(r) ==
    /\ proc[r] = "gone"
    /\ proc' = [proc EXCEPT ![r] = "recycled"]
    /\ UNCHANGED <<config, phase, reaped, owned, guest, devices, fullNext, driver, claim, stray,
                   unowned, stranded, creates>>

\* QEMU opens the USB device and the host driver is detached from it.
UsbClaimed ==
    /\ config.usb /\ "vmm" \in owned /\ proc["vmm"] = "live" /\ driver = "bound"
    /\ driver' = "detached"
    /\ UNCHANGED <<config, phase, proc, reaped, owned, guest, devices, fullNext, claim, stray,
                   unowned, stranded, creates>>

VmmNext ==
    \/ \E c \in Configs : Create(c)
    \/ HelperReady \/ EarlyExit \/ AwaitFails \/ CreateCancelled
    \/ SocketReady \/ Configured
    \/ DropInstance \/ Kill \/ KillWaited \/ KillDone \/ KillCancelled \/ HasExited
    \/ Boot \/ Pause \/ Resume
    \/ SnapshotPause \/ SnapshotTake \/ SnapshotResume \/ SnapshotCancelled
    \/ \E r \in Roles : ProcExit(r) \/ Recycle(r)
    \/ UsbClaimed

VmmSpec == VmmInit /\ [][VmmNext]_vmmVars

-----------------------------------------------------------------------------
(* Properties. *)

\* kill, has_exited and Drop never signal a process group the kernel may have
\* given to someone else: every path that reaps the leader records it.
InstanceSparesStrangers == "instance" \notin stray

\* No process of the VM runs on without an owner, however a creation fails and
\* an instance ends; only a creation whose future is dropped while it waits for
\* a socket leaves the process it waits for.
NothingRunsUnowned == unowned \subseteq {"cancelled"}

\* A snapshot gives the guest back running: it is left paused only where the
\* resume failed or the future was dropped, and, outside Cloud Hypervisor,
\* where the pause timed out after taking effect.
SnapshotResumesGuest ==
    phase = "ready" /\ guest = "held" /\ proc["vmm"] = "live" =>
        \/ stranded \in {"resume", "cancelled"}
        \/ stranded = "pause" /\ config.backend # "ch"

\* A snapshot leaves a live guest paused only where its own resume failed or
\* its future was dropped: a paused VM left by a failed snapshot is wedged.
SnapshotNeverStrands ==
    phase = "ready" /\ guest = "held" /\ proc["vmm"] = "live" =>
        stranded \in {"resume", "cancelled"}

\* A restored crosvm guest whose devices are still asleep is resumed in full,
\* however many resumes have failed.
RestoreCanBeCompleted ==
    phase = "ready" /\ guest = "paused" /\ ~devices => fullNext

\* The host driver an instance displaced is bound again by the time the
\* instance is gone, or its loss was logged, and never while the VMM still
\* holds the device.
DriverGivenBack ==
    /\ phase \in {"configure", "ready"} /\ phase' = "idle" /\ claim => driver' # "detached"
    /\ driver' = "bound" /\ driver # "bound" => proc'["vmm"] # "live"

\* The processes of an instance and its guest, through creations that fail,
\* snapshots and restores: none runs unowned, no stranger is signalled, and the
\* guest comes back.
VmmSafe ==
  /\ VmmTypeOK
  /\ InstanceSparesStrangers
  /\ NothingRunsUnowned
  /\ SnapshotResumesGuest
  /\ RestoreCanBeCompleted
=============================================================================
