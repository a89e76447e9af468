------------------------------ MODULE Registry ------------------------------
(***************************************************************************)
(* The daemon's VM registry (vmcell-daemon/src/registry.rs): the table of  *)
(* owned VMs and every operation that a request drives through it.         *)
(*                                                                         *)
(* A request is a process: a control point pc[r] and its parameters req[r].*)
(* A step is the code between two points where another thread's step can   *)
(* be told apart: an await, or the release of one of the three locks       *)
(*   - vms: the async mutex of the table.  Only delete_artifact_if_unused  *)
(*     holds it across distinguishable steps, so vmsLock is that holder;   *)
(*   - slot.inner: the async mutex of one VM's handle (lock[v]);           *)
(*   - slot.status: a short synchronous mutex, held within one step.       *)
(* Waiters on slot.inner are served in any order, which is weaker than the *)
(* FIFO order of the tokio mutex.                                          *)
(*                                                                         *)
(* A kernel, rootfs or extra-disk artifact is one name, used[v]: the pins  *)
(* predicate treats the three alike.  Names of artifacts and snapshot      *)
(* prefixes share the one namespace of the store.                          *)
(***************************************************************************)
EXTENDS Naturals, FiniteSets

CONSTANTS
  Reqs,        \* requests, each run once
  Vms,         \* ids that mint_id may hand out; never reused
  Names,       \* artifact names
  Uploaded,    \* names that are files of the store at the start
  Ops,         \* the operations that clients call
  Cancellable, \* a client's disconnect drops the handler's future
  None

OpKinds == {"create", "create_exec", "run", "exec", "stats", "pause", "resume", "snapshot",
            "destroy", "delete", "shutdown_all"}

ASSUME RegistryConstants ==
  /\ Uploaded \subseteq Names
  /\ Ops \subseteq OpKinds
  /\ Cancellable \in BOOLEAN
  /\ None \notin Reqs \cup Vms \cup Names
  /\ IsFiniteSet(Reqs)

VARIABLES
  pc,        \* [Reqs -> control point]
  req,       \* [Reqs -> parameters and, once there is one, the outcome]
  todo,      \* [Reqs -> the slots a shutdown_all has still to tear down]
  table,     \* the ids in vms
  state,     \* [Vms -> SlotStatus.state]
  pin,       \* [Vms -> SlotStatus.snapshot_prefix]
  lock,      \* [Vms -> the request that holds slot.inner]
  handle,    \* [Vms -> what became of the VM handle]
  used,      \* [Vms -> the artifact the slot pins]
  vmsLock,   \* the delete that holds the vms mutex
  inflight,  \* launches_in_flight
  store      \* [Names -> what the artifact directory holds under the name]

slotVars == <<table, state, pin, lock, handle, used>>
vars == <<pc, req, todo, slotVars, vmsLock, inflight, store>>

VmState == {"Ready", "Paused", "Snapshotting", "Destroying"}
HandleState == {"unborn", "live", "stopping", "gone"}
Entry == {"absent", "file", "emptydir", "dir"}
Dirs == {"emptydir", "dir"}

Pcs == {"idle", "launch", "insert", "lookup", "check", "wait", "drive",
        "mkdir", "mark", "write", "settle", "rmdir", "readback",
        "dlookup", "dmark", "dwait", "dremove", "dshutdown",
        "scan", "remove", "list", "next", "done", "cancelled"}

Final == {"done", "cancelled"}

\* The control points at which the request holds slot.inner of its VM.
Holding == {"drive", "mkdir", "mark", "write", "settle", "rmdir", "readback",
            "dremove", "dshutdown"}

\* ... holds a SnapshotPin.
Pinning == {"mkdir", "mark", "write", "settle", "rmdir", "readback"}

\* ... holds a LaunchGuard.
Launching == {"launch", "insert"}

TypeOK ==
  /\ pc \in [Reqs -> Pcs]
  /\ req \in [Reqs -> [op: OpKinds \cup {None}, vm: Vms \cup {None},
                       name: Names \cup {None}, res: {"none", "ok", "err"}]]
  /\ todo \in [Reqs -> SUBSET Vms]
  /\ table \in SUBSET Vms
  /\ state \in [Vms -> VmState]
  /\ pin \in [Vms -> Names \cup {None}]
  /\ lock \in [Vms -> Reqs \cup {None}]
  /\ handle \in [Vms -> HandleState]
  /\ used \in [Vms -> Names \cup {None}]
  /\ vmsLock \in Reqs \cup {None}
  /\ inflight \in Nat
  /\ store \in [Names -> Entry]

Init ==
  /\ pc = [r \in Reqs |-> "idle"]
  /\ req = [r \in Reqs |-> [op |-> None, vm |-> None, name |-> None, res |-> "none"]]
  /\ todo = [r \in Reqs |-> {}]
  /\ table = {}
  /\ state = [v \in Vms |-> "Ready"]
  /\ pin = [v \in Vms |-> None]
  /\ lock = [v \in Vms |-> None]
  /\ handle = [v \in Vms |-> "unborn"]
  /\ used = [v \in Vms |-> None]
  /\ vmsLock = None
  /\ inflight = 0
  /\ store = [n \in Names |-> IF n \in Uploaded THEN "file" ELSE "absent"]

-----------------------------------------------------------------------------
(* VmSlot and its helpers *)

Op(r) == req[r].op
Vm(r) == req[r].vm
Name(r) == req[r].name

Goto(r, p) == pc' = [pc EXCEPT ![r] = p]

\* set_state: assigns whatever the state was.
SetState(v, s) == state' = [state EXCEPT ![v] = s]

\* transition_from: leaves a state that is no longer `from` alone.
TransitionFrom(v, from, to) ==
  state' = [state EXCEPT ![v] = IF state[v] = from THEN to ELSE state[v]]

\* The state require_state asks for; stats asks for none.
Want(o) == IF o = "resume" THEN {"Paused"} ELSE IF o = "stats" THEN VmState ELSE {"Ready"}

Pins(v, n) == used[v] = n \/ pin[v] = n

InUse(n) == \E v \in table : Pins(v, n)

SetLock(v, holder) == lock' = [lock EXCEPT ![v] = holder]

\* The create requests: no command, an inline command, an ephemeral one-shot.
Creates == {"create", "create_exec", "run"}

\* Mutant: a one-shot VM is torn down only after a command that ran.
AfterOpKeepsFailed(r, res) ==
  IF pc[r] = "drive" /\ Op(r) = "run" /\ res = "ok" THEN "dlookup"
  ELSE IF Op(r) = "shutdown_all" THEN "next" ELSE "done"

\* Where a request goes when the operation it made on its VM ends with `res`:
\* a create tears down a one-shot VM and one whose command failed to run,
\* shutdown_all goes on to its next slot, every other request has ended.
AfterOp(r, res) ==
  IF pc[r] \in {"lookup", "check", "wait", "drive"}
     /\ (Op(r) = "run" \/ (Op(r) = "create_exec" /\ res = "err"))
  THEN "dlookup"
  ELSE IF Op(r) = "shutdown_all" THEN "next" ELSE "done"

\* The first outcome of a request is the one it reports.
Return(r, res) ==
  /\ Goto(r, AfterOp(r, res))
  /\ req' = [req EXCEPT ![r].res = IF req[r].res = "none" THEN res ELSE req[r].res]

-----------------------------------------------------------------------------
(* Arrival of a request *)

EntryPoint(o) ==
  CASE o = "destroy" -> "dlookup"
    [] o = "delete" -> "scan"
    [] o = "shutdown_all" -> "list"
    [] OTHER -> "lookup"

\* A client calls with an id it has been told of; a create begins by resolving
\* its artifacts, refuses one that is not a file, and claims the LaunchGuard.
Arrive(r, o, v, n) ==
  /\ pc[r] = "idle"
  /\ IF o \in Creates \cup {"delete", "shutdown_all"} THEN v = None ELSE v \in table
  /\ IF o \in Creates \cup {"delete", "snapshot"} THEN n # None ELSE n = None
  /\ req' = [req EXCEPT ![r] = [op |-> o, vm |-> v, name |-> n, res |-> "none"]]
  /\ IF o \in Creates
     THEN IF store[n] = "file"
          THEN Goto(r, "launch") /\ inflight' = inflight + 1
          ELSE Goto(r, "done") /\ UNCHANGED inflight
     ELSE Goto(r, EntryPoint(o)) /\ UNCHANGED inflight
  /\ UNCHANGED <<todo, slotVars, vmsLock, store>>

-----------------------------------------------------------------------------
(* create *)

\* Mutant: the LaunchGuard is dropped as soon as the VM is up.
LaunchOkDropsGuard(r, v) ==
  /\ pc[r] = "launch"
  /\ handle[v] = "unborn"
  /\ handle' = [handle EXCEPT ![v] = "live"]
  /\ used' = [used EXCEPT ![v] = Name(r)]
  /\ req' = [req EXCEPT ![r].vm = v]
  /\ Goto(r, "insert")
  /\ inflight' = inflight - 1
  /\ UNCHANGED <<todo, table, state, pin, lock, vmsLock, store>>

LaunchOk(r, v) ==
  /\ pc[r] = "launch"
  /\ handle[v] = "unborn"
  /\ handle' = [handle EXCEPT ![v] = "live"]
  /\ used' = [used EXCEPT ![v] = Name(r)]
  /\ req' = [req EXCEPT ![r].vm = v]
  /\ Goto(r, "insert")
  /\ UNCHANGED <<todo, table, state, pin, lock, vmsLock, inflight, store>>

LaunchFail(r) ==
  /\ pc[r] = "launch"
  /\ inflight' = inflight - 1
  /\ Return(r, "err")
  /\ UNCHANGED <<todo, slotVars, vmsLock, store>>

\* The slot enters the table and the LaunchGuard is dropped; an inline command
\* then runs as an ordinary exec of the new id.
Insert(r) ==
  /\ pc[r] = "insert"
  /\ vmsLock = None
  /\ table' = table \cup {Vm(r)}
  /\ inflight' = inflight - 1
  /\ Goto(r, IF Op(r) = "create" THEN "done" ELSE "lookup")
  /\ UNCHANGED <<req, todo, state, pin, lock, handle, used, vmsLock, store>>

-----------------------------------------------------------------------------
(* exec, stats, pause, resume, and the admission of snapshot *)

\* slot(): the Arc is cloned under the table's mutex.
Lookup(r) ==
  /\ pc[r] = "lookup"
  /\ vmsLock = None
  /\ IF Vm(r) \in table
     THEN Goto(r, "check") /\ UNCHANGED req
     ELSE Return(r, "err")
  /\ UNCHANGED <<todo, slotVars, vmsLock, inflight, store>>

\* The first require_state, before the wait for slot.inner.
Check(r) ==
  /\ pc[r] = "check"
  /\ IF state[Vm(r)] \in Want(Op(r))
     THEN Goto(r, "wait") /\ UNCHANGED req
     ELSE Return(r, "err")
  /\ UNCHANGED <<todo, slotVars, vmsLock, inflight, store>>

\* Mutant: the VM is driven on the strength of the first check alone.
AdmitUnchecked(r) ==
  /\ pc[r] = "wait"
  /\ lock[Vm(r)] = None
  /\ SetLock(Vm(r), r)
  /\ Goto(r, IF Op(r) = "snapshot" THEN "mkdir" ELSE "drive")
  /\ pin' = [pin EXCEPT ![Vm(r)] = IF Op(r) = "snapshot" THEN Name(r) ELSE pin[Vm(r)]]
  /\ UNCHANGED <<req, todo, table, state, handle, used, vmsLock, inflight, store>>

\* slot.inner is granted and the state is required again.  A snapshot pins its
\* prefix; the other operations ask for the handle, and a VM that has lost it
\* is NotFound.  A refusal lets slot.inner go.
Admit(r) ==
  /\ pc[r] = "wait"
  /\ lock[Vm(r)] = None
  /\ LET v == Vm(r)
         admitted == /\ state[v] \in Want(Op(r))
                     /\ Op(r) = "snapshot" \/ handle[v] = "live"
     IN  IF admitted
         THEN /\ SetLock(v, r)
              /\ Goto(r, IF Op(r) = "snapshot" THEN "mkdir" ELSE "drive")
              /\ pin' = [pin EXCEPT ![v] = IF Op(r) = "snapshot" THEN Name(r) ELSE pin[v]]
              /\ UNCHANGED req
         ELSE Return(r, "err") /\ UNCHANGED <<lock, pin>>
  /\ UNCHANGED <<todo, table, state, handle, used, vmsLock, inflight, store>>

\* Mutant: the error path leaves slot.inner locked.
DriveKeepsLock(r, res) ==
  /\ pc[r] = "drive"
  /\ SetLock(Vm(r), IF res = "ok" THEN None ELSE r)
  /\ Return(r, res)
  /\ UNCHANGED <<todo, table, state, pin, handle, used, vmsLock, inflight, store>>

\* The handle's verb returns; pause and resume record the new state unless the
\* VM has been marked meanwhile.
Drive(r, res) ==
  /\ pc[r] = "drive"
  /\ IF res = "ok" /\ Op(r) = "pause" THEN TransitionFrom(Vm(r), "Ready", "Paused")
     ELSE IF res = "ok" /\ Op(r) = "resume" THEN TransitionFrom(Vm(r), "Paused", "Ready")
     ELSE UNCHANGED state
  /\ SetLock(Vm(r), None)
  /\ Return(r, res)
  /\ UNCHANGED <<todo, table, pin, handle, used, vmsLock, inflight, store>>

-----------------------------------------------------------------------------
(* snapshot, once it holds slot.inner and its pin *)

\* The SnapshotPin, then slot.inner, are dropped and the call returns.
EndSnapshot(r, res) ==
  /\ pin' = [pin EXCEPT ![Vm(r)] = None]
  /\ SetLock(Vm(r), None)
  /\ Return(r, res)

\* create_dir: a name that exists is refused by the kernel.
Mkdir(r) ==
  /\ pc[r] = "mkdir"
  /\ IF store[Name(r)] = "absent"
     THEN /\ store' = [store EXCEPT ![Name(r)] = "emptydir"]
          /\ Goto(r, "mark")
          /\ UNCHANGED <<req, pin, lock>>
     ELSE EndSnapshot(r, "err") /\ UNCHANGED store
  /\ UNCHANGED <<todo, table, state, handle, used, vmsLock, inflight>>

\* handle_mut, then set_state(Snapshotting), whatever the state is by now.
Mark(r) ==
  /\ pc[r] = "mark"
  /\ IF handle[Vm(r)] = "live"
     THEN SetState(Vm(r), "Snapshotting") /\ Goto(r, "write")
     ELSE Goto(r, "rmdir") /\ UNCHANGED state
  /\ UNCHANGED <<req, todo, table, pin, lock, handle, used, vmsLock, inflight, store>>

\* The backend writes.  It fails when the directory is gone; otherwise it may
\* succeed, fail having written nothing, or fail having written something.
Write(r, res, left) ==
  /\ pc[r] = "write"
  /\ IF store[Name(r)] \in Dirs
     THEN /\ res = "ok" => left = "dir"
          /\ store' = [store EXCEPT ![Name(r)] = IF left = "dir" THEN "dir" ELSE store[Name(r)]]
     ELSE res = "err" /\ UNCHANGED store
  /\ req' = [req EXCEPT ![r].res = res]
  /\ Goto(r, "settle")
  /\ UNCHANGED <<todo, slotVars, vmsLock, inflight>>

\* transition_from(Snapshotting, Ready), after success and failure alike.
Settle(r) ==
  /\ pc[r] = "settle"
  /\ TransitionFrom(Vm(r), "Snapshotting", "Ready")
  /\ Goto(r, IF req[r].res = "ok" THEN "readback" ELSE "rmdir")
  /\ UNCHANGED <<req, todo, table, pin, lock, handle, used, vmsLock, inflight, store>>

\* remove_dir: only an empty directory goes.
Rmdir(r) ==
  /\ pc[r] = "rmdir"
  /\ store' = [store EXCEPT ![Name(r)] = IF store[Name(r)] = "emptydir" THEN "absent"
                                                                      ELSE store[Name(r)]]
  /\ EndSnapshot(r, "err")
  /\ UNCHANGED <<todo, table, state, handle, used, vmsLock, inflight>>

\* read_dir: a directory that has vanished is an error.
Readback(r) ==
  /\ pc[r] = "readback"
  /\ pin' = [pin EXCEPT ![Vm(r)] = None]
  /\ SetLock(Vm(r), None)
  /\ req' = [req EXCEPT ![r].res = IF store[Name(r)] \in Dirs THEN "ok" ELSE "err"]
  /\ Goto(r, "done")
  /\ UNCHANGED <<todo, table, state, handle, used, vmsLock, inflight, store>>

-----------------------------------------------------------------------------
(* destroy, shutdown_all and the teardown_slot they share *)

DestroyLookup(r) ==
  /\ pc[r] = "dlookup"
  /\ vmsLock = None
  /\ IF Vm(r) \in table
     THEN Goto(r, "dmark") /\ UNCHANGED req
     ELSE Return(r, "err")
  /\ UNCHANGED <<todo, slotVars, vmsLock, inflight, store>>

\* Mutant: the slot leaves the table before the handle's lock is held.
TeardownMarkRemoves(r) ==
  /\ pc[r] = "dmark"
  /\ vmsLock = None
  /\ SetState(Vm(r), "Destroying")
  /\ table' = table \ {Vm(r)}
  /\ Goto(r, "dwait")
  /\ UNCHANGED <<req, todo, pin, lock, handle, used, vmsLock, inflight, store>>

\* set_state(Destroying).
TeardownMark(r) ==
  /\ pc[r] = "dmark"
  /\ SetState(Vm(r), "Destroying")
  /\ Goto(r, "dwait")
  /\ UNCHANGED <<req, todo, table, pin, lock, handle, used, vmsLock, inflight, store>>

TeardownLock(r) ==
  /\ pc[r] = "dwait"
  /\ lock[Vm(r)] = None
  /\ SetLock(Vm(r), r)
  /\ Goto(r, "dremove")
  /\ UNCHANGED <<req, todo, table, state, pin, handle, used, vmsLock, inflight, store>>

\* With slot.inner held: the slot leaves the table and the handle is taken; a
\* teardown that comes second finds neither and has nothing to do.
TeardownRemove(r) ==
  /\ pc[r] = "dremove"
  /\ vmsLock = None
  /\ table' = table \ {Vm(r)}
  /\ IF handle[Vm(r)] = "live"
     THEN /\ handle' = [handle EXCEPT ![Vm(r)] = "stopping"]
          /\ Goto(r, "dshutdown")
          /\ UNCHANGED <<req, lock>>
     ELSE SetLock(Vm(r), None) /\ Return(r, "ok") /\ UNCHANGED handle
  /\ UNCHANGED <<todo, state, pin, used, vmsLock, inflight, store>>

\* The handle's shutdown returns, with or without an error.
TeardownShutdown(r, res) ==
  /\ pc[r] = "dshutdown"
  /\ handle' = [handle EXCEPT ![Vm(r)] = "gone"]
  /\ SetLock(Vm(r), None)
  /\ Return(r, res)
  /\ UNCHANGED <<todo, table, state, pin, used, vmsLock, inflight, store>>

\* shutdown_all clones the slot list ...
ShutdownList(r) ==
  /\ pc[r] = "list"
  /\ vmsLock = None
  /\ todo' = [todo EXCEPT ![r] = table]
  /\ Goto(r, "next")
  /\ UNCHANGED <<req, slotVars, vmsLock, inflight, store>>

\* ... and tears the slots down one after the other.
ShutdownNext(r) ==
  /\ pc[r] = "next"
  /\ \/ \E v \in todo[r] : /\ todo' = [todo EXCEPT ![r] = todo[r] \ {v}]
                           /\ req' = [req EXCEPT ![r].vm = v]
                           /\ Goto(r, "dmark")
     \/ /\ todo[r] = {}
        /\ Goto(r, "done")
        /\ UNCHANGED <<req, todo>>
  /\ UNCHANGED <<slotVars, vmsLock, inflight, store>>

-----------------------------------------------------------------------------
(* delete_artifact_if_unused *)

\* The scan of the pins; an unused name is deleted under the same hold of vms.
DeleteScan(r) ==
  /\ pc[r] = "scan"
  /\ vmsLock = None
  /\ IF InUse(Name(r))
     THEN Return(r, "err") /\ UNCHANGED vmsLock
     ELSE Goto(r, "remove") /\ vmsLock' = r /\ UNCHANGED req
  /\ UNCHANGED <<todo, slotVars, inflight, store>>

\* ArtifactStore::delete: a file or a whole snapshot directory.
DeleteRemove(r) ==
  /\ pc[r] = "remove"
  /\ store' = [store EXCEPT ![Name(r)] = "absent"]
  /\ vmsLock' = None
  /\ Return(r, IF store[Name(r)] = "absent" THEN "err" ELSE "ok")
  /\ UNCHANGED <<todo, slotVars, inflight>>

-----------------------------------------------------------------------------
(* What the world does *)

\* An upload publishes a name: persist_noclobber, so never over another.
Upload(n) ==
  /\ store[n] = "absent"
  /\ store' = [store EXCEPT ![n] = "file"]
  /\ UNCHANGED <<pc, req, todo, slotVars, vmsLock, inflight>>

\* The awaits at which a handler's future can be dropped.
Awaiting == {"launch", "insert", "lookup", "wait", "drive", "write",
             "dlookup", "dwait", "dremove", "dshutdown"}

\* Mutant: the pin is cleared by the code after the await, not by a guard.
CancelKeepsPin(r) ==
  /\ Cancellable
  /\ pc[r] \in Awaiting
  /\ Op(r) # "shutdown_all"
  /\ Goto(r, "cancelled")
  /\ inflight' = IF pc[r] \in Launching THEN inflight - 1 ELSE inflight
  /\ handle' = IF pc[r] \in {"insert", "dshutdown"}
               THEN [handle EXCEPT ![Vm(r)] = "gone"] ELSE handle
  /\ lock' = IF pc[r] \in Holding THEN [lock EXCEPT ![Vm(r)] = None] ELSE lock
  /\ UNCHANGED <<req, todo, table, state, pin, used, vmsLock, store>>

\* The client of a single-process daemon disconnects: the guards are dropped
\* (LaunchGuard, SnapshotPin, slot.inner, a handle not yet inserted or already
\* taken), and nothing after the await runs.
Cancel(r) ==
  /\ Cancellable
  /\ pc[r] \in Awaiting
  /\ Op(r) # "shutdown_all"
  /\ Goto(r, "cancelled")
  /\ inflight' = IF pc[r] \in Launching THEN inflight - 1 ELSE inflight
  /\ handle' = IF pc[r] \in {"insert", "dshutdown"}
               THEN [handle EXCEPT ![Vm(r)] = "gone"] ELSE handle
  /\ lock' = IF pc[r] \in Holding THEN [lock EXCEPT ![Vm(r)] = None] ELSE lock
  /\ pin' = IF pc[r] \in Pinning THEN [pin EXCEPT ![Vm(r)] = None] ELSE pin
  /\ UNCHANGED <<req, todo, table, state, used, vmsLock, store>>

Step(r) ==
  \/ \E v \in Vms : LaunchOk(r, v)
  \/ LaunchFail(r) \/ Insert(r)
  \/ Lookup(r) \/ Check(r) \/ Admit(r)
  \/ \E res \in {"ok", "err"} : Drive(r, res) \/ TeardownShutdown(r, res)
  \/ Mkdir(r) \/ Mark(r)
  \/ \E res \in {"ok", "err"}, left \in Dirs : Write(r, res, left)
  \/ Settle(r) \/ Rmdir(r) \/ Readback(r)
  \/ DestroyLookup(r) \/ TeardownMark(r) \/ TeardownLock(r) \/ TeardownRemove(r)
  \/ ShutdownList(r) \/ ShutdownNext(r)
  \/ DeleteScan(r) \/ DeleteRemove(r)

\* Every request has ended.
Quiescent == (\A r \in Reqs : pc[r] \in Final) /\ UNCHANGED vars

Next ==
  \/ \E r \in Reqs, o \in Ops, v \in Vms \cup {None}, n \in Names \cup {None} : Arrive(r, o, v, n)
  \/ \E r \in Reqs : Step(r) \/ Cancel(r)
  \/ \E n \in Names : Upload(n)
  \/ Quiescent

Spec == Init /\ [][Next]_vars

\* The runtime polls every task that can make progress, and every verb of the
\* handle returns.
FairSpec == Spec /\ \A r \in Reqs : WF_vars(Step(r))

-----------------------------------------------------------------------------
(* Properties *)

\* A VM that an operation is driving through its handle (exec, stats, pause,
\* resume, the snapshot write) is up, is in the table, and is that operation's
\* alone: no teardown takes a handle, or its row, from under an operation.
DrivenVmIsOwned ==
  \A r \in Reqs : pc[r] \in {"drive", "write"} =>
    /\ lock[Vm(r)] = r
    /\ handle[Vm(r)] = "live"
    /\ Vm(r) \in table

\* When no launch is in flight, every VM that is up is in the table: the pair
\* live_ids() reads is enough for a sweep not to take a VM for an orphan.
LiveIdsComplete ==
  inflight = 0 => \A v \in Vms : handle[v] = "live" => v \in table

\* A pin is the pin of the snapshot that holds the VM's lock: none outlives its
\* snapshot, and none is lost to another's.
PinHasWriter ==
  \A v \in Vms : pin[v] # None =>
    \E r \in Reqs : /\ pc[r] \in Pinning
                    /\ lock[v] = r /\ Vm(r) = v /\ Name(r) = pin[v]

\* A file that a VM in the table was launched from is never deleted.
ArtifactInUseSurvives ==
  [][\A v \in table : store[used[v]] = "file" => store'[used[v]] = "file"]_vars

\* A one-shot VM, and a VM whose inline command could not be run, is out of the
\* table when its create returns.
EphemeralLeavesNoVm ==
  \A r \in Reqs :
    (pc[r] = "done" /\ Vm(r) # None /\
       (Op(r) = "run" \/ (Op(r) = "create_exec" /\ req[r].res = "err")))
    => Vm(r) \notin table

\* Every request that arrives is answered: the locks do not deadlock.
EveryRequestReturns == \A r \in Reqs : pc[r] # "idle" ~> pc[r] \in Final

-----------------------------------------------------------------------------
\* What the registry promises of the VMs it owns: VmOwnership, read off the
\* handle and the table.
Ownership == INSTANCE VmOwnership WITH
  phase <- [v \in Vms |-> IF handle[v] = "live" /\ v \in table THEN "listed" ELSE handle[v]],
  uses <- used,
  files <- {n \in Names : store[n] = "file"}

\* The registry implements VmOwnership: a VM is launched once, is stopped once
\* and only after it has left the table, is never lost while it is up, and no
\* artifact of a VM in the table is deleted.
ImplementsVmOwnership == Ownership!Spec

=============================================================================
