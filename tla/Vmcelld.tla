------------------------------ MODULE Vmcelld -------------------------------
(***************************************************************************)
(* The processes of the daemon (vmcelld/src/main.rs): the fork of the      *)
(* privileged broker child (vmcell-broker/src/lib.rs), the start-up of     *)
(* both halves or of the single process of --no-setup-broker, the control  *)
(* socket they may serve on (vmcell-daemon/src/uds.rs), the signals that   *)
(* stop them and the ways they end.                                        *)
(*                                                                         *)
(* Several daemons share a host: a TCP address takes one listener, and all *)
(* of them use one socket path.  What a broker does while it serves is     *)
(* reduced to whether some VM of its registry runs; the bridge's own       *)
(* steps are in module Bridge.                                             *)
(***************************************************************************)
EXTENDS Naturals

CONSTANTS
  Vmcellds,    \* bound: the daemons ever started
  Addrs,      \* bound: the values of --bind
  MaxCrashes, \* bound: processes killed from outside
  Nothing     \* no file, no listener

ASSUME VmcelldConstants ==
  /\ MaxCrashes \in Nat
  /\ Addrs # {}
  /\ Nothing \notin {"file", "stale"} /\ Vmcellds \cap {Nothing, "file", "stale"} = {}

VARIABLES
  dpc,        \* [Vmcellds -> where run_http_parent or run_single_process is]
  split,      \* [Vmcellds -> it forked a broker]
  addr,       \* [Vmcellds -> its --bind]
  uds,        \* [Vmcellds -> it serves on the control socket too]
  caps,       \* [Vmcellds -> the process that serves HTTP holds capabilities]
  child,      \* [Vmcellds -> where the broker is]
  pdeathsig,  \* [Vmcellds -> the broker dies with its parent]
  vms,        \* [Vmcellds -> some VM of its registry runs]
  tcp,        \* [Addrs -> the daemon that listens there]
  sock,       \* at the socket path: the daemon that bound it, an earlier one, a file, Nothing
  sockets,  \* the daemons whose control socket is open
  struck,     \* the daemons with a process killed from outside
  overlap,    \* two daemons worked on the socket path at the same time
  crashes

vdVars == <<dpc, split, addr, uds, caps, child, pdeathsig, vms, tcp, sock, sockets, struck,
            overlap, crashes>>
how == <<split, addr, uds>>

Binding == {"look", "probe", "reclaim", "bind", "narrow"}
AtPath == Binding \cup {"unlink"}
DaemonRuns == {"caps", "tcp", "serve", "shutdown"} \cup AtPath
ChildAlive == {"forked", "armed", "ignoring", "serve", "done"}

VmcelldTypeOK ==
  /\ dpc \in [Vmcellds -> DaemonRuns \cup {"off", "gone"}]
  /\ split \in [Vmcellds -> BOOLEAN]
  /\ addr \in [Vmcellds -> Addrs]
  /\ uds \in [Vmcellds -> BOOLEAN]
  /\ caps \in [Vmcellds -> BOOLEAN]
  /\ child \in [Vmcellds -> ChildAlive \cup {"none", "gone"}]
  /\ pdeathsig \in [Vmcellds -> BOOLEAN]
  /\ vms \in [Vmcellds -> BOOLEAN]
  /\ tcp \in [Addrs -> Vmcellds \cup {Nothing}]
  /\ sock \in Vmcellds \cup {Nothing, "file", "stale"}
  /\ sockets \subseteq {d \in Vmcellds : dpc[d] \in {"narrow", "serve"}}
  /\ struck \subseteq Vmcellds
  /\ overlap \in BOOLEAN
  /\ crashes \in 0..MaxCrashes

VmcelldInit ==
  /\ dpc = [d \in Vmcellds |-> "off"]
  /\ split = [d \in Vmcellds |-> FALSE]
  /\ addr = [d \in Vmcellds |-> CHOOSE a \in Addrs : TRUE]
  /\ uds = [d \in Vmcellds |-> FALSE]
  /\ caps = [d \in Vmcellds |-> FALSE]
  /\ child = [d \in Vmcellds |-> "none"]
  /\ pdeathsig = [d \in Vmcellds |-> FALSE]
  /\ vms = [d \in Vmcellds |-> FALSE]
  /\ tcp = [a \in Addrs |-> Nothing]
  /\ sock \in {Nothing, "file", "stale"}
  /\ sockets = {}
  /\ struck = {}
  /\ overlap = FALSE
  /\ crashes = 0

-----------------------------------------------------------------------------
(* Helpers *)

\* Two daemons are between their look at the path and what they do to it.
SocketOverlaps(next) ==
  overlap' = (overlap \/ \E d, e \in Vmcellds : d # e /\ next[d] \in AtPath /\ next[e] \in AtPath)

GoOn(d, to) == dpc' = [dpc EXCEPT ![d] = to] /\ SocketOverlaps([dpc EXCEPT ![d] = to])

Closed(d) ==
  /\ tcp' = [a \in Addrs |-> IF tcp[a] = d THEN Nothing ELSE tcp[a]]
  /\ sockets' = sockets \ {d}

\* The broker once its parent is gone; `dropped` if BrokerChild's Drop ran.
ChildAfter(d, dropped) ==
  IF child[d] \in ChildAlive /\ (dropped \/ pdeathsig[d]) THEN "gone" ELSE child[d]

\* The process that serves HTTP ends; a single process that runs its
\* destructors takes its VMs with it.
Ends(d, dropped) ==
  /\ GoOn(d, "gone")
  /\ caps' = [caps EXCEPT ![d] = FALSE]
  /\ child' = [child EXCEPT ![d] = ChildAfter(d, dropped)]
  /\ vms' = [vms EXCEPT ![d] = vms[d] /\ (split[d] \/ ~dropped)]
  /\ Closed(d)
  /\ UNCHANGED <<how, pdeathsig>>

\* An early return of run_http_parent or run_single_process.
Fails(d) == Ends(d, TRUE) /\ UNCHANGED <<sock, struck, crashes>>

ToPath(d, to) ==
  /\ GoOn(d, to)
  /\ UNCHANGED <<how, caps, child, pdeathsig, vms, tcp, struck, crashes>>

-----------------------------------------------------------------------------
(* Start-up *)

FirstStep(forks) == IF forks THEN "caps" ELSE "tcp"

\* run, up to the fork or up to the single process: blessed, prefix, schedule
\* and socket path in order.
StartDaemon(d, forks, a, u) ==
  /\ dpc[d] = "off"
  /\ GoOn(d, FirstStep(forks))
  /\ split' = [split EXCEPT ![d] = forks]
  /\ addr' = [addr EXCEPT ![d] = a]
  /\ uds' = [uds EXCEPT ![d] = u]
  /\ caps' = [caps EXCEPT ![d] = TRUE]
  /\ child' = [child EXCEPT ![d] = IF forks THEN "forked" ELSE "none"]
  /\ UNCHANGED <<pdeathsig, vms, tcp, sock, sockets, struck, crashes>>

\* apply_broker_parent_drop, before anything listens.
DropCaps(d) ==
  /\ dpc[d] = "caps"
  /\ GoOn(d, "tcp")
  /\ caps' = [caps EXCEPT ![d] = FALSE]
  /\ UNCHANGED <<how, child, pdeathsig, vms, tcp, sock, sockets, struck, crashes>>

\* The capabilities cannot be dropped; no key, no store, no runtime.
SetupFails(d) == dpc[d] \in {"caps", "tcp"} /\ Fails(d)

BindTcp(d) ==
  /\ dpc[d] = "tcp"
  /\ IF tcp[addr[d]] = Nothing
     THEN /\ GoOn(d, IF uds[d] THEN "look" ELSE "serve")
          /\ tcp' = [tcp EXCEPT ![addr[d]] = d]
          /\ UNCHANGED <<how, caps, child, pdeathsig, vms, sock, sockets, struck, crashes>>
     ELSE Fails(d)

\* symlink_metadata: nothing there, not a socket, a socket.
Look(d) ==
  /\ dpc[d] = "look"
  /\ \/ sock = "file" /\ Fails(d)
     \/ sock # "file" /\ ToPath(d, IF sock = Nothing THEN "bind" ELSE "probe")
        /\ UNCHANGED <<sock, sockets>>

\* Mutant: only a socket that cannot be asked is refused.
StaleUnasked == sock # Nothing

\* connect: refused by a socket that nobody listens on.
Stale == sock # Nothing /\ sock \notin sockets

\* A live daemon's socket, or a liveness that cannot be told, is refused.
Probe(d) ==
  /\ dpc[d] = "probe"
  /\ IF Stale THEN ToPath(d, "reclaim") /\ UNCHANGED <<sock, sockets>> ELSE Fails(d)

\* remove_file: whatever is there by now.
Reclaim(d) ==
  /\ dpc[d] = "reclaim"
  /\ IF sock = Nothing
     THEN Fails(d)
     ELSE ToPath(d, "bind") /\ sock' = Nothing /\ UNCHANGED sockets

BindUds(d) ==
  /\ dpc[d] = "bind"
  /\ IF sock = Nothing
     THEN ToPath(d, "narrow") /\ sock' = d /\ sockets' = sockets \cup {d}
     ELSE Fails(d)

\* set_permissions on the path; the guard exists only after it.
Narrow(d) ==
  /\ dpc[d] = "narrow"
  /\ \/ sock # Nothing /\ ToPath(d, "serve") /\ UNCHANGED <<sock, sockets>>
     \/ Fails(d)

-----------------------------------------------------------------------------
(* The broker child *)

ChildTo(d, to) ==
  /\ child' = [child EXCEPT ![d] = to]
  /\ UNCHANGED <<dpc, how, caps, tcp, sock, sockets, struck, overlap, crashes>>

\* PR_SET_PDEATHSIG, which a parent that is gone already does not trigger.
Arm(d) ==
  /\ child[d] = "forked"
  /\ pdeathsig' = [pdeathsig EXCEPT ![d] = TRUE]
  /\ ChildTo(d, "armed") /\ UNCHANGED vms

\* ignore_terminal_signals.
IgnoreSignals(d) == child[d] = "armed" /\ ChildTo(d, "ignoring") /\ UNCHANGED <<pdeathsig, vms>>

\* The runtime, the start-up sweep, store, launcher, registry and sweeper, or
\* the error return of one of them.
ServeEngine(d) ==
  /\ child[d] = "ignoring"
  /\ ChildTo(d, "serve") \/ ChildTo(d, "gone")
  /\ UNCHANGED <<pdeathsig, vms>>

\* The parent's end of the socket pair is closed.
ParentClosed(d) == dpc[d] = "gone"

\* serve_engine reads the end of the stream and the registry drops, or answers
\* ShutdownAll; then _exit.
ServeEof(d) ==
  /\ child[d] = "serve" /\ ParentClosed(d)
  /\ vms' = [vms EXCEPT ![d] = FALSE]
  /\ ChildTo(d, "gone") /\ UNCHANGED pdeathsig

ServeShutdown(d) ==
  /\ child[d] = "serve" /\ dpc[d] = "shutdown"
  /\ vms' = [vms EXCEPT ![d] = FALSE]
  /\ ChildTo(d, "done") /\ UNCHANGED pdeathsig

ChildExits(d) == child[d] = "done" /\ ChildTo(d, "gone") /\ UNCHANGED <<pdeathsig, vms>>

-----------------------------------------------------------------------------
(* Serving and stopping *)

\* A create or a destroy, as far as there is someone to serve it.
Vm(d) ==
  /\ dpc[d] = "serve" /\ (split[d] => child[d] = "serve")
  /\ vms' = [vms EXCEPT ![d] = ~vms[d]]
  /\ UNCHANGED <<dpc, how, caps, child, pdeathsig, tcp, sock, sockets, struck, overlap, crashes>>

UnlinkStep(d) == IF uds[d] THEN "unlink" ELSE "shutdown"

\* select! leaves serve_transports: the listeners close, the guard drops after
\* them.  The server failed, or a signal came.
StopServing(d) ==
  /\ GoOn(d, UnlinkStep(d))
  /\ Closed(d)
  /\ UNCHANGED <<how, caps, pdeathsig, vms, sock, struck, crashes>>

ServerError(d) == dpc[d] = "serve" /\ StopServing(d) /\ UNCHANGED child

\* UdsPathGuard: whatever is there.
UnlinkSocket(d) ==
  /\ dpc[d] = "unlink"
  /\ ToPath(d, "shutdown")
  /\ sock' = Nothing
  /\ UNCHANGED sockets

\* engine.shutdown_all, answered or failed by the broker's end; in a single
\* process the registry's own, or its drop.  Then the process returns.
Exit(d) ==
  /\ dpc[d] = "shutdown"
  /\ split[d] => child[d] \in {"done", "gone"}
  /\ Fails(d)

DiesOfSignal(d) == child[d] \in {"forked", "armed"}

\* SIGINT or SIGTERM, to the parent or to the whole group (a terminal's).
\* Before shutdown_signal the parent has the default disposition, after it the
\* handler stays.
Signal(d, group) ==
  /\ dpc[d] \in DaemonRuns
  /\ LET dies == group /\ DiesOfSignal(d)
         left(c) == IF dies THEN "gone" ELSE c
     IN  \/ /\ dpc[d] \in {"caps", "tcp"} \cup Binding
            /\ GoOn(d, "gone")
            /\ caps' = [caps EXCEPT ![d] = FALSE]
            /\ child' = [child EXCEPT ![d] = left(ChildAfter(d, FALSE))]
            /\ Closed(d)
            /\ UNCHANGED <<how, pdeathsig, vms, sock, struck, crashes>>
         \/ /\ dpc[d] = "serve"
            /\ StopServing(d)
            /\ child' = [child EXCEPT ![d] = left(child[d])]
         \/ /\ dpc[d] \in {"unlink", "shutdown"} /\ dies
            /\ ChildTo(d, "gone") /\ UNCHANGED <<pdeathsig, vms>>

\* SIGKILL to either half.
KillDaemon(d) ==
  /\ crashes < MaxCrashes /\ crashes' = crashes + 1
  /\ struck' = struck \cup {d}
  /\ \/ dpc[d] \in DaemonRuns /\ Ends(d, FALSE) /\ UNCHANGED sock
     \/ /\ child[d] \in ChildAlive
        /\ child' = [child EXCEPT ![d] = "gone"]
        /\ UNCHANGED <<dpc, how, caps, pdeathsig, vms, tcp, sock, sockets, overlap>>

-----------------------------------------------------------------------------

ChildStep(d) ==
  \/ Arm(d) \/ IgnoreSignals(d) \/ ServeEngine(d)
  \/ ServeEof(d) \/ ServeShutdown(d) \/ ChildExits(d)

ParentStep(d) ==
  \/ DropCaps(d) \/ SetupFails(d) \/ BindTcp(d)
  \/ Look(d) \/ Probe(d) \/ Reclaim(d) \/ BindUds(d) \/ Narrow(d)
  \/ UnlinkSocket(d) \/ Exit(d)

VmcelldNext ==
  \E d \in Vmcellds :
    \/ \E forks, u \in BOOLEAN, a \in Addrs : StartDaemon(d, forks, a, u)
    \/ ParentStep(d) \/ ChildStep(d)
    \/ Vm(d) \/ ServerError(d)
    \/ \E group \in BOOLEAN : Signal(d, group)
    \/ KillDaemon(d)

VmcelldSpec == VmcelldInit /\ [][VmcelldNext]_vdVars

-----------------------------------------------------------------------------
(* Properties *)

\* A daemon that serves on the control socket is the one that a client reaches
\* there, as long as no two daemons are at the path at once: the probe refuses
\* the path of a live daemon, and a guard removes no successor's socket.
ServedSocketIsReached ==
  ~overlap => \A d \in Vmcellds : dpc[d] = "serve" /\ uds[d] => sock = d /\ d \in sockets

\* A daemon that served and was stopped in order leaves no socket behind for
\* the next start to reason about.
StoppedLeavesNoSocket ==
  \A d \in Vmcellds \ struck : dpc[d] = "shutdown" => sock # d

\* The process that answers HTTP next to a broker holds no capability from the
\* moment it listens.
ListensWithoutCaps ==
  \A d \in Vmcellds : split[d] /\ (\E a \in Addrs : tcp[a] = d) => ~caps[d]

\* A stop by a signal, sent to the parent or to the whole process group at any
\* moment of the start-up or of the service, orphans no VM.
SignalOrphansNothing ==
  \A d \in Vmcellds \ struck :
    dpc[d] = "gone" /\ child[d] \in {"none", "gone"} => ~vms[d]

\* What ignore_terminal_signals says of the broker's life: when the parent dies
\* the ordered teardown runs.
ParentDeathTearsDown ==
  [][\A d \in Vmcellds :
       child[d] = "serve" /\ dpc[d] # "gone" /\ dpc'[d] = "gone" /\ child'[d] = "gone"
         => ~vms'[d]]_vdVars

\* What a start, a stop and a signal leave of the daemon: its socket is the one
\* that is reached and goes with it, and no VM is orphaned.
VmcelldSafe ==
  /\ VmcelldTypeOK
  /\ ServedSocketIsReached
  /\ StoppedLeavesNoSocket
  /\ ListensWithoutCaps
  /\ SignalOrphansNothing
=============================================================================
