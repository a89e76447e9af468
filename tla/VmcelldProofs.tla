--------------------------- MODULE VmcelldProofs ----------------------------
(***************************************************************************)
(* What starts, stops and signals leave of any number of daemons: the      *)
(* socket a client reaches is the serving daemon's, it goes with it, the   *)
(* process that listens holds no capability, and no VM is orphaned.        *)
(***************************************************************************)
EXTENDS Vmcelld, TLAPS

\* The parts of the type invariant.
DaemonShape ==
  /\ dpc \in [Vmcellds -> DaemonRuns \cup {"off", "gone"}]
  /\ child \in [Vmcellds -> ChildAlive \cup {"none", "gone"}]
  /\ caps \in [Vmcellds -> BOOLEAN]
  /\ vms \in [Vmcellds -> BOOLEAN]

HowShape ==
  /\ split \in [Vmcellds -> BOOLEAN]
  /\ addr \in [Vmcellds -> Addrs]
  /\ uds \in [Vmcellds -> BOOLEAN]
  /\ pdeathsig \in [Vmcellds -> BOOLEAN]
  /\ struck \subseteq Vmcellds
  /\ crashes \in 0..MaxCrashes

SocketShape ==
  /\ tcp \in [Addrs -> Vmcellds \cup {Nothing}]
  /\ sock \in Vmcellds \cup {Nothing, "file", "stale"}
  /\ sockets \subseteq Vmcellds
  /\ overlap \in BOOLEAN

Shapes == DaemonShape /\ HowShape /\ SocketShape

-----------------------------------------------------------------------------
(* The socket path *)

\* Only one that is past the bind has an open control socket.
SocketIsOpen == \A d \in sockets : dpc[d] \in {"narrow", "serve"}

\* A daemon's socket file is there only from its bind on, and it has the path to unlink.
FileIsBound ==
  \A d \in Vmcellds : sock = d => dpc[d] \in {"narrow", "serve", "unlink", "gone"} /\ uds[d]

\* A daemon works on the path only when it serves there.
AtPathIsUds == \A d \in Vmcellds : dpc[d] \in AtPath => uds[d]

\* As long as no two daemons were at the path at once: none is now ...
Alone == ~overlap => \A d, e \in Vmcellds : dpc[d] \in AtPath /\ dpc[e] \in AtPath => d = e

\* ... one that has bound it is reached there ...
BoundIsReached ==
  ~overlap => \A d \in Vmcellds : dpc[d] \in {"narrow", "serve"} /\ uds[d] =>
                                    sock = d /\ d \in sockets

\* ... and one that is about to remove what is there removes nobody's open socket.
RemovesNoneOpen ==
  ~overlap => \A d \in Vmcellds : dpc[d] \in {"reclaim", "unlink"} => sock \notin sockets

PathInv == SocketIsOpen /\ FileIsBound /\ AtPathIsUds /\ Alone /\ BoundIsReached /\ RemovesNoneOpen

-----------------------------------------------------------------------------
(* Capabilities and VMs *)

\* One that listens is past the point where the capabilities are dropped.
ListensLate ==
  \A a \in Addrs : tcp[a] # Nothing => dpc[tcp[a]] \in {"serve"} \cup Binding

CapsEarly == \A d \in Vmcellds : split[d] /\ caps[d] => dpc[d] = "caps"

\* VMs run while the daemon serves or shuts down, and next to a broker that serves them.
VmsAreServed ==
  \A d \in Vmcellds \ struck : vms[d] =>
    /\ dpc[d] \in {"serve", "unlink", "shutdown"}
    /\ split[d] => child[d] = "serve"

\* The single process has no broker.
NoBroker == \A d \in Vmcellds : ~split[d] => child[d] = "none"

HolderInv == ListensLate /\ CapsEarly /\ VmsAreServed /\ NoBroker

-----------------------------------------------------------------------------
(* Initial states and moves *)

\* The initial states satisfy the invariant.
LEMMA VmcelldInitInv == VmcelldInit => Shapes /\ PathInv /\ HolderInv
<1> SUFFICES ASSUME VmcelldInit PROVE Shapes /\ PathInv /\ HolderInv
  OBVIOUS
<1>1. DaemonShape BY DEF VmcelldInit, DaemonShape
<1>2. HowShape BY VmcelldConstants DEF VmcelldInit, HowShape
<1>3. SocketShape BY DEF VmcelldInit, SocketShape
<1>4. PathInv
  BY VmcelldConstants
     DEF VmcelldInit, PathInv, SocketIsOpen, FileIsBound, AtPathIsUds, Alone, BoundIsReached,
         RemovesNoneOpen, AtPath, Binding
<1>5. HolderInv BY DEF VmcelldInit, HolderInv, ListensLate, CapsEarly, VmsAreServed, NoBroker
<1> QED BY <1>1, <1>2, <1>3, <1>4, <1>5 DEF Shapes

Stages == DaemonRuns \cup {"off", "gone"}

\* A daemon goes on: the others stay where they are, and no overlap is forgotten.
LEMMA GoOnMoves ==
  ASSUME DaemonShape, NEW d \in Vmcellds, NEW to \in Stages, GoOn(d, to)
  PROVE  /\ dpc' \in [Vmcellds -> Stages]
         /\ dpc'[d] = to /\ \A e \in Vmcellds : e # d => dpc'[e] = dpc[e]
         /\ overlap' \in BOOLEAN
         /\ ~overlap' => ~overlap
         /\ Alone'
<1>1. dpc' = [dpc EXCEPT ![d] = to] BY DEF GoOn
<1>2. /\ dpc' \in [Vmcellds -> Stages]
      /\ dpc'[d] = to /\ \A e \in Vmcellds : e # d => dpc'[e] = dpc[e]
  BY <1>1 DEF DaemonShape, Stages
<1>3. overlap' = (overlap \/ \E e, f \in Vmcellds : e # f /\ dpc'[e] \in AtPath /\ dpc'[f] \in AtPath)
  BY <1>1 DEF GoOn, SocketOverlaps
<1> QED BY <1>2, <1>3 DEF Alone

-----------------------------------------------------------------------------
(* Types *)

\* The process ends: its types.
LEMMA EndsShapes ==
  ASSUME Shapes, NEW d \in Vmcellds, NEW dropped \in BOOLEAN, Ends(d, dropped),
         sock' = sock, struck' \subseteq Vmcellds, crashes' \in 0..MaxCrashes
  PROVE  Shapes'
<1>1. /\ dpc' \in [Vmcellds -> DaemonRuns \cup {"off", "gone"}] /\ overlap' \in BOOLEAN
  BY GoOnMoves DEF Ends, Shapes, Stages, SocketShape
<1>2. ChildAfter(d, dropped) \in ChildAlive \cup {"none", "gone"}
  BY DEF ChildAfter, Shapes, DaemonShape
<1>3. (vms[d] /\ (split[d] \/ ~dropped)) \in BOOLEAN OBVIOUS
<1>4. caps' \in [Vmcellds -> BOOLEAN] /\ vms' \in [Vmcellds -> BOOLEAN]
      /\ child' \in [Vmcellds -> ChildAlive \cup {"none", "gone"}]
  BY <1>2, <1>3 DEF Ends, Shapes, DaemonShape
<1>5. HowShape' BY DEF Ends, how, Shapes, HowShape
<1>6. SocketShape' BY <1>1 DEF Ends, Closed, Shapes, SocketShape
<1> QED BY <1>1, <1>4, <1>5, <1>6 DEF Shapes, DaemonShape

\* The listeners close: the types.
LEMMA StopShapes ==
  ASSUME Shapes, NEW d \in Vmcellds, StopServing(d),
         child' \in [Vmcellds -> ChildAlive \cup {"none", "gone"}]
  PROVE  Shapes'
<1>1. UnlinkStep(d) \in Stages BY DEF UnlinkStep, Stages, DaemonRuns, AtPath
<1>2. /\ dpc' \in [Vmcellds -> DaemonRuns \cup {"off", "gone"}] /\ overlap' \in BOOLEAN
  BY <1>1, GoOnMoves DEF StopServing, Shapes, Stages, SocketShape
<1>3. DaemonShape' BY <1>2 DEF StopServing, Shapes, DaemonShape
<1>4. HowShape' BY DEF StopServing, how, Shapes, HowShape
<1>5. SocketShape' BY <1>2 DEF StopServing, Closed, Shapes, SocketShape
<1> QED BY <1>3, <1>4, <1>5 DEF Shapes

\* A step along the path: the types.
LEMMA ToPathShapes ==
  ASSUME Shapes, NEW d \in Vmcellds, NEW to \in Stages, ToPath(d, to),
         sock' \in Vmcellds \cup {Nothing, "file", "stale"}, sockets' \subseteq Vmcellds
  PROVE  Shapes'
<1>1. /\ dpc' \in [Vmcellds -> DaemonRuns \cup {"off", "gone"}] /\ overlap' \in BOOLEAN
  BY GoOnMoves DEF ToPath, Shapes, Stages, SocketShape
<1>2. DaemonShape' BY <1>1 DEF ToPath, Shapes, DaemonShape
<1>3. HowShape' BY DEF ToPath, how, Shapes, HowShape
<1>4. SocketShape' BY <1>1 DEF ToPath, Shapes, SocketShape
<1> QED BY <1>2, <1>3, <1>4 DEF Shapes

\* Every step keeps the types.
LEMMA ShapesNext ==
  ASSUME Shapes, [VmcelldNext]_vdVars
  PROVE  Shapes'
<1> USE DEF Stages, DaemonRuns, AtPath, Binding
<1>0. ASSUME NEW d \in Vmcellds, Fails(d) PROVE Shapes'
  BY <1>0, EndsShapes DEF Fails, Shapes, HowShape
<1>1. ASSUME NEW d \in Vmcellds, NEW forks \in BOOLEAN, NEW u \in BOOLEAN, NEW a \in Addrs,
            StartDaemon(d, forks, a, u)
     PROVE  Shapes'
  <2>1. /\ dpc' \in [Vmcellds -> Stages] /\ overlap' \in BOOLEAN
    BY <1>1, GoOnMoves DEF StartDaemon, FirstStep, Shapes, SocketShape
  <2>2. DaemonShape'
    BY <1>1, <2>1 DEF StartDaemon, Shapes, DaemonShape, ChildAlive
  <2>3. HowShape' BY <1>1 DEF StartDaemon, Shapes, HowShape
  <2>4. SocketShape' BY <1>1, <2>1 DEF StartDaemon, Shapes, SocketShape
  <2> QED BY <2>2, <2>3, <2>4 DEF Shapes
<1>2. ASSUME NEW d \in Vmcellds, DropCaps(d) PROVE Shapes'
  <2>1. /\ dpc' \in [Vmcellds -> Stages] /\ overlap' \in BOOLEAN
    BY <1>2, GoOnMoves DEF DropCaps, Shapes, SocketShape
  <2>2. DaemonShape' BY <1>2, <2>1 DEF DropCaps, Shapes, DaemonShape
  <2>3. HowShape' BY <1>2 DEF DropCaps, how, Shapes, HowShape
  <2>4. SocketShape' BY <1>2, <2>1 DEF DropCaps, Shapes, SocketShape
  <2> QED BY <2>2, <2>3, <2>4 DEF Shapes
<1>3. ASSUME NEW d \in Vmcellds, SetupFails(d) PROVE Shapes'
  BY <1>0, <1>3 DEF SetupFails
<1>4. ASSUME NEW d \in Vmcellds, BindTcp(d) PROVE Shapes'
  <2>1. CASE tcp[addr[d]] = Nothing
    <3>1. /\ dpc' \in [Vmcellds -> Stages] /\ overlap' \in BOOLEAN
      BY <1>4, <2>1, GoOnMoves DEF BindTcp, Shapes, SocketShape
    <3>2. DaemonShape' BY <1>4, <2>1, <3>1 DEF BindTcp, Shapes, DaemonShape
    <3>3. HowShape' BY <1>4, <2>1 DEF BindTcp, how, Shapes, HowShape
    <3>4. SocketShape' BY <1>4, <2>1, <3>1 DEF BindTcp, Shapes, SocketShape
    <3> QED BY <3>2, <3>3, <3>4 DEF Shapes
  <2>2. CASE tcp[addr[d]] # Nothing BY <1>0, <1>4, <2>2 DEF BindTcp
  <2> QED BY <2>1, <2>2
<1>5. ASSUME NEW d \in Vmcellds, Look(d) PROVE Shapes'
  BY <1>0, <1>5, ToPathShapes DEF Look, Shapes, SocketShape
<1>6. ASSUME NEW d \in Vmcellds, Probe(d) PROVE Shapes'
  BY <1>0, <1>6, ToPathShapes DEF Probe, Shapes, SocketShape
<1>7. ASSUME NEW d \in Vmcellds, Reclaim(d) PROVE Shapes'
  BY <1>0, <1>7, ToPathShapes DEF Reclaim, Shapes, SocketShape
<1>8. ASSUME NEW d \in Vmcellds, BindUds(d) PROVE Shapes'
  BY <1>0, <1>8, ToPathShapes DEF BindUds, Shapes, SocketShape
<1>9. ASSUME NEW d \in Vmcellds, Narrow(d) PROVE Shapes'
  BY <1>0, <1>9, ToPathShapes DEF Narrow, Shapes, SocketShape
<1>10. ASSUME NEW d \in Vmcellds, UnlinkSocket(d) PROVE Shapes'
  BY <1>0, <1>10, ToPathShapes DEF UnlinkSocket, Shapes, SocketShape
<1>11. ASSUME NEW d \in Vmcellds, Exit(d) PROVE Shapes'
  BY <1>0, <1>11 DEF Exit
<1>12. ASSUME NEW d \in Vmcellds, Arm(d) PROVE Shapes'
  <2>1. DaemonShape' BY <1>12 DEF Arm, ChildTo, how, ChildAlive, Shapes, DaemonShape
  <2>2. HowShape' BY <1>12 DEF Arm, ChildTo, how, Shapes, HowShape
  <2>3. SocketShape' BY <1>12 DEF Arm, ChildTo, how, Shapes, SocketShape
  <2> QED BY <2>1, <2>2, <2>3 DEF Shapes
<1>13. ASSUME NEW d \in Vmcellds, IgnoreSignals(d) PROVE Shapes'
  <2>1. DaemonShape' BY <1>13 DEF IgnoreSignals, ChildTo, how, ChildAlive, Shapes, DaemonShape
  <2>2. HowShape' BY <1>13 DEF IgnoreSignals, ChildTo, how, Shapes, HowShape
  <2>3. SocketShape' BY <1>13 DEF IgnoreSignals, ChildTo, how, Shapes, SocketShape
  <2> QED BY <2>1, <2>2, <2>3 DEF Shapes
<1>14. ASSUME NEW d \in Vmcellds, ServeEngine(d) PROVE Shapes'
  <2>1. DaemonShape' BY <1>14 DEF ServeEngine, ChildTo, how, ChildAlive, Shapes, DaemonShape
  <2>2. HowShape' BY <1>14 DEF ServeEngine, ChildTo, how, Shapes, HowShape
  <2>3. SocketShape' BY <1>14 DEF ServeEngine, ChildTo, how, Shapes, SocketShape
  <2> QED BY <2>1, <2>2, <2>3 DEF Shapes
<1>15. ASSUME NEW d \in Vmcellds, ServeEof(d) PROVE Shapes'
  <2>1. DaemonShape' BY <1>15 DEF ServeEof, ChildTo, how, ChildAlive, Shapes, DaemonShape
  <2>2. HowShape' BY <1>15 DEF ServeEof, ChildTo, how, Shapes, HowShape
  <2>3. SocketShape' BY <1>15 DEF ServeEof, ChildTo, how, Shapes, SocketShape
  <2> QED BY <2>1, <2>2, <2>3 DEF Shapes
<1>16. ASSUME NEW d \in Vmcellds, ServeShutdown(d) PROVE Shapes'
  <2>1. DaemonShape' BY <1>16 DEF ServeShutdown, ChildTo, how, ChildAlive, Shapes, DaemonShape
  <2>2. HowShape' BY <1>16 DEF ServeShutdown, ChildTo, how, Shapes, HowShape
  <2>3. SocketShape' BY <1>16 DEF ServeShutdown, ChildTo, how, Shapes, SocketShape
  <2> QED BY <2>1, <2>2, <2>3 DEF Shapes
<1>17. ASSUME NEW d \in Vmcellds, ChildExits(d) PROVE Shapes'
  <2>1. DaemonShape' BY <1>17 DEF ChildExits, ChildTo, how, ChildAlive, Shapes, DaemonShape
  <2>2. HowShape' BY <1>17 DEF ChildExits, ChildTo, how, Shapes, HowShape
  <2>3. SocketShape' BY <1>17 DEF ChildExits, ChildTo, how, Shapes, SocketShape
  <2> QED BY <2>1, <2>2, <2>3 DEF Shapes
<1>18. ASSUME NEW d \in Vmcellds, Vm(d) PROVE Shapes'
  <2>1. DaemonShape' BY <1>18 DEF Vm, how, ChildAlive, Shapes, DaemonShape
  <2>2. HowShape' BY <1>18 DEF Vm, how, Shapes, HowShape
  <2>3. SocketShape' BY <1>18 DEF Vm, how, Shapes, SocketShape
  <2> QED BY <2>1, <2>2, <2>3 DEF Shapes
<1>19. ASSUME NEW d \in Vmcellds, ServerError(d) PROVE Shapes'
  BY <1>19, StopShapes DEF ServerError, Shapes, DaemonShape
<1>20. ASSUME NEW d \in Vmcellds, NEW group \in BOOLEAN, Signal(d, group) PROVE Shapes'
  <2> DEFINE dies == group /\ DiesOfSignal(d)
  <2>0. \A c \in ChildAlive \cup {"none", "gone"} :
          (IF dies THEN "gone" ELSE c) \in ChildAlive \cup {"none", "gone"}
    OBVIOUS
  <2>1. child[d] \in ChildAlive \cup {"none", "gone"} /\ ChildAfter(d, FALSE) \in ChildAlive \cup {"none", "gone"}
    BY DEF ChildAfter, Shapes, DaemonShape
  <2>2. CASE /\ GoOn(d, "gone")
             /\ caps' = [caps EXCEPT ![d] = FALSE]
             /\ child' = [child EXCEPT ![d] = IF dies THEN "gone" ELSE ChildAfter(d, FALSE)]
             /\ Closed(d)
             /\ UNCHANGED <<how, pdeathsig, vms, sock, struck, crashes>>
    <3>1. /\ dpc' \in [Vmcellds -> Stages] /\ overlap' \in BOOLEAN
      BY <2>2, GoOnMoves DEF Shapes, SocketShape
    <3>2. child' \in [Vmcellds -> ChildAlive \cup {"none", "gone"}]
      BY <2>0, <2>1, <2>2 DEF Shapes, DaemonShape
    <3>3. DaemonShape' BY <2>2, <3>1, <3>2 DEF Shapes, DaemonShape
    <3>4. HowShape' BY <2>2 DEF how, Shapes, HowShape
    <3>5. SocketShape' BY <2>2, <3>1 DEF Closed, Shapes, SocketShape
    <3> QED BY <3>3, <3>4, <3>5 DEF Shapes
  <2>3. CASE StopServing(d) /\ child' = [child EXCEPT ![d] = IF dies THEN "gone" ELSE child[d]]
    <3>1. child' \in [Vmcellds -> ChildAlive \cup {"none", "gone"}]
      BY <2>0, <2>1, <2>3 DEF Shapes, DaemonShape
    <3> QED BY <2>3, <3>1, StopShapes
  <2>4. CASE ChildTo(d, "gone") /\ UNCHANGED <<pdeathsig, vms>>
    <3>1. DaemonShape' BY <2>4 DEF ChildTo, Shapes, DaemonShape
    <3>2. HowShape' BY <2>4 DEF ChildTo, how, Shapes, HowShape
    <3>3. SocketShape' BY <2>4 DEF ChildTo, Shapes, SocketShape
    <3> QED BY <3>1, <3>2, <3>3 DEF Shapes
  <2> QED BY <1>20, <2>2, <2>3, <2>4 DEF Signal
<1>21. ASSUME NEW d \in Vmcellds, KillDaemon(d) PROVE Shapes'
  <2>1. struck' \subseteq Vmcellds /\ crashes' \in 0..MaxCrashes
    BY <1>21, VmcelldConstants DEF KillDaemon, Shapes, HowShape
  <2>2. CASE Ends(d, FALSE) /\ UNCHANGED sock BY <2>1, <2>2, EndsShapes
  <2>3. CASE /\ child' = [child EXCEPT ![d] = "gone"]
             /\ UNCHANGED <<dpc, how, caps, pdeathsig, vms, tcp, sock, sockets, overlap>>
    <3>1. DaemonShape' BY <2>3 DEF Shapes, DaemonShape
    <3>2. HowShape' BY <2>1, <2>3 DEF how, Shapes, HowShape
    <3>3. SocketShape' BY <2>3 DEF Shapes, SocketShape
    <3> QED BY <3>1, <3>2, <3>3 DEF Shapes
  <2> QED BY <1>21, <2>2, <2>3 DEF KillDaemon
<1>22. CASE UNCHANGED vdVars
  BY <1>22 DEF vdVars, Shapes, DaemonShape, HowShape, SocketShape
<1> QED BY <1>1, <1>2, <1>3, <1>4, <1>5, <1>6, <1>7, <1>8, <1>9, <1>10, <1>11,
           <1>12, <1>13, <1>14, <1>15, <1>16, <1>17, <1>18, <1>19, <1>20, <1>21, <1>22
        DEF VmcelldNext, ParentStep, ChildStep

-----------------------------------------------------------------------------
(* Every step keeps the path in order *)

\* A daemon that ends closes its socket and leaves the file.
LEMMA EndKeepsPath ==
  ASSUME Shapes, PathInv, NEW d \in Vmcellds, GoOn(d, "gone"), Closed(d), UNCHANGED <<sock, uds>>
  PROVE  PathInv'
<1> USE DEF AtPath, Binding
<1>1. /\ dpc'[d] = "gone" /\ \A e \in Vmcellds : e # d => dpc'[e] = dpc[e]
      /\ ~overlap' => ~overlap
      /\ Alone'
  BY GoOnMoves DEF Shapes, Stages
<1>2. sockets' = sockets \ {d} BY DEF Closed
<1>3. SocketIsOpen' BY <1>1, <1>2 DEF PathInv, SocketIsOpen, Shapes, SocketShape
<1>4. FileIsBound' BY <1>1 DEF PathInv, FileIsBound
<1>5. AtPathIsUds' BY <1>1 DEF PathInv, AtPathIsUds
<1>6. BoundIsReached' BY <1>1, <1>2 DEF PathInv, BoundIsReached
<1>7. RemovesNoneOpen' BY <1>1, <1>2 DEF PathInv, RemovesNoneOpen
<1> QED BY <1>1, <1>3, <1>4, <1>5, <1>6, <1>7 DEF PathInv

\* So does one that stops serving; it then has the file to unlink.
LEMMA StopKeepsPath ==
  ASSUME Shapes, PathInv, NEW d \in Vmcellds, dpc[d] = "serve", StopServing(d)
  PROVE  PathInv'
<1> USE DEF AtPath, Binding
<1>0. UnlinkStep(d) \in Stages BY DEF UnlinkStep, Stages, DaemonRuns
<1>1. /\ dpc'[d] = UnlinkStep(d) /\ \A e \in Vmcellds : e # d => dpc'[e] = dpc[e]
      /\ ~overlap' => ~overlap
      /\ Alone'
  BY <1>0, GoOnMoves DEF StopServing, Shapes
<1>2. /\ sockets' = sockets \ {d} /\ UNCHANGED <<sock, uds>>
      /\ UnlinkStep(d) \in {"unlink", "shutdown"} /\ (UnlinkStep(d) = "unlink" <=> uds[d])
  BY DEF StopServing, Closed, how, UnlinkStep
<1>3. SocketIsOpen' BY <1>1, <1>2 DEF PathInv, SocketIsOpen, Shapes, SocketShape
<1>4. FileIsBound' BY <1>1, <1>2 DEF PathInv, FileIsBound
<1>5. AtPathIsUds' BY <1>1, <1>2 DEF PathInv, AtPathIsUds
<1>6. BoundIsReached' BY <1>1, <1>2 DEF PathInv, BoundIsReached
<1>7. RemovesNoneOpen'
  BY <1>1, <1>2 DEF PathInv, BoundIsReached, RemovesNoneOpen
<1> QED BY <1>1, <1>3, <1>4, <1>5, <1>6, <1>7 DEF PathInv

\* A daemon that goes on and touches neither the path nor a socket.
LEMMA MoveKeepsPath ==
  ASSUME Shapes, PathInv, NEW d \in Vmcellds, NEW to \in Stages, GoOn(d, to),
         UNCHANGED <<sock, sockets>>, \A e \in Vmcellds : e # d => uds'[e] = uds[e],
         dpc[d] \in {"narrow", "serve", "unlink", "gone"} => dpc[d] = "narrow" /\ to = "serve",
         dpc[d] # "off" => uds'[d] = uds[d],
         to \in AtPath => uds'[d],
         to \in {"serve", "narrow"} => dpc[d] = "narrow" \/ ~uds'[d],
         to \in {"reclaim", "unlink"} => sock \notin sockets
  PROVE  PathInv'
<1> USE DEF AtPath, Binding
<1>1. /\ dpc'[d] = to /\ \A e \in Vmcellds : e # d => dpc'[e] = dpc[e]
      /\ ~overlap' => ~overlap
      /\ Alone'
  BY GoOnMoves DEF Shapes
<1>3. SocketIsOpen'
  BY <1>1 DEF PathInv, SocketIsOpen, Shapes, SocketShape
<1>4. FileIsBound' BY <1>1 DEF PathInv, FileIsBound
<1>5. AtPathIsUds' BY <1>1 DEF PathInv, AtPathIsUds
<1>6. BoundIsReached' BY <1>1 DEF PathInv, BoundIsReached
<1>7. RemovesNoneOpen' BY <1>1 DEF PathInv, RemovesNoneOpen
<1> QED BY <1>1, <1>3, <1>4, <1>5, <1>6, <1>7 DEF PathInv

\* Removing what is at the path.
LEMMA RemovalKeepsPath ==
  ASSUME Shapes, PathInv, NEW d \in Vmcellds, NEW to \in {"bind", "shutdown"}, GoOn(d, to),
         dpc[d] \in {"reclaim", "unlink"}, sock' = Nothing, UNCHANGED <<sockets, uds>>
  PROVE  PathInv'
<1> USE DEF AtPath, Binding
<1>1. /\ dpc'[d] = to /\ \A e \in Vmcellds : e # d => dpc'[e] = dpc[e]
      /\ ~overlap' => ~overlap
      /\ Alone'
  BY GoOnMoves DEF Shapes, Stages, DaemonRuns
<1>2. Nothing \notin Vmcellds BY VmcelldConstants
<1>3. SocketIsOpen' BY <1>1 DEF PathInv, SocketIsOpen, Shapes, SocketShape
<1>4. FileIsBound' BY <1>2 DEF FileIsBound
<1>5. AtPathIsUds' BY <1>1 DEF PathInv, AtPathIsUds
<1>6. BoundIsReached' BY <1>1 DEF PathInv, BoundIsReached, RemovesNoneOpen
<1>7. RemovesNoneOpen' BY <1>1, <1>2 DEF PathInv, RemovesNoneOpen, Shapes, SocketShape
<1> QED BY <1>1, <1>3, <1>4, <1>5, <1>6, <1>7 DEF PathInv

\* A step that is none of the path's.
LEMMA PathFrame ==
  ASSUME PathInv, UNCHANGED <<dpc, uds, sock, sockets, overlap>>
  PROVE  PathInv'
BY DEF PathInv, SocketIsOpen, FileIsBound, AtPathIsUds, Alone, BoundIsReached, RemovesNoneOpen

\* Every step keeps the path in order.
LEMMA PathNext ==
  ASSUME Shapes, PathInv, [VmcelldNext]_vdVars
  PROVE  PathInv'
<1>0. ASSUME NEW d \in Vmcellds, Fails(d) PROVE PathInv'
  BY <1>0, EndKeepsPath DEF Fails, Ends, how
<1>1. ASSUME NEW d \in Vmcellds, NEW forks \in BOOLEAN, NEW u \in BOOLEAN, NEW a \in Addrs,
            StartDaemon(d, forks, a, u)
     PROVE  PathInv'
  <2>1. FirstStep(forks) \in {"caps", "tcp"} BY DEF FirstStep
  <2>2. dpc[d] = "off" /\ GoOn(d, FirstStep(forks)) /\ UNCHANGED <<sock, sockets>>
    BY <1>1 DEF StartDaemon
  <2>3. \A e \in Vmcellds : e # d => uds'[e] = uds[e]
    BY <1>1 DEF StartDaemon, Shapes, HowShape
  <2> QED BY <2>1, <2>2, <2>3, MoveKeepsPath DEF Stages, DaemonRuns, AtPath, Binding
<1>2. ASSUME NEW d \in Vmcellds, DropCaps(d) PROVE PathInv'
  BY <1>2, MoveKeepsPath DEF DropCaps, how, Stages, DaemonRuns, AtPath, Binding
<1>3. ASSUME NEW d \in Vmcellds, SetupFails(d) PROVE PathInv'
  BY <1>0, <1>3 DEF SetupFails
<1>4. ASSUME NEW d \in Vmcellds, BindTcp(d) PROVE PathInv'
  <2>1. CASE tcp[addr[d]] = Nothing
    <3>1. dpc[d] = "tcp" /\ UNCHANGED <<sock, sockets, uds>> BY <1>4, <2>1 DEF BindTcp, how
    <3>2. CASE uds[d] /\ GoOn(d, "look")
      BY <3>1, <3>2, MoveKeepsPath DEF Stages, DaemonRuns, AtPath, Binding
    <3>3. CASE ~uds[d] /\ GoOn(d, "serve")
      BY <3>1, <3>3, MoveKeepsPath DEF Stages, DaemonRuns, AtPath, Binding
    <3> QED BY <1>4, <2>1, <3>2, <3>3 DEF BindTcp
  <2>2. CASE tcp[addr[d]] # Nothing BY <1>0, <1>4, <2>2 DEF BindTcp
  <2> QED BY <2>1, <2>2
<1>5. ASSUME NEW d \in Vmcellds, Look(d) PROVE PathInv'
  <2>0. uds[d] BY <1>5 DEF Look, PathInv, AtPathIsUds, AtPath, Binding
  <2>1. ASSUME NEW to \in {"bind", "probe"}, ToPath(d, to), UNCHANGED <<sock, sockets>> PROVE PathInv'
    BY <1>5, <2>0, <2>1, MoveKeepsPath DEF Look, ToPath, how, Stages, DaemonRuns, AtPath, Binding
  <2> QED BY <1>0, <1>5, <2>1 DEF Look
<1>6. ASSUME NEW d \in Vmcellds, Probe(d) PROVE PathInv'
  <2>0. uds[d] BY <1>6 DEF Probe, PathInv, AtPathIsUds, AtPath, Binding
  <2>1. CASE Stale /\ ToPath(d, "reclaim") /\ UNCHANGED <<sock, sockets>>
    BY <1>6, <2>0, <2>1, MoveKeepsPath
       DEF Probe, Stale, ToPath, how, Stages, DaemonRuns, AtPath, Binding
  <2> QED BY <1>0, <1>6, <2>1 DEF Probe
<1>7. ASSUME NEW d \in Vmcellds, Reclaim(d) PROVE PathInv'
  <2>1. CASE ToPath(d, "bind") /\ sock' = Nothing /\ UNCHANGED sockets
    BY <1>7, <2>1, RemovalKeepsPath DEF Reclaim, ToPath, how
  <2> QED BY <1>0, <1>7, <2>1 DEF Reclaim
<1>8. ASSUME NEW d \in Vmcellds, BindUds(d) PROVE PathInv'
  <2>0. uds[d] BY <1>8 DEF BindUds, PathInv, AtPathIsUds, AtPath, Binding
  <2>1. CASE sock = Nothing /\ ToPath(d, "narrow") /\ sock' = d /\ sockets' = sockets \cup {d}
    <3>1. /\ dpc'[d] = "narrow" /\ \A e \in Vmcellds : e # d => dpc'[e] = dpc[e]
          /\ ~overlap' => ~overlap
          /\ Alone' /\ UNCHANGED uds
      BY <2>1, GoOnMoves DEF ToPath, how, Shapes, Stages, DaemonRuns, AtPath, Binding
    <3>2. Nothing \notin Vmcellds BY VmcelldConstants
    <3>3. SocketIsOpen' BY <2>1, <3>1 DEF PathInv, SocketIsOpen, Shapes, SocketShape
    <3>4. FileIsBound' BY <2>0, <2>1, <3>1 DEF FileIsBound
    <3>5. AtPathIsUds' BY <2>0, <3>1 DEF PathInv, AtPathIsUds
    <3>6. BoundIsReached' BY <2>1, <3>1, <3>2 DEF PathInv, BoundIsReached
    <3>7. RemovesNoneOpen' BY <3>1 DEF Alone, RemovesNoneOpen, AtPath, Binding
    <3> QED BY <3>1, <3>3, <3>4, <3>5, <3>6, <3>7 DEF PathInv
  <2> QED BY <1>0, <1>8, <2>1 DEF BindUds
<1>9. ASSUME NEW d \in Vmcellds, Narrow(d) PROVE PathInv'
  <2>0. uds[d] BY <1>9 DEF Narrow, PathInv, AtPathIsUds, AtPath, Binding
  <2>1. CASE ToPath(d, "serve") /\ UNCHANGED <<sock, sockets>>
    BY <1>9, <2>0, <2>1, MoveKeepsPath DEF Narrow, ToPath, how, Stages, DaemonRuns, AtPath, Binding
  <2> QED BY <1>0, <1>9, <2>1 DEF Narrow
<1>10. ASSUME NEW d \in Vmcellds, UnlinkSocket(d) PROVE PathInv'
  BY <1>10, RemovalKeepsPath DEF UnlinkSocket, ToPath, how
<1>11. ASSUME NEW d \in Vmcellds, Exit(d) PROVE PathInv'
  BY <1>0, <1>11 DEF Exit
<1>12. ASSUME NEW d \in Vmcellds, Arm(d) PROVE PathInv'
  BY <1>12, PathFrame DEF Arm, ChildTo, how
<1>13. ASSUME NEW d \in Vmcellds, IgnoreSignals(d) PROVE PathInv'
  BY <1>13, PathFrame DEF IgnoreSignals, ChildTo, how
<1>14. ASSUME NEW d \in Vmcellds, ServeEngine(d) PROVE PathInv'
  BY <1>14, PathFrame DEF ServeEngine, ChildTo, how
<1>15. ASSUME NEW d \in Vmcellds, ServeEof(d) PROVE PathInv'
  BY <1>15, PathFrame DEF ServeEof, ChildTo, how
<1>16. ASSUME NEW d \in Vmcellds, ServeShutdown(d) PROVE PathInv'
  BY <1>16, PathFrame DEF ServeShutdown, ChildTo, how
<1>17. ASSUME NEW d \in Vmcellds, ChildExits(d) PROVE PathInv'
  BY <1>17, PathFrame DEF ChildExits, ChildTo, how
<1>18. ASSUME NEW d \in Vmcellds, Vm(d) PROVE PathInv'
  BY <1>18, PathFrame DEF Vm, how
<1>19. ASSUME NEW d \in Vmcellds, ServerError(d) PROVE PathInv'
  BY <1>19, StopKeepsPath DEF ServerError
<1>20. ASSUME NEW d \in Vmcellds, NEW group \in BOOLEAN, Signal(d, group) PROVE PathInv'
  <2>1. CASE GoOn(d, "gone") /\ Closed(d) /\ UNCHANGED <<sock, uds>> BY <2>1, EndKeepsPath
  <2>2. CASE dpc[d] = "serve" /\ StopServing(d) BY <2>2, StopKeepsPath
  <2>3. CASE ChildTo(d, "gone") BY <2>3, PathFrame DEF ChildTo, how
  <2> QED BY <1>20, <2>1, <2>2, <2>3 DEF Signal, how
<1>21. ASSUME NEW d \in Vmcellds, KillDaemon(d) PROVE PathInv'
  <2>1. CASE Ends(d, FALSE) /\ UNCHANGED sock BY <2>1, EndKeepsPath DEF Ends, how
  <2>2. CASE UNCHANGED <<dpc, how, sock, sockets, overlap>> BY <2>2, PathFrame DEF how
  <2> QED BY <1>21, <2>1, <2>2 DEF KillDaemon
<1>22. CASE UNCHANGED vdVars
  BY <1>22, PathFrame DEF vdVars
<1> QED BY <1>1, <1>2, <1>3, <1>4, <1>5, <1>6, <1>7, <1>8, <1>9, <1>10, <1>11,
           <1>12, <1>13, <1>14, <1>15, <1>16, <1>17, <1>18, <1>19, <1>20, <1>21, <1>22
        DEF VmcelldNext, ParentStep, ChildStep

-----------------------------------------------------------------------------
(* Every step keeps capabilities and VMs where they belong *)

\* A process that ends holds nothing; VMs are left only by one that was struck.
LEMMA EndKeepsHolders ==
  ASSUME Shapes, HolderInv, NEW d \in Vmcellds, NEW dropped \in BOOLEAN, Ends(d, dropped),
         UNCHANGED struck \/ struck' = struck \cup {d},
         d \in struck' \/ ~vms'[d]
  PROVE  HolderInv'
<1>1. dpc'[d] = "gone" /\ \A e \in Vmcellds : e # d => dpc'[e] = dpc[e]
  BY GoOnMoves DEF Ends, Shapes, Stages
<1>2. /\ ~caps'[d] /\ UNCHANGED split
      /\ \A e \in Vmcellds : e # d => caps'[e] = caps[e] /\ child'[e] = child[e] /\ vms'[e] = vms[e]
      /\ child'[d] \in {child[d], "gone"} /\ (child[d] = "none" => child'[d] = "none")
  BY DEF Ends, ChildAfter, ChildAlive, how, Shapes, DaemonShape
<1>3. \A a \in Addrs : tcp'[a] = IF tcp[a] = d THEN Nothing ELSE tcp[a] BY DEF Ends, Closed
<1>4. ListensLate'
  BY <1>1, <1>3, VmcelldConstants DEF HolderInv, ListensLate, Shapes, SocketShape
<1>5. CapsEarly' BY <1>1, <1>2 DEF HolderInv, CapsEarly
<1>6. VmsAreServed' BY <1>1, <1>2 DEF HolderInv, VmsAreServed
<1>7. NoBroker' BY <1>2 DEF HolderInv, NoBroker
<1> QED BY <1>4, <1>5, <1>6, <1>7 DEF HolderInv

\* An early return: nothing ran yet, or the broker that served it is done.
LEMMA FailKeepsHolders ==
  ASSUME Shapes, HolderInv, NEW d \in Vmcellds, Fails(d),
         \/ dpc[d] \notin {"serve", "unlink", "shutdown"}
         \/ split[d] => child[d] # "serve"
  PROVE  HolderInv'
<1>1. Ends(d, TRUE) /\ UNCHANGED struck BY DEF Fails
<1>2. d \in struck \/ ~vms'[d]
  BY <1>1 DEF Ends, HolderInv, VmsAreServed, Shapes, DaemonShape, HowShape
<1> QED BY <1>1, <1>2, EndKeepsHolders

\* A daemon that goes on and changes nothing that is held.
LEMMA MoveKeepsHolders ==
  ASSUME Shapes, HolderInv, NEW d \in Vmcellds, NEW to \in Stages, GoOn(d, to),
         UNCHANGED <<split, caps, child, vms, tcp, struck>>,
         dpc[d] # "caps",
         dpc[d] \in {"serve"} \cup Binding => to \in {"serve"} \cup Binding,
         dpc[d] \in {"serve", "unlink", "shutdown"} => to \in {"serve", "unlink", "shutdown"}
  PROVE  HolderInv'
<1>1. dpc'[d] = to /\ \A e \in Vmcellds : e # d => dpc'[e] = dpc[e]
  BY GoOnMoves DEF Shapes
<1>2. ListensLate' BY <1>1 DEF HolderInv, ListensLate, Shapes, SocketShape
<1>3. CapsEarly' BY <1>1 DEF HolderInv, CapsEarly
<1>4. VmsAreServed' BY <1>1 DEF HolderInv, VmsAreServed
<1>5. NoBroker' BY DEF HolderInv, NoBroker
<1> QED BY <1>2, <1>3, <1>4, <1>5 DEF HolderInv

\* A step of the broker: it stops serving only with its VMs gone.
LEMMA ChildKeepsHolders ==
  ASSUME Shapes, HolderInv, NEW d \in Vmcellds, NEW to, ChildTo(d, to), child[d] # "none",
         \/ UNCHANGED vms /\ child[d] # "serve"
         \/ vms' = [vms EXCEPT ![d] = FALSE]
  PROVE  HolderInv'
<1>1. /\ UNCHANGED <<dpc, split, caps, tcp, struck>>
      /\ \A e \in Vmcellds : e # d => child'[e] = child[e] /\ vms'[e] = vms[e]
  BY DEF ChildTo, how, Shapes, DaemonShape
<1>2. split[d] BY DEF HolderInv, NoBroker
<1>3. d \in struck \/ ~vms'[d]
  BY <1>2 DEF HolderInv, VmsAreServed, Shapes, DaemonShape
<1>4. ListensLate' /\ CapsEarly' BY <1>1 DEF HolderInv, ListensLate, CapsEarly
<1>5. VmsAreServed' BY <1>1, <1>3 DEF HolderInv, VmsAreServed
<1>6. NoBroker' BY <1>1, <1>2 DEF HolderInv, NoBroker
<1> QED BY <1>4, <1>5, <1>6 DEF HolderInv

\* The listeners close; a broker that a signal ends then had not begun to serve.
LEMMA StopKeepsHolders ==
  ASSUME Shapes, HolderInv, NEW d \in Vmcellds, dpc[d] = "serve", StopServing(d),
         UNCHANGED child \/ (DiesOfSignal(d) /\ child' = [child EXCEPT ![d] = "gone"])
  PROVE  HolderInv'
<1>0. UnlinkStep(d) \in {"unlink", "shutdown"} BY DEF UnlinkStep
<1>1. dpc'[d] = UnlinkStep(d) /\ \A e \in Vmcellds : e # d => dpc'[e] = dpc[e]
  BY <1>0, GoOnMoves DEF StopServing, Shapes, Stages, DaemonRuns, AtPath
<1>2. UNCHANGED <<split, caps, vms, struck>> BY DEF StopServing, how
<1>3. /\ \A e \in Vmcellds : e # d => child'[e] = child[e]
      /\ child'[d] = child[d] \/ (child[d] \notin {"serve", "none"} /\ child'[d] = "gone")
  BY DEF DiesOfSignal, Shapes, DaemonShape
<1>4. \A a \in Addrs : tcp'[a] = IF tcp[a] = d THEN Nothing ELSE tcp[a]
  BY DEF StopServing, Closed
<1>5. ListensLate'
  BY <1>1, <1>4, VmcelldConstants DEF HolderInv, ListensLate, Shapes, SocketShape
<1>6. CapsEarly' BY <1>0, <1>1, <1>2 DEF HolderInv, CapsEarly
<1>7. VmsAreServed' BY <1>0, <1>1, <1>2, <1>3 DEF HolderInv, VmsAreServed
<1>8. NoBroker' BY <1>2, <1>3 DEF HolderInv, NoBroker
<1> QED BY <1>5, <1>6, <1>7, <1>8 DEF HolderInv

\* Every step keeps capabilities and VMs where they belong.
LEMMA HolderNext ==
  ASSUME Shapes, HolderInv, [VmcelldNext]_vdVars
  PROVE  HolderInv'
<1>1. ASSUME NEW d \in Vmcellds, NEW forks \in BOOLEAN, NEW u \in BOOLEAN, NEW a \in Addrs,
            StartDaemon(d, forks, a, u)
     PROVE  HolderInv'
  <2>1. FirstStep(forks) = IF forks THEN "caps" ELSE "tcp" BY DEF FirstStep
  <2>2. /\ dpc[d] = "off" /\ dpc'[d] = FirstStep(forks)
        /\ \A e \in Vmcellds : e # d => dpc'[e] = dpc[e]
    BY <1>1, <2>1, GoOnMoves DEF StartDaemon, Shapes, Stages, DaemonRuns
  <2>3. /\ split'[d] = forks /\ child'[d] = IF forks THEN "forked" ELSE "none"
        /\ \A e \in Vmcellds : e # d => /\ split'[e] = split[e] /\ caps'[e] = caps[e]
                                        /\ child'[e] = child[e]
        /\ UNCHANGED <<vms, tcp, struck>>
    BY <1>1 DEF StartDaemon, Shapes, DaemonShape, HowShape
  <2>4. ListensLate'
    BY <2>2, <2>3 DEF HolderInv, ListensLate, Shapes, SocketShape, Binding
  <2>5. CapsEarly' BY <2>1, <2>2, <2>3 DEF HolderInv, CapsEarly
  <2>6. VmsAreServed' BY <2>2, <2>3 DEF HolderInv, VmsAreServed
  <2>7. NoBroker' BY <2>3 DEF HolderInv, NoBroker
  <2> QED BY <2>4, <2>5, <2>6, <2>7 DEF HolderInv
<1>2. ASSUME NEW d \in Vmcellds, DropCaps(d) PROVE HolderInv'
  <2>1. /\ dpc[d] = "caps" /\ dpc'[d] = "tcp" /\ \A e \in Vmcellds : e # d => dpc'[e] = dpc[e]
    BY <1>2, GoOnMoves DEF DropCaps, Shapes, Stages, DaemonRuns
  <2>2. /\ ~caps'[d] /\ \A e \in Vmcellds : e # d => caps'[e] = caps[e]
        /\ UNCHANGED <<split, child, vms, tcp, struck>>
    BY <1>2 DEF DropCaps, how, Shapes, DaemonShape
  <2>3. ListensLate' BY <2>1, <2>2 DEF HolderInv, ListensLate, Shapes, SocketShape, Binding
  <2>4. CapsEarly' BY <2>1, <2>2 DEF HolderInv, CapsEarly
  <2>5. VmsAreServed' BY <2>1, <2>2 DEF HolderInv, VmsAreServed
  <2>6. NoBroker' BY <2>2 DEF HolderInv, NoBroker
  <2> QED BY <2>3, <2>4, <2>5, <2>6 DEF HolderInv
<1>3. ASSUME NEW d \in Vmcellds, SetupFails(d) PROVE HolderInv'
  BY <1>3, FailKeepsHolders DEF SetupFails
<1>4. ASSUME NEW d \in Vmcellds, BindTcp(d) PROVE HolderInv'
  <2>1. CASE tcp[addr[d]] = Nothing
    <3>1. /\ dpc[d] = "tcp" /\ dpc'[d] \in {"look", "serve"}
          /\ \A e \in Vmcellds : e # d => dpc'[e] = dpc[e]
      BY <1>4, <2>1, GoOnMoves DEF BindTcp, Shapes, Stages, DaemonRuns, AtPath, Binding
    <3>2. /\ UNCHANGED <<split, caps, child, vms, struck>>
          /\ \A a \in Addrs : tcp'[a] \in {tcp[a], d}
      BY <1>4, <2>1 DEF BindTcp, how, Shapes, SocketShape
    <3>3. ListensLate' BY <3>1, <3>2 DEF HolderInv, ListensLate, Shapes, SocketShape, Binding
    <3>4. CapsEarly' BY <3>1, <3>2 DEF HolderInv, CapsEarly
    <3>5. VmsAreServed' BY <3>1, <3>2 DEF HolderInv, VmsAreServed
    <3>6. NoBroker' BY <3>2 DEF HolderInv, NoBroker
    <3> QED BY <3>3, <3>4, <3>5, <3>6 DEF HolderInv
  <2>2. CASE tcp[addr[d]] # Nothing BY <1>4, <2>2, FailKeepsHolders DEF BindTcp
  <2> QED BY <2>1, <2>2
<1>5. ASSUME NEW d \in Vmcellds, Look(d) PROVE HolderInv'
  <2>1. ASSUME NEW to \in {"bind", "probe"}, ToPath(d, to) PROVE HolderInv'
    BY <1>5, <2>1, MoveKeepsHolders DEF Look, ToPath, how, Stages, DaemonRuns, AtPath, Binding
  <2> QED BY <1>5, <2>1, FailKeepsHolders DEF Look
<1>6. ASSUME NEW d \in Vmcellds, Probe(d) PROVE HolderInv'
  <2>1. ASSUME NEW to \in {"reclaim"}, ToPath(d, to) PROVE HolderInv'
    BY <1>6, <2>1, MoveKeepsHolders DEF Probe, ToPath, how, Stages, DaemonRuns, AtPath, Binding
  <2> QED BY <1>6, <2>1, FailKeepsHolders DEF Probe
<1>7. ASSUME NEW d \in Vmcellds, Reclaim(d) PROVE HolderInv'
  <2>1. ASSUME NEW to \in {"bind"}, ToPath(d, to) PROVE HolderInv'
    BY <1>7, <2>1, MoveKeepsHolders DEF Reclaim, ToPath, how, Stages, DaemonRuns, AtPath, Binding
  <2> QED BY <1>7, <2>1, FailKeepsHolders DEF Reclaim
<1>8. ASSUME NEW d \in Vmcellds, BindUds(d) PROVE HolderInv'
  <2>1. ASSUME NEW to \in {"narrow"}, ToPath(d, to) PROVE HolderInv'
    BY <1>8, <2>1, MoveKeepsHolders DEF BindUds, ToPath, how, Stages, DaemonRuns, AtPath, Binding
  <2> QED BY <1>8, <2>1, FailKeepsHolders DEF BindUds
<1>9. ASSUME NEW d \in Vmcellds, Narrow(d) PROVE HolderInv'
  <2>1. ASSUME NEW to \in {"serve"}, ToPath(d, to) PROVE HolderInv'
    BY <1>9, <2>1, MoveKeepsHolders DEF Narrow, ToPath, how, Stages, DaemonRuns, AtPath, Binding
  <2> QED BY <1>9, <2>1, FailKeepsHolders DEF Narrow
<1>10. ASSUME NEW d \in Vmcellds, UnlinkSocket(d) PROVE HolderInv'
  <2>1. ASSUME NEW to \in {"shutdown"}, ToPath(d, to) PROVE HolderInv'
    BY <1>10, <2>1, MoveKeepsHolders DEF UnlinkSocket, ToPath, how, Stages, DaemonRuns, AtPath,
       Binding
  <2> QED BY <1>10, <2>1 DEF UnlinkSocket
<1>11. ASSUME NEW d \in Vmcellds, Exit(d) PROVE HolderInv'
  BY <1>11, FailKeepsHolders DEF Exit
<1>12. ASSUME NEW d \in Vmcellds, Arm(d) PROVE HolderInv'
  BY <1>12, ChildKeepsHolders DEF Arm
<1>13. ASSUME NEW d \in Vmcellds, IgnoreSignals(d) PROVE HolderInv'
  BY <1>13, ChildKeepsHolders DEF IgnoreSignals
<1>14. ASSUME NEW d \in Vmcellds, ServeEngine(d) PROVE HolderInv'
  BY <1>14, ChildKeepsHolders DEF ServeEngine
<1>15. ASSUME NEW d \in Vmcellds, ServeEof(d) PROVE HolderInv'
  BY <1>15, ChildKeepsHolders DEF ServeEof
<1>16. ASSUME NEW d \in Vmcellds, ServeShutdown(d) PROVE HolderInv'
  BY <1>16, ChildKeepsHolders DEF ServeShutdown
<1>17. ASSUME NEW d \in Vmcellds, ChildExits(d) PROVE HolderInv'
  BY <1>17, ChildKeepsHolders DEF ChildExits
<1>18. ASSUME NEW d \in Vmcellds, Vm(d) PROVE HolderInv'
  <2>1. /\ UNCHANGED <<dpc, split, caps, child, tcp, struck>>
        /\ \A e \in Vmcellds : e # d => vms'[e] = vms[e]
        /\ dpc[d] = "serve" /\ (split[d] => child[d] = "serve")
    BY <1>18 DEF Vm, how, Shapes, DaemonShape
  <2>2. VmsAreServed' BY <2>1 DEF HolderInv, VmsAreServed
  <2> QED BY <2>1, <2>2 DEF HolderInv, ListensLate, CapsEarly, NoBroker
<1>19. ASSUME NEW d \in Vmcellds, ServerError(d) PROVE HolderInv'
  BY <1>19, StopKeepsHolders DEF ServerError
<1>20. ASSUME NEW d \in Vmcellds, NEW group \in BOOLEAN, Signal(d, group) PROVE HolderInv'
  <2> DEFINE dies == group /\ DiesOfSignal(d)
  <2>1. CASE /\ dpc[d] \in {"caps", "tcp"} \cup Binding
             /\ GoOn(d, "gone")
             /\ caps' = [caps EXCEPT ![d] = FALSE]
             /\ child' = [child EXCEPT ![d] = IF dies THEN "gone" ELSE ChildAfter(d, FALSE)]
             /\ Closed(d)
             /\ UNCHANGED <<how, pdeathsig, vms, sock, struck, crashes>>
    <3>1. dpc'[d] = "gone" /\ \A e \in Vmcellds : e # d => dpc'[e] = dpc[e]
      BY <2>1, GoOnMoves DEF Shapes, Stages
    <3>2. /\ ~caps'[d] /\ UNCHANGED <<split, vms, struck>>
          /\ \A e \in Vmcellds : e # d => caps'[e] = caps[e] /\ child'[e] = child[e]
          /\ child[d] = "none" => child'[d] = "none"
      BY <2>1 DEF ChildAfter, ChildAlive, DiesOfSignal, how, Shapes, DaemonShape
    <3>3. \A a \in Addrs : tcp'[a] = IF tcp[a] = d THEN Nothing ELSE tcp[a]
      BY <2>1 DEF Closed
    <3>4. ListensLate'
      BY <3>1, <3>3, VmcelldConstants DEF HolderInv, ListensLate, Shapes, SocketShape
    <3>5. CapsEarly' BY <3>1, <3>2 DEF HolderInv, CapsEarly
    <3>6. VmsAreServed' BY <2>1, <3>1, <3>2 DEF HolderInv, VmsAreServed, Binding
    <3>7. NoBroker' BY <3>2 DEF HolderInv, NoBroker
    <3> QED BY <3>4, <3>5, <3>6, <3>7 DEF HolderInv
  <2>2. CASE dpc[d] = "serve" /\ StopServing(d)
             /\ child' = [child EXCEPT ![d] = IF dies THEN "gone" ELSE child[d]]
    <3>1. UNCHANGED child \/ (DiesOfSignal(d) /\ child' = [child EXCEPT ![d] = "gone"])
      BY <2>2 DEF Shapes, DaemonShape
    <3> QED BY <2>2, <3>1, StopKeepsHolders
  <2>3. CASE dies /\ ChildTo(d, "gone") /\ UNCHANGED vms
    BY <2>3, ChildKeepsHolders DEF DiesOfSignal
  <2> QED BY <1>20, <2>1, <2>2, <2>3 DEF Signal
<1>21. ASSUME NEW d \in Vmcellds, KillDaemon(d) PROVE HolderInv'
  <2>1. struck' = struck \cup {d} BY <1>21 DEF KillDaemon
  <2>2. CASE Ends(d, FALSE) BY <2>1, <2>2, EndKeepsHolders
  <2>3. CASE /\ child[d] \in ChildAlive /\ child' = [child EXCEPT ![d] = "gone"]
             /\ UNCHANGED <<dpc, how, caps, vms, tcp>>
    <3>1. /\ \A e \in Vmcellds : e # d => child'[e] = child[e]
          /\ child[d] # "none" /\ UNCHANGED split
      BY <2>3 DEF ChildAlive, how, Shapes, DaemonShape
    <3>2. ListensLate' /\ CapsEarly' BY <2>3, <3>1 DEF HolderInv, ListensLate, CapsEarly
    <3>3. VmsAreServed' BY <2>1, <2>3, <3>1 DEF HolderInv, VmsAreServed
    <3>4. NoBroker' BY <3>1 DEF HolderInv, NoBroker
    <3> QED BY <3>2, <3>3, <3>4 DEF HolderInv
  <2> QED BY <1>21, <2>2, <2>3 DEF KillDaemon
<1>22. CASE UNCHANGED vdVars
  BY <1>22 DEF vdVars, HolderInv, ListensLate, CapsEarly, VmsAreServed, NoBroker
<1> QED BY <1>1, <1>2, <1>3, <1>4, <1>5, <1>6, <1>7, <1>8, <1>9, <1>10, <1>11,
           <1>12, <1>13, <1>14, <1>15, <1>16, <1>17, <1>18, <1>19, <1>20, <1>21, <1>22
        DEF VmcelldNext, ParentStep, ChildStep

-----------------------------------------------------------------------------

\* The invariant implies the property.
LEMMA VmcelldInvImplies == Shapes /\ PathInv /\ HolderInv => VmcelldSafe
<1> SUFFICES ASSUME Shapes, PathInv, HolderInv PROVE VmcelldSafe
  OBVIOUS
<1>1. sockets \subseteq {d \in Vmcellds : dpc[d] \in {"narrow", "serve"}}
  BY DEF Shapes, SocketShape, PathInv, SocketIsOpen
<1>2. VmcelldTypeOK BY <1>1 DEF Shapes, DaemonShape, HowShape, SocketShape, VmcelldTypeOK
<1>3. ServedSocketIsReached BY DEF PathInv, BoundIsReached, ServedSocketIsReached
<1>4. StoppedLeavesNoSocket BY DEF PathInv, FileIsBound, StoppedLeavesNoSocket
<1>5. ListensWithoutCaps
  BY VmcelldConstants DEF HolderInv, ListensLate, CapsEarly, ListensWithoutCaps, Binding
<1>6. SignalOrphansNothing BY DEF HolderInv, VmsAreServed, SignalOrphansNothing
<1> QED BY <1>2, <1>3, <1>4, <1>5, <1>6 DEF VmcelldSafe

\* Any number of daemons started on any addresses and one socket path, with signals at
\* any moment and processes killed: while no two are at the path at once, the socket
\* that clients reach is the serving daemon's (uds.rs); it goes with an ordered stop;
\* the process that listens next to a broker holds no capability; and a signal orphans
\* no VM (vmcelld/src/main.rs).
THEOREM DaemonsAreOrderly == VmcelldSpec => []VmcelldSafe
<1> DEFINE Inv == Shapes /\ PathInv /\ HolderInv
<1>1. VmcelldInit => Inv BY VmcelldInitInv
<1>2. Inv /\ [VmcelldNext]_vdVars => Inv' BY ShapesNext, PathNext, HolderNext
<1>3. Inv => VmcelldSafe BY VmcelldInvImplies
<1> HIDE DEF Inv
<1> QED BY <1>1, <1>2, <1>3, PTL DEF VmcelldSpec
=============================================================================
