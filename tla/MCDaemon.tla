----------------------------- MODULE MCDaemon -----------------------------
(***************************************************************************)
(* What surrounds the VMs: the engine bridge with deadlines, the launcher  *)
(* of the daemon and its privileges, the artifact store and the scratch    *)
(* disks, the artifact builders, the cassettes and the authority of the    *)
(* egress proxy, and the benchmark's frequency pin.  They share no state   *)
(* here: a behaviour moves one of them, which part says.                   *)
(***************************************************************************)
EXTENDS Bridge, Vmcelld, Privilege, ArtifactStore, Scratch, Pipeline, KernelBuild, Layers,
        Cassette, CaManager, CpuPin, TLC

CONSTANTS c1, x, sd, n1, n2, u1, u2, u3, k1

\* Upload u3 has a name of its own; the deletes aim at n1.
MCNameOf == [u \in Uploads |-> IF u = u3 THEN n2 ELSE n1]
MCTargetOf == [d \in Deletes |-> n1]

MCToolsDir == <<"a", "x">>
MCPaths == {<<"a">>, <<"a", "x">>, <<"a", "x", "y">>, <<"b">>}
MCInjectPaths == {<<"a", "x">>, <<"b">>}

\* What is interchangeable comes in order: daemons, their addresses, requests,
\* their keys, and the uploads of one name.
InOrder ==
  /\ daemon[u3] # "off" => daemon[u2] # "off"
  /\ daemon[u2] # "off" => daemon[u1] # "off"
  /\ dpc[u2] # "off" => dpc[u1] # "off"
  /\ dpc[u1] # "off" => addr[u1] = n1
  /\ up[u2] # "new" => up[u1] # "new"
  /\ at[u3] # "idle" => at[u2] # "idle"
  /\ at[u2] # "idle" => at[u1] # "idle"
  /\ dest[u1] # n2

\* Builders that met between two steps of a rebuild are followed no further, nor
\* is a fault of a builder after two edits.
FewRaces == ~raced /\ edits + faults <= 2

VARIABLE part

daemonVars == <<part, bridgeVars, vdVars, prVars, storeVars, scratchVars, plVars, kbVars, lyVars, casVars, caVars, pinVars>>

\* A part that does not move starts in one state; the pins are interchangeable.
DaemonInit ==
  /\ part \in {"bridge", "vmcelld", "privilege", "store", "scratch", "pipeline", "kernel", "layers", "cassette", "ca", "pin"}
  /\ BridgeInit /\ StoreInit /\ ScratchInit /\ PipelineInit /\ CasInit /\ CaInit
  /\ KernelInit /\ pin = 1
  /\ VmcelldInit /\ (part = "vmcelld" \/ sock = Nothing)
  /\ PinInit /\ (part = "pin" \/ \A k \in KnobIds : found[k] = "scaling")
  /\ LayersInit
  /\ \/ lower = << >>
     \/ part = "layers" /\ <<"b">> \in DOMAIN lower /\ lower[<<"b">>].type = "file"
  /\ PrivilegeInit
  /\ \/ part = "privilege"
     \/ /\ form = "root" /\ kb = {} /\ prStage = "parent"
        /\ \A f \in DOMAIN jail : ~jail[f]

OthersRest ==
  /\ UNCHANGED part
  /\ IF part = "bridge" THEN TRUE ELSE UNCHANGED bridgeVars
  /\ IF part = "vmcelld" THEN TRUE ELSE UNCHANGED vdVars
  /\ IF part = "privilege" THEN TRUE ELSE UNCHANGED prVars
  /\ IF part = "store" THEN TRUE ELSE UNCHANGED storeVars
  /\ IF part = "scratch" THEN TRUE ELSE UNCHANGED scratchVars
  /\ IF part = "pipeline" THEN TRUE ELSE UNCHANGED plVars
  /\ IF part = "kernel" THEN TRUE ELSE UNCHANGED kbVars
  /\ IF part = "layers" THEN TRUE ELSE UNCHANGED lyVars
  /\ IF part = "cassette" THEN TRUE ELSE UNCHANGED casVars
  /\ IF part = "ca" THEN TRUE ELSE UNCHANGED caVars
  /\ IF part = "pin" THEN TRUE ELSE UNCHANGED pinVars

DaemonNext ==
  \/ part = "bridge" /\ BridgeNext /\ OthersRest
  \/ part = "vmcelld" /\ VmcelldNext /\ OthersRest
  \/ part = "privilege" /\ PrivilegeNext /\ OthersRest
  \/ part = "store" /\ StoreNext /\ OthersRest
  \/ part = "scratch" /\ ScratchNext /\ OthersRest
  \/ part = "pipeline" /\ PipelineNext /\ OthersRest
  \/ part = "kernel" /\ KernelNext /\ OthersRest
  \/ part = "layers" /\ LayersNext /\ OthersRest
  \/ part = "cassette" /\ CasNext /\ OthersRest
  \/ part = "ca" /\ CaNext /\ OthersRest
  \/ part = "pin" /\ PinNext /\ OthersRest

DaemonSpec == DaemonInit /\ [][DaemonNext]_daemonVars

\* What the pipeline hands out is current (PipelineSafe), and so is the kernel
\* under it (KernelBuildSafe).
ArtifactsAreCurrent == PipelineSafe /\ KernelBuildSafe
===========================================================================
