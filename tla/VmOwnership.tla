---------------------------- MODULE VmOwnership -----------------------------
(***************************************************************************)
(* What the daemon's registry promises about the VMs it owns and the       *)
(* artifacts they were launched from, with no locks and no requests: each  *)
(* VM moves once through its life, and an artifact that a listed VM uses   *)
(* stays in the store.                                                     *)
(***************************************************************************)
CONSTANTS Vms, Names, Uploaded, None

VARIABLES
  phase,   \* [Vms -> "unborn", "live", "listed", "stopping", "gone"]
  uses,    \* [Vms -> the artifact the VM was launched from]
  files    \* the artifacts in the store

vars == <<phase, uses, files>>

Init ==
  /\ phase = [v \in Vms |-> "unborn"]
  /\ uses = [v \in Vms |-> None]
  /\ files = Uploaded

Move(v, from, to) ==
  /\ phase[v] = from
  /\ phase' = [phase EXCEPT ![v] = to]

\* create: the VM is up, then it is listed; a create dropped in between takes
\* the VM with it.
Launch(v, n) == Move(v, "unborn", "live") /\ uses' = [uses EXCEPT ![v] = n] /\ UNCHANGED files
List(v) == Move(v, "live", "listed") /\ UNCHANGED <<uses, files>>
Abandon(v) == Move(v, "live", "gone") /\ UNCHANGED <<uses, files>>

\* destroy: the VM leaves the list to be shut down, then is gone.
Unlist(v) == Move(v, "listed", "stopping") /\ UNCHANGED <<uses, files>>
Stop(v) == Move(v, "stopping", "gone") /\ UNCHANGED <<uses, files>>

Publish(n) == files' = files \cup {n} /\ UNCHANGED <<phase, uses>>

Delete(n) ==
  /\ \A v \in Vms : phase[v] = "listed" => uses[v] # n
  /\ files' = files \ {n}
  /\ UNCHANGED <<phase, uses>>

Next ==
  \/ \E v \in Vms : \/ \E n \in Names : Launch(v, n)
                    \/ List(v) \/ Abandon(v) \/ Unlist(v) \/ Stop(v)
  \/ \E n \in Names : Publish(n) \/ Delete(n)

Spec == Init /\ [][Next]_vars

=============================================================================
