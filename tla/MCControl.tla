----------------------------- MODULE MCControl -----------------------------
(***************************************************************************)
(* The guest's reaper and the one-shot client of the steward.  They share  *)
(* no state: a behaviour moves one of them, which part says, and is fair   *)
(* to that one.                                                            *)
(***************************************************************************)
EXTENDS Reaper, StewardClient

CONSTANTS p1, p2, j1, j2, o1

VARIABLE part

controlVars == <<part, reaperVars, clientVars>>

\* A part that does not move starts in one state.
ControlInit ==
  /\ part \in {"reaper", "client"}
  /\ ReaperInit /\ ClientInit
  /\ part = "client" \/ ~restored

ControlNext ==
  /\ \/ part = "reaper" /\ ReaperNext /\ UNCHANGED clientVars
     \/ part = "client" /\ ClientNext /\ UNCHANGED reaperVars
  /\ UNCHANGED part

\* The fairness of each module, for the part that moves; at rest nothing fair
\* is enabled in the reaper.
ControlFairness ==
  /\ ReaperFairness
  /\ WF_clientVars(part = "client" /\ OwnerStep)
  /\ \A c \in Conns : WF_clientVars(part = "client" /\ GuestStep(c))
  /\ WF_clientVars(part = "client" /\ Tick) /\ WF_clientVars(part = "client" /\ Rebind)

ControlSpec == ControlInit /\ [][ControlNext]_controlVars /\ ControlFairness

\* No fault wedges the client a MicroVm caches, and a listener that went deaf
\* is bound again: OwnerIsServed and DeafListenerRebinds, in the behaviours
\* that move the client.
ClientIsServed == (part = "client") => OwnerIsServed /\ DeafListenerRebinds
=============================================================================
