--------------------------- MODULE MCBridgeLive ---------------------------
(***************************************************************************)
(* The engine bridge with clients that disconnect, the shared filesystem   *)
(* and the egress proxy.  They share no state here: a behaviour moves one  *)
(* of them, which part says, and is fair to that one.                      *)
(***************************************************************************)
EXTENDS Bridge, FsShare, EgressProxy

CONSTANTS c1, x, sd

VARIABLE part

\* A part that does not move starts in one state.
LiveInit ==
  /\ part \in {"bridge", "fs", "egress"}
  /\ BridgeInit /\ FsInit /\ EgInit
  /\ part # "fs" => readOnly /\ ~fsEventIdx
  /\ part # "egress" => ~egNetns

LiveNext ==
  /\ \/ part = "bridge" /\ BridgeNext /\ UNCHANGED <<fsVars, egVars>>
     \/ part = "fs" /\ FsNext /\ UNCHANGED <<bridgeVars, egVars>>
     \/ part = "egress" /\ EgNext /\ UNCHANGED <<bridgeVars, fsVars>>
  /\ UNCHANGED part

\* The fairness of each module.  The initial state of the bridge enables
\* nothing fair; the others ask whether they move.
LiveFairness ==
  /\ BridgeFairness
  /\ WF_fsVars(part = "fs" /\ FsWorker)
  /\ WF_egVars(part = "egress" /\ StartStep) /\ WF_egVars(part = "egress" /\ Stopping)
  /\ WF_egVars(part = "egress" /\ Quiet /\ StopDone)
  /\ WF_egVars(part = "egress" /\ StartReturns) /\ WF_egVars(part = "egress" /\ DropReturns)
  /\ \A c \in EgConns :
       WF_egVars(part = "egress" /\ ConnStep(c)) /\ WF_egVars(part = "egress" /\ Expires(c))

LiveSpec ==
  LiveInit /\ [][LiveNext]_<<part, bridgeVars, fsVars, egVars>> /\ LiveFairness

\* The share's worker answers every request, and a read-only share stays as it
\* was (ReadOnlyTreeUntouched, RequestAnswered).
FsShareServes == [](FsTypeOK /\ ReadOnlyTreeUntouched) /\ RequestAnswered

\* The proxy hands on what it may and from where it may (EgressSafe), and neither
\* a connection's task nor the worker stays for ever (EgressEnds).
EgressServes == []EgressSafe /\ EgressEnds
===========================================================================
