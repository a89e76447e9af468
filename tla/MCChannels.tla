---------------------------- MODULE MCChannels ----------------------------
(***************************************************************************)
(* The vhost-user network device and the port forwarder.  They share no    *)
(* state here: a behaviour moves one of them, which part says, and is fair *)
(* to that one.                                                            *)
(***************************************************************************)
EXTENDS VhostNet, Forward

MCFwdBytes == <<1, 0>>
MCFwdOptions == {[half |-> TRUE, budget |-> FALSE], [half |-> FALSE, budget |-> TRUE]}

VARIABLE part

\* A part that does not move starts in one state.
ChannelsInit ==
  /\ part \in {"vhost", "forward"}
  /\ VhostInit /\ ForwardInit
  /\ part = "forward" \/ options.half

ChannelsNext ==
  /\ \/ part = "vhost" /\ VhostNext /\ UNCHANGED forwardVars
     \/ part = "forward" /\ ForwardNext /\ UNCHANGED vhostVars
  /\ UNCHANGED part

\* The fairness of each module, for the part that moves.
ChannelsFairness ==
  /\ WF_vhostVars(part = "vhost" /\ VhostThread) /\ WF_vhostVars(part = "vhost" /\ VringWorker)
  /\ WF_vhostVars(part = "vhost" /\ NetTake)
  /\ WF_vhostVars(part = "vhost" /\ (Notify \/ Wake \/ Join))
  /\ WF_forwardVars(part = "forward" /\ AcceptLoop)
  /\ WF_forwardVars(part = "forward" /\ CloseReturns)
  /\ \A c \in FwdConns : WF_forwardVars(part = "forward" /\ RelayStep(c))

ChannelsSpec ==
  ChannelsInit /\ [][ChannelsNext]_<<part, vhostVars, forwardVars>> /\ ChannelsFairness
===========================================================================
