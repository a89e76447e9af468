------------------------------ MODULE Forward ------------------------------
(***************************************************************************)
(* PortForward of vmcell/src/steward/forward.rs: a host TCP listener whose *)
(* connections are relayed to a vsock port of the guest.                   *)
(*                                                                         *)
(* One task accepts; each connection has a task that dials the guest and   *)
(* two pumps.  The first pump to end starts the drain budget of the other. *)
(* close() raises the cancel signal and waits for the accept task, which   *)
(* aborts and joins the relays.  Time is a timer that may run out.         *)
(***************************************************************************)
EXTENDS Naturals, FiniteSets

CONSTANTS
  FwdConns,
  FwdOptions,  \* the ForwardOptions: half: ForwardHalfClose, else DrainThenClose; budget: there is a connection_budget
  FwdBytes     \* bound: [FwdConns -> Nat], bytes a side sends

ASSUME ForwardConstants ==
  FwdBytes \in [FwdConns -> Nat] /\ FwdOptions \subseteq [half : BOOLEAN, budget : BOOLEAN]

Dirs == {"to_guest", "to_host"}

VARIABLES
  options,
  listener,  \* "open", "closed"
  owner,     \* the PortForward: "held", "closing", "closed"
  loop,      \* accept_loop: "select", "shutdown", "done"
  relay,     \* [FwdConns -> relay_connection]
  source,    \* [FwdConns -> [Dirs -> [sent, eof]]]: what the peers send
  sink,      \* [FwdConns -> [Dirs -> [got, eof]]]: what they have received
  active     \* ForwardCounters::active

forwardVars == <<options, listener, owner, loop, relay, source, sink, active>>

\* held: bytes read and not yet written; late: ended by a timer or a broken peer
NoPump == [pc |-> "off", held |-> 0, moved |-> 0, late |-> FALSE]

ForwardTypeOK ==
  /\ listener \in {"open", "closed"} /\ owner \in {"held", "closing", "closed"}
  /\ loop \in {"select", "shutdown", "done"}
  /\ active \in 0..Cardinality(FwdConns)
  /\ \A c \in FwdConns :
       /\ relay[c].pc \in {"none", "backlog", "dial", "relay", "drain", "done"}
       /\ \A d \in Dirs : /\ relay[c].pump[d].pc \in {"off", "read", "write", "done"}
                          /\ relay[c].pump[d].held + relay[c].pump[d].moved \in 0..FwdBytes[c]
                          /\ sink[c][d].got \in 0..source[c][d].sent

ForwardInit ==
  /\ options \in FwdOptions
  /\ listener = "open" /\ owner = "held" /\ loop = "select" /\ active = 0
  /\ relay = [c \in FwdConns |-> [pc |-> "none", pump |-> [d \in Dirs |-> NoPump]]]
  /\ source = [c \in FwdConns |-> [d \in Dirs |-> [sent |-> 0, eof |-> FALSE]]]
  /\ sink = [c \in FwdConns |-> [d \in Dirs |-> [got |-> 0, eof |-> FALSE]]]

StillRunning(c) == relay[c].pc \in {"dial", "relay", "drain"}
Relaying(c) == relay[c].pc \in {"relay", "drain"}

-----------------------------------------------------------------------------
(* The client and the guest; what comes too late for a pump makes no difference *)

ClientConnect(c) ==
  /\ relay[c].pc = "none" /\ listener = "open"
  /\ relay' = [relay EXCEPT ![c].pc = "backlog"]
  /\ UNCHANGED <<options, listener, owner, loop, source, sink, active>>

PeerSend(c, d) ==
  /\ (d = "to_guest" /\ relay[c].pc = "dial") \/ (Relaying(c) /\ relay[c].pump[d].pc # "done")
  /\ source[c][d].sent < FwdBytes[c] /\ ~source[c][d].eof
  /\ source' = [source EXCEPT ![c][d].sent = @ + 1]
  /\ UNCHANGED <<options, listener, owner, loop, relay, sink, active>>

PeerEnd(c, d) ==
  /\ Relaying(c) /\ relay[c].pump[d].pc # "done"
  /\ ~source[c][d].eof
  /\ source' = [source EXCEPT ![c][d].eof = TRUE]
  /\ UNCHANGED <<options, listener, owner, loop, relay, sink, active>>

-----------------------------------------------------------------------------
(* relay_connection *)

\* Drop for ActiveConnection
Left(n) == active - n

\* Both streams are dropped: the peers read the end of what was written.
Dropped(c) == [d \in Dirs |-> [sink[c][d] EXCEPT !.eof = TRUE]]

AcceptClient(c) ==
  /\ loop = "select" /\ owner = "held" /\ relay[c].pc = "backlog"
  /\ relay' = [relay EXCEPT ![c].pc = "dial"]
  /\ active' = active + 1
  /\ UNCHANGED <<options, listener, owner, loop, source, sink>>

DialOk(c) ==
  /\ relay[c].pc = "dial"
  /\ relay' = [relay EXCEPT ![c] = [pc |-> "relay", pump |-> [d \in Dirs |-> [NoPump EXCEPT !.pc = "read"]]]]
  /\ UNCHANGED <<options, listener, owner, loop, source, sink, active>>

DialFails(c) ==
  /\ relay[c].pc = "dial"
  /\ relay' = [relay EXCEPT ![c].pc = "done"]
  /\ sink' = [sink EXCEPT ![c] = Dropped(c)]
  /\ active' = Left(1)
  /\ UNCHANGED <<options, listener, owner, loop, source>>

PumpRead(c, d) ==
  LET p == relay[c].pump[d]
      n == source[c][d].sent - p.moved IN
  /\ Relaying(c) /\ p.pc = "read" /\ n > 0
  /\ relay' = [relay EXCEPT ![c].pump[d] = [p EXCEPT !.pc = "write", !.held = n]]
  /\ UNCHANGED <<options, listener, owner, loop, source, sink, active>>

Written(p) == [p EXCEPT !.pc = "read", !.held = 0, !.moved = @ + p.held]

PumpWrite(c, d) ==
  LET p == relay[c].pump[d] IN
  /\ Relaying(c) /\ p.pc = "write"
  /\ relay' = [relay EXCEPT ![c].pump[d] = Written(p)]
  /\ sink' = [sink EXCEPT ![c][d].got = @ + p.held]
  /\ UNCHANGED <<options, listener, owner, loop, source, active>>

\* client_to_guest forwards the half-close when told to, guest_to_client always.
Shuts(d) == d = "to_host" \/ options.half

\* The end of the stream is read; the flush and the half-close follow.
PumpEnd(c, d) ==
  LET p == relay[c].pump[d] IN
  /\ Relaying(c) /\ p.pc = "read" /\ p.moved = source[c][d].sent /\ source[c][d].eof
  /\ relay' = [relay EXCEPT ![c].pump[d].pc = "done"]
  /\ sink' = [sink EXCEPT ![c][d].eof = @ \/ Shuts(d)]
  /\ UNCHANGED <<options, listener, owner, loop, source, active>>

\* Mutant: a pump that fails half-closes what it writes to.
FailedShuts(c, d) == sink' = [sink EXCEPT ![c][d].eof = TRUE]
Failed(c, d) == UNCHANGED sink

\* bounded: the connection budget runs out, or the peer it writes to is gone.
PumpFails(c, d) ==
  /\ Relaying(c) /\ relay[c].pump[d].pc \in {"read", "write"}
  /\ options.budget \/ relay[c].pump[d].pc = "write"
  /\ relay' = [relay EXCEPT ![c].pump[d] = [@ EXCEPT !.pc = "done", !.late = TRUE]]
  /\ Failed(c, d)
  /\ UNCHANGED <<options, listener, owner, loop, source, active>>

FirstEnds(c) ==
  /\ relay[c].pc = "relay" /\ \E d \in Dirs : relay[c].pump[d].pc = "done"
  /\ relay' = [relay EXCEPT ![c].pc = "drain"]
  /\ UNCHANGED <<options, listener, owner, loop, source, sink, active>>

RelayEnds(c, p) ==
  /\ relay' = [relay EXCEPT ![c] = [pc |-> "done", pump |-> p]]
  /\ sink' = [sink EXCEPT ![c] = Dropped(c)]
  /\ active' = Left(1)
  /\ UNCHANGED <<options, listener, owner, loop, source>>

DrainOver(c) == \A d \in Dirs : relay[c].pump[d].pc = "done"

SecondEnds(c) ==
  /\ relay[c].pc = "drain" /\ DrainOver(c)
  /\ RelayEnds(c, relay[c].pump)

\* Mutant: the second direction has all the time it wants.
DrainBudgetNone(c) == FALSE
DrainBudget(c) == relay[c].pc = "drain" /\ ~DrainOver(c)

\* drain_budget: directions.shutdown() aborts the other.
DrainTimeout(c) ==
  /\ DrainBudget(c)
  /\ RelayEnds(c, [d \in Dirs |-> IF relay[c].pump[d].pc = "done" THEN relay[c].pump[d]
                                  ELSE [relay[c].pump[d] EXCEPT !.pc = "done", !.late = TRUE]])

-----------------------------------------------------------------------------
(* accept_loop and close *)

\* signal_teardown; without close the drop of the sender does the same.
SignalTeardown ==
  /\ owner = "held"
  /\ owner' = "closing"
  /\ UNCHANGED <<options, listener, loop, relay, source, sink, active>>

\* The signal wins over a connection that waits; the listener goes first.
StopListening ==
  /\ loop = "select" /\ owner = "closing"
  /\ loop' = "shutdown" /\ listener' = "closed"
  /\ relay' = [c \in FwdConns |-> IF relay[c].pc = "backlog" THEN [relay[c] EXCEPT !.pc = "done"] ELSE relay[c]]
  /\ UNCHANGED <<options, owner, source, sink, active>>

\* connections.shutdown(): every relay is aborted at its next await ...
Abortable == {c \in FwdConns : StillRunning(c)}

AbortRelay(c) ==
  /\ loop = "shutdown" /\ c \in Abortable
  /\ RelayEnds(c, [d \in Dirs |-> [relay[c].pump[d] EXCEPT !.pc = "done", !.late = TRUE]])

\* ... and joined.
AllJoined == \A c \in FwdConns : ~StillRunning(c)

ShutdownDone ==
  /\ loop = "shutdown" /\ AllJoined
  /\ loop' = "done"
  /\ UNCHANGED <<options, listener, owner, relay, source, sink, active>>

CloseReturns ==
  /\ owner = "closing" /\ loop = "done"
  /\ owner' = "closed"
  /\ UNCHANGED <<options, listener, loop, relay, source, sink, active>>

-----------------------------------------------------------------------------
PumpStep(c) == \E d \in Dirs : PumpRead(c, d) \/ PumpWrite(c, d) \/ PumpEnd(c, d)
RelayStep(c) == FirstEnds(c) \/ SecondEnds(c) \/ DrainTimeout(c)
AcceptLoop == StopListening \/ (\E c \in FwdConns : AbortRelay(c)) \/ ShutdownDone

ForwardNext ==
  \/ \E c \in FwdConns : ClientConnect(c) \/ AcceptClient(c) \/ DialOk(c) \/ DialFails(c) \/ PumpStep(c) \/ RelayStep(c)
  \/ \E c \in FwdConns, d \in Dirs : PeerSend(c, d) \/ PeerEnd(c, d) \/ PumpFails(c, d)
  \/ SignalTeardown \/ AcceptLoop \/ CloseReturns

\* The runtime polls its tasks and timers; peers and clients promise nothing.
ForwardFairness ==
  /\ WF_forwardVars(AcceptLoop)
  /\ WF_forwardVars(CloseReturns)
  /\ \A c \in FwdConns : WF_forwardVars(RelayStep(c))

ForwardSpec == ForwardInit /\ [][ForwardNext]_forwardVars /\ ForwardFairness

-----------------------------------------------------------------------------
\* While the connection lives, a peer that reads the end of the stream has all
\* that the other side sent: a pump that breaks off does not pass for one that
\* ended (client_to_guest, guest_to_client).
EndOfStreamIsTrue ==
  \A c \in FwdConns, d \in Dirs :
    Relaying(c) /\ sink[c][d].eof => source[c][d].eof /\ sink[c][d].got = source[c][d].sent

\* A connection that ended without a timer, an abort or a broken peer carried
\* everything both ways: the side that ended first does not cut off the answer
\* (relay_connection's drain).
NothingCutOff ==
  \A c \in FwdConns :
    relay[c].pc = "done" /\ (\A d \in Dirs : relay[c].pump[d].pc # "off" /\ ~relay[c].pump[d].late)
      => \A d \in Dirs : sink[c][d].got = source[c][d].sent

\* When the accept task has finished, every connection this forwarder had is
\* closed and the port is free (accept_loop's tail).
FinishedMeansClosed ==
  loop = "done" => listener = "closed" /\ \A c \in FwdConns : ~StillRunning(c) /\ relay[c].pc # "backlog"

\* active_connections() is the number of relays that run, however they end
\* (ActiveConnection).
ActiveIsExact == active = Cardinality({c \in FwdConns : StillRunning(c)})

\* A connection ends once one direction has, though the other peer stays silent
\* and open for ever (drain_budget).
ConnectionEnds == \A c \in FwdConns : relay[c].pc = "drain" ~> relay[c].pc = "done"

\* close() returns, whatever the peers of its connections do (accept_loop).
CloseComesBack == owner = "closing" ~> owner = "closed"

\* What a relay carries and what a forwarder that has finished leaves.
ForwardSafe ==
  /\ ForwardTypeOK
  /\ EndOfStreamIsTrue
  /\ NothingCutOff
  /\ FinishedMeansClosed
  /\ ActiveIsExact

\* Neither a connection nor a close waits for a peer that stays silent.
ForwardEnds ==
  /\ ConnectionEnds
  /\ CloseComesBack
=============================================================================
