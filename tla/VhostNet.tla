------------------------------ MODULE VhostNet ------------------------------
(***************************************************************************)
(* The vhost-user device in front of the userspace NAT                     *)
(* (vmcell/src/net/smoltcp.rs), on the vendored vhost-user-backend crate.  *)
(*                                                                         *)
(* One thread serves one VMM connection after another on the NAT's socket  *)
(* and is stopped by the drop of SmoltcpProcess.  A connection has a       *)
(* thread that handles the VMM's messages and a vring worker that waits    *)
(* for kicks of the transmit ring; the net thread takes the frames.        *)
(***************************************************************************)
EXTENDS Naturals, Sequences, FiniteSets

CONSTANTS
  MaxVmms,     \* bound: VMMs that connect in turn
  MaxFrames,   \* bound: frames a guest has on the ring
  MaxTx,       \* MAX_TX_QUEUE_FRAMES
  MaxStops     \* bound: times a VMM stops and starts the ring

ASSUME VhostNetConstants == {MaxVmms, MaxFrames, MaxTx} \subseteq Nat \ {0} /\ MaxStops \in Nat

VARIABLES
  thread,   \* serve_vhost_connections
  listening,
  backlog,  \* who has connected and is not accepted: "vmm", "self"
  peer,     \* the accepted connection: "none", "vmm", "self", "gone"
  dropper,  \* Drop for SmoltcpProcess
  exitEvt,  \* the exit eventfd is readable
  worker,   \* VringEpollHandler::run
  vmm,      \* how many VMMs there have been, and the state of the last
  ring,     \* VringState and its registration with the worker's epoll
  avail, kicked, masked, eventIdx, \* the ring as the guest sees it
  state     \* SharedState: generations of mem, vrings and the queued frames

threadVars == <<thread, listening, backlog, peer, exitEvt>>
ringVars == <<ring, avail, kicked, masked, eventIdx>>
vhostVars == <<threadVars, dropper, worker, vmm, ringVars, state>>

\* Generations: 0 for none.  kick and registered are the fds, by generation of
\* the SET_VRING_KICK that brought them.
NoRing == [kick |-> 0, ready |-> FALSE, enabled |-> FALSE, registered |-> 0]
NoState == [mem |-> 0, vrings |-> 0, tx |-> <<>>]

VhostTypeOK ==
  /\ thread \in {"check", "bind", "accept", "serve", "join", "drain", "done"}
  /\ listening \in BOOLEAN /\ exitEvt \in BOOLEAN
  /\ backlog \in Seq({"vmm", "self"}) /\ peer \in {"none", "vmm", "self", "gone"}
  /\ dropper \in {"none", "notify", "wake", "joined"}
  /\ worker \in {"none", "wait", "event", "mask", "pass", "rearm", "unreadable", "exited"}
  /\ vmm.n \in 0..MaxVmms /\ vmm.state \in {"none", "connecting", "up", "negotiated"} /\ vmm.stops \in 0..MaxStops
  /\ ring.kick \in 0..(MaxStops + 1) /\ ring.registered \in 0..(MaxStops + 1)
  /\ avail \in 0..MaxFrames /\ {kicked, masked, eventIdx} \subseteq BOOLEAN
  /\ {state.mem, state.vrings} \subseteq 0..MaxVmms /\ Len(state.tx) <= MaxTx

VhostInit ==
  /\ thread = "accept" /\ listening = TRUE /\ backlog = <<>> /\ peer = "none"
  /\ dropper = "none" /\ exitEvt = FALSE /\ worker = "wait"
  /\ vmm = [n |-> 0, state |-> "none", stops |-> 0]
  /\ ring = NoRing /\ avail = 0 /\ kicked = FALSE /\ masked = FALSE /\ eventIdx = FALSE
  /\ state = NoState

Stop == dropper # "none"

-----------------------------------------------------------------------------
(* serve_vhost_connections: a listener, a daemon and a worker per connection *)

\* while !stop_flag
Another == ~Stop

Check ==
  /\ thread = "check"
  /\ thread' = IF Another THEN "bind" ELSE "done"
  /\ UNCHANGED <<listening, backlog, peer, dropper, exitEvt, worker, vmm, ringVars, state>>

\* Bind, arm the exit event, make the daemon and its worker.
Bind ==
  /\ thread = "bind"
  /\ thread' = "accept" /\ listening' = TRUE /\ worker' = "wait" /\ ring' = NoRing
  /\ UNCHANGED <<backlog, peer, dropper, exitEvt, vmm, avail, kicked, masked, eventIdx, state>>

Accept ==
  /\ thread = "accept" /\ backlog # <<>>
  /\ thread' = "serve"
  /\ peer' = Head(backlog) /\ backlog' = Tail(backlog)
  /\ vmm' = IF Head(backlog) = "vmm" THEN [vmm EXCEPT !.state = "up"] ELSE vmm
  /\ UNCHANGED <<listening, dropper, exitEvt, worker, ringVars, state>>

\* VhostUserDaemon::wait returns when the peer has hung up; a self-connection
\* hangs up at once.  Drop for VhostUserHandler then notifies the worker.
Hangup ==
  /\ thread = "serve" /\ peer \in {"gone", "self"}
  /\ thread' = "join" /\ peer' = "none" /\ exitEvt' = TRUE
  /\ UNCHANGED <<listening, backlog, dropper, worker, vmm, ringVars, state>>

\* ... joins it, and drop(listener) unlinks the path and refuses the backlog.
Joined ==
  /\ thread = "join" /\ worker = "exited"
  /\ thread' = "drain" /\ worker' = "none"
  /\ listening' = FALSE /\ backlog' = <<>>
  /\ vmm' = IF \E i \in DOMAIN backlog : backlog[i] = "vmm" THEN [vmm EXCEPT !.state = "none"] ELSE vmm
  /\ UNCHANGED <<peer, dropper, exitEvt, ringVars, state>>

\* drain_exit_event
Drained == FALSE

\* Mutant: the queued frames stay.
ResetKeepsFrames == [NoState EXCEPT !.tx = state.tx]

\* reset_device_state
Reset == NoState

DrainAndReset ==
  /\ thread = "drain"
  /\ thread' = "check" /\ exitEvt' = Drained /\ state' = Reset
  /\ UNCHANGED <<listening, backlog, peer, dropper, worker, vmm, ringVars>>

-----------------------------------------------------------------------------
(* The VMM, and the handler of its messages *)

VmmConnect ==
  /\ vmm.n < MaxVmms /\ vmm.state = "none" /\ listening /\ ~Stop
  /\ vmm' = [n |-> vmm.n + 1, state |-> "connecting", stops |-> 0]
  /\ backlog' = Append(backlog, "vmm")
  /\ avail' = 0 /\ kicked' = FALSE /\ masked' = FALSE
  /\ UNCHANGED <<thread, listening, peer, dropper, exitEvt, worker, ring, eventIdx, state>>

\* set_owner, set_features, set_mem_table, set_vring_num, set_vring_addr
Negotiate(idx) ==
  /\ vmm.state = "up"
  /\ vmm' = [vmm EXCEPT !.state = "negotiated"]
  /\ eventIdx' = idx
  /\ state' = [state EXCEPT !.mem = vmm.n]
  /\ UNCHANGED <<threadVars, dropper, worker, ring, avail, kicked, masked>>

\* update_vring_registration; an fd that is closed leaves the epoll set.
Registered(r) ==
  [r EXCEPT !.registered = IF r.kick # 0 /\ r.ready /\ r.enabled THEN r.kick ELSE 0]

\* set_vring_kick, and set_vring_call, which may come first: the ring is
\* ready with its first kick.
SetVringKick ==
  /\ vmm.state = "negotiated" /\ ring.kick = 0
  /\ ring' = Registered([ring EXCEPT !.kick = vmm.stops + 1, !.ready = TRUE])
  /\ UNCHANGED <<threadVars, dropper, worker, vmm, avail, kicked, masked, eventIdx, state>>

SetVringEnable(on) ==
  /\ vmm.state = "negotiated" /\ ring.enabled # on
  /\ ~on => vmm.stops < MaxStops
  /\ vmm' = IF on THEN vmm ELSE [vmm EXCEPT !.stops = @ + 1]
  /\ ring' = Registered([ring EXCEPT !.enabled = on])
  /\ UNCHANGED <<threadVars, dropper, worker, avail, kicked, masked, eventIdx, state>>

\* get_vring_base: the ring is not ready, then unregistered, then without fds.
GetVringBase ==
  /\ vmm.state = "negotiated" /\ ring.kick # 0 /\ vmm.stops < MaxStops
  /\ vmm' = [vmm EXCEPT !.stops = @ + 1]
  /\ ring' = [Registered([ring EXCEPT !.ready = FALSE]) EXCEPT !.kick = 0]
  /\ UNCHANGED <<threadVars, dropper, worker, avail, kicked, masked, eventIdx, state>>

\* A connection whose VMM died before it was accepted is like a self-connection.
VmmExit ==
  /\ vmm.state # "none"
  /\ peer' = IF peer = "vmm" THEN "gone" ELSE peer
  /\ backlog' = [i \in DOMAIN backlog |-> "self"]
  /\ vmm' = [vmm EXCEPT !.state = "none"]
  /\ UNCHANGED <<thread, listening, exitEvt, dropper, worker, ringVars, state>>

\* The guest's driver: a kick unless the device has asked for none.  With
\* EVENT_IDX one kick is what it asks for.
Transmit ==
  /\ vmm.state = "negotiated" /\ avail < MaxFrames
  /\ avail' = avail + 1
  /\ kicked' = (kicked \/ ~masked)
  /\ masked' = (masked \/ eventIdx)
  /\ UNCHANGED <<threadVars, dropper, worker, vmm, ring, eventIdx, state>>

-----------------------------------------------------------------------------
(* VringEpollHandler::run and VhostUserNetBackend::handle_event *)

EpollExit ==
  /\ worker = "wait" /\ exitEvt
  /\ worker' = "exited"
  /\ UNCHANGED <<threadVars, dropper, vmm, ringVars, state>>

EpollKick ==
  /\ worker = "wait" /\ ring.registered # 0 /\ kicked
  /\ worker' = "event"
  /\ UNCHANGED <<threadVars, dropper, vmm, ringVars, state>>

\* read_kick consumes the kick; a ring that is not enabled is left alone.
ReadKick ==
  /\ worker = "event"
  /\ kicked' = IF ring.kick # 0 THEN FALSE ELSE kicked
  /\ IF ring.enabled
     THEN /\ worker' = "mask"
          /\ state' = [state EXCEPT !.vrings = IF @ = 0 THEN vmm.n ELSE @]
     ELSE worker' = "wait" /\ UNCHANGED state
  /\ UNCHANGED <<threadVars, dropper, vmm, ring, avail, masked, eventIdx>>

\* mask_tx_notifications
Mask ==
  /\ worker = "mask"
  /\ worker' = "pass"
  /\ masked' = (masked \/ ~eventIdx)
  /\ UNCHANGED <<threadVars, dropper, vmm, ring, avail, kicked, eventIdx, state>>

\* push_tx_frame: what does not fit is dropped.
Pushed(n) ==
  LET m == IF Len(state.tx) + n <= MaxTx THEN n ELSE MaxTx - Len(state.tx)
  IN state.tx \o [i \in 1..m |-> vmm.n]

\* process_tx_queue: one pass over the chains that are available.
Pass ==
  /\ worker = "pass"
  /\ IF state.mem = 0 \/ ~ring.ready
     THEN worker' = "unreadable" /\ UNCHANGED <<avail, state>>
     ELSE /\ state' = [state EXCEPT !.tx = Pushed(avail)]
          /\ avail' = 0
          /\ worker' = "rearm"
  /\ UNCHANGED <<threadVars, dropper, vmm, ring, kicked, masked, eventIdx>>

\* Mutant: one pass per kick, whatever came in meanwhile.
PollAgainNever == FALSE

\* rearm_tx_notifications says that more is available, and it counts.
PollAgain == eventIdx /\ avail > 0

Rearm ==
  /\ worker \in {"rearm", "unreadable"}
  /\ masked' = FALSE
  /\ worker' = IF worker = "rearm" /\ PollAgain THEN "mask" ELSE "wait"
  /\ UNCHANGED <<threadVars, dropper, vmm, ring, avail, kicked, eventIdx, state>>

\* run_network takes a frame (SmoltcpDevice::receive).
NetTake ==
  /\ state.tx # <<>>
  /\ state' = [state EXCEPT !.tx = Tail(@)]
  /\ UNCHANGED <<threadVars, dropper, worker, vmm, ringVars>>

-----------------------------------------------------------------------------
(* Drop for SmoltcpProcess.  It comes after the VMM is gone. *)

DropStart ==
  /\ dropper = "none" /\ vmm.state = "none"
  /\ dropper' = "notify"
  /\ UNCHANGED <<threadVars, worker, vmm, ringVars, state>>

Notify ==
  /\ dropper = "notify"
  /\ dropper' = "wake" /\ exitEvt' = TRUE
  /\ UNCHANGED <<thread, listening, backlog, peer, worker, vmm, ringVars, state>>

WakeAgain == "wake"

\* A self-connection, tried again until the thread is done.  The code tries 20
\* times, 10 ms apart; the thread is taken to reach accept in that time.
Wake ==
  /\ dropper = "wake" /\ thread # "done"
  /\ IF listening THEN Len(backlog) < 2 /\ backlog' = Append(backlog, "self") ELSE UNCHANGED backlog
  /\ dropper' = WakeAgain
  /\ UNCHANGED <<thread, listening, peer, exitEvt, worker, vmm, ringVars, state>>

Join ==
  /\ dropper = "wake" /\ thread = "done"
  /\ dropper' = "joined"
  /\ UNCHANGED <<threadVars, worker, vmm, ringVars, state>>

-----------------------------------------------------------------------------
VhostThread == Check \/ Bind \/ Accept \/ Hangup \/ Joined \/ DrainAndReset
VmmStep ==
  \/ VmmConnect \/ (\E idx \in BOOLEAN : Negotiate(idx)) \/ SetVringKick
  \/ (\E on \in BOOLEAN : SetVringEnable(on)) \/ GetVringBase \/ VmmExit \/ Transmit
VringWorker == EpollExit \/ EpollKick \/ ReadKick \/ Mask \/ Pass \/ Rearm
DropStep == DropStart \/ Notify \/ Wake \/ Join

VhostNext == VhostThread \/ VmmStep \/ VringWorker \/ NetTake \/ DropStep

\* The threads run: each takes the steps that do not block.
VhostFairness ==
  /\ WF_vhostVars(VhostThread)
  /\ WF_vhostVars(VringWorker)
  /\ WF_vhostVars(NetTake)
  /\ WF_vhostVars(Notify \/ Wake \/ Join)

VhostSpec == VhostInit /\ [][VhostNext]_vhostVars /\ VhostFairness

-----------------------------------------------------------------------------
\* A VMM that is connected has a worker that waits for its kicks: the exit
\* signal that ended the last connection is not seen by the next
\* (drain_exit_event).
ConnectionHasItsWorker == thread = "serve" /\ peer = "vmm" /\ ~Stop => worker \notin {"none", "exited"}

\* Nothing of a VMM that is gone reaches its successor: the memory table, the
\* vrings and the frames are those of the VMM that is connected
\* (reset_device_state).
DeviceIsThisVmms ==
  thread = "serve" /\ peer = "vmm" =>
    /\ {state.mem, state.vrings} \subseteq {0, vmm.n}
    /\ \A i \in DOMAIN state.tx : state.tx[i] = vmm.n

\* The worker waits on the kick of a ring exactly while the ring runs
\* (update_vring_registration).
WorkerWaitsForRunningRing ==
  worker # "none" =>
    ring.registered = IF ring.ready /\ ring.enabled THEN ring.kick ELSE 0

\* A frame on a ring that keeps running is read, though it came while the worker
\* was busy and kicks were masked (handle_event).
Running == ring.registered # 0 /\ vmm.state = "negotiated" /\ ~Stop
FrameIsRead == (eventIdx /\ vmm.stops = 0 /\ avail > 0 /\ Running) ~> (avail = 0 \/ ~Running)

\* When a VMM has hung up the socket is back for the one that is started in its
\* place (serve_vhost_connections).
SocketComesBack == (thread = "drain" /\ ~Stop) ~> (listening \/ Stop)

\* The drop gets the thread out of accept, or of the gap between two listeners,
\* and joins it (Drop for SmoltcpProcess).
DropJoins == Stop ~> dropper = "joined" /\ thread = "done"

\* The device belongs to the VMM that is connected: it has a worker, the worker
\* waits for its kicks, and nothing of its predecessor is left.
VhostSafe ==
  /\ VhostTypeOK
  /\ ConnectionHasItsWorker
  /\ DeviceIsThisVmms
  /\ WorkerWaitsForRunningRing

\* The device goes on: frames are read, the socket comes back, the drop joins.
VhostLives ==
  /\ FrameIsRead
  /\ SocketComesBack
  /\ DropJoins
=============================================================================
