--------------------------- MODULE StewardClient ---------------------------
(***************************************************************************)
(* One-shot requests to the guest: the StewardClient that a MicroVm caches *)
(* and its owner drives one request at a time (vmcell/src/steward/mod.rs,  *)
(* MicroVm::steward and snapshot in orchestrator.rs), against the guest    *)
(* steward's accept loop and its thread per connection                     *)
(* (vmcell-steward/src/serve.rs, exec.rs).                                 *)
(*                                                                         *)
(* A frame carries the number of the request it belongs to; the protocol   *)
(* does not, which is why a reply can be taken for another request's.      *)
(***************************************************************************)
EXTENDS Naturals, Sequences

CONSTANTS
  MaxReqs,      \* bound: requests sent
  MaxConns,     \* bound: connections made
  MaxFaults,    \* bound: timeouts, cancelled calls, failed connects and severed streams
  Goal,         \* calls the owner wants served
  RebindIdle    \* rebind_idle, in ticks

ASSUME StewardClientConstants ==
  /\ MaxReqs \in Nat /\ MaxConns \in Nat /\ MaxFaults \in Nat /\ Goal \in Nat
  /\ RebindIdle \in Nat \ {0}

Conns == 1..MaxConns
Kinds == {"exec", "put_file"}

VARIABLES
  client,       \* the cached client: its connection (0: none) and its desynced flag
  restored,     \* the mandatory resync is still due
  call,         \* what the owner's call is doing
  served,       \* calls that returned Ok
  faults,
  nreq, nconn,
  requestsOf, repliesTo, \* [Conns -> frames in flight]
  severed,      \* connections the VMM has cut
  tainted,      \* connections a cancelled call was using
  busy,         \* [Conns -> the request the guest's connection thread is at]
  synced,       \* the guest's clock is right
  early,        \* a command ran in a guest whose clock was not
  stale,        \* kinds of connection on which a reply went to another request
  deaf,         \* the listener is bound to a device that is gone
  idle          \* ticks left of the listener's idle window

ownerVars == <<client, restored, call, served, nreq, nconn, stale, tainted>>
streams == <<requestsOf, repliesTo, severed, busy>>
listenerVars == <<deaf, idle>>
clientVars == <<ownerVars, faults, streams, synced, early, listenerVars>>

Idle == [at |-> "idle", kind |-> "exec", id |-> 0]
NoRequest == [kind |-> "none", id |-> 0]

ClientTypeOK ==
  /\ client \in [conn : 0..MaxConns, desynced : BOOLEAN]
  /\ restored \in BOOLEAN /\ synced \in BOOLEAN /\ early \in BOOLEAN /\ deaf \in BOOLEAN
  /\ call \in [at : {"idle", "connect", "send", "reply", "resync", "ack"}, kind : Kinds, id : 0..MaxReqs]
  /\ served \in 0..Goal /\ faults \in 0..MaxFaults
  /\ nreq \in 0..MaxReqs /\ nconn \in 0..MaxConns
  /\ \A c \in Conns : requestsOf[c] \in Seq([kind : Kinds \cup {"resync"}, id : 1..MaxReqs])
  /\ \A c \in Conns : repliesTo[c] \in Seq([t : {"out", "exit", "ack"}, ok : BOOLEAN, id : 1..MaxReqs])
  /\ severed \subseteq Conns /\ tainted \subseteq Conns
  /\ busy \in [Conns -> [kind : Kinds \cup {"resync", "none"}, id : 0..MaxReqs]]
  /\ stale \subseteq {"clean", "tainted"}
  /\ idle \in 0..RebindIdle

\* A fresh VM, or one just restored from a snapshot.
ClientInit ==
  /\ client = [conn |-> 0, desynced |-> FALSE]
  /\ restored \in BOOLEAN
  /\ call = Idle /\ served = 0 /\ faults = 0 /\ nreq = 0 /\ nconn = 0
  /\ requestsOf = [c \in Conns |-> <<>>] /\ repliesTo = [c \in Conns |-> <<>>]
  /\ severed = {} /\ tainted = {}
  /\ busy = [c \in Conns |-> NoRequest]
  /\ synced = ~restored /\ early = FALSE /\ stale = {}
  /\ deaf = restored /\ idle = RebindIdle

Fault == faults < MaxFaults /\ faults' = faults + 1

-----------------------------------------------------------------------------
(* Host: MicroVm::steward, then the request on the client it returns *)

\* Where a call goes on once there is a client.
Proceed(kind, due) == [at |-> IF due THEN "resync" ELSE "send", kind |-> kind, id |-> 0]

\* Mutant: a desynced client is handed out again.
EvictedNot == client

\* A desynced client is dropped from the cache.
Evicted == IF client.desynced THEN [conn |-> 0, desynced |-> FALSE] ELSE client

BeginCall ==
  /\ call.at = "idle" /\ served < Goal
  /\ client' = Evicted
  /\ \E kind \in Kinds :
       call' = IF client'.conn = 0 THEN [at |-> "connect", kind |-> kind, id |-> 0]
               ELSE Proceed(kind, restored)
  /\ UNCHANGED <<restored, served, nreq, nconn, stale, tainted, faults, streams, synced, early, listenerVars>>

\* connect_framed: an attempt gets a Ready from a listener that hears it.  A
\* deaf one leaves it to time out, and the loop tries again until the deadline.
Connected ==
  /\ call.at = "connect" /\ ~deaf /\ nconn < MaxConns
  /\ nconn' = nconn + 1
  /\ client' = [conn |-> nconn + 1, desynced |-> FALSE]
  /\ idle' = RebindIdle
  /\ call' = Proceed(call.kind, restored)
  /\ UNCHANGED <<restored, served, nreq, stale, tainted, faults, streams, synced, early, deaf>>

\* The deadline passed, the serial log shows a guest that has halted, or the
\* call was cancelled before it had a client.
ConnectFailed ==
  /\ call.at = "connect" /\ Fault
  /\ call' = Idle
  /\ UNCHANGED <<client, restored, served, nreq, nconn, stale, tainted, streams, synced, early, listenerVars>>

\* exec, put_file and resync: ensure_synced, then the frame.
SendRequest ==
  /\ call.at \in {"send", "resync"} /\ nreq < MaxReqs
  /\ IF client.desynced
     THEN call' = Idle /\ UNCHANGED <<nreq, requestsOf>>
     ELSE /\ nreq' = nreq + 1
          /\ call' = [call EXCEPT !.at = IF @ = "send" THEN "reply" ELSE "ack", !.id = nreq + 1]
          /\ requestsOf' = [requestsOf EXCEPT ![client.conn] =
               Append(@, [kind |-> IF call.at = "send" THEN call.kind ELSE "resync", id |-> nreq + 1])]
  /\ UNCHANGED <<client, restored, served, nconn, stale, tainted, faults, repliesTo, severed, busy, synced, early, listenerVars>>

NoteReply(m) ==
  stale' = IF m.id = call.id THEN stale
           ELSE stale \cup {IF client.conn \in tainted THEN "tainted" ELSE "clean"}

\* Mutant: a timed-out request leaves the stream in use.
DesyncedNot == [client EXCEPT !.desynced = FALSE]

\* finish_request on a timeout or a transport failure.
Desynced == [client EXCEPT !.desynced = TRUE]

\* Whatever made the post-restore resync fail, the client leaves the cache.
GiveUpRequest == client' = (IF call.at = "ack" THEN [conn |-> 0, desynced |-> FALSE] ELSE Desynced) /\ call' = Idle

\* One frame of the reply to exec or put_file.
ReceiveReply ==
  LET m == Head(repliesTo[client.conn]) IN
  /\ call.at = "reply" /\ repliesTo[client.conn] # <<>>
  /\ repliesTo' = [repliesTo EXCEPT ![client.conn] = Tail(@)]
  /\ \/ /\ m.t = "exit"              \* Ok, or put_file's clean failure
        /\ NoteReply(m)
        /\ served' = IF m.ok \/ call.kind = "exec" THEN served + 1 ELSE served
        /\ call' = Idle
        /\ UNCHANGED client
     \/ /\ m.t # "exit" /\ call.kind = "exec"
        /\ IF m.t = "out" THEN NoteReply(m) ELSE UNCHANGED stale
        /\ UNCHANGED <<call, client, served>>
     \/ /\ m.t # "exit" /\ call.kind = "put_file"
        /\ GiveUpRequest
        /\ UNCHANGED <<served, stale>>
  /\ UNCHANGED <<restored, nreq, nconn, tainted, faults, requestsOf, severed, busy, synced, early, listenerVars>>

\* maybe_resync_after_restore insists on an ack without a clock error.
Resynced(m) == m.t = "ack" /\ m.ok

ReceiveAck ==
  LET m == Head(repliesTo[client.conn]) IN
  /\ call.at = "ack" /\ repliesTo[client.conn] # <<>>
  /\ repliesTo' = [repliesTo EXCEPT ![client.conn] = Tail(@)]
  /\ IF m.t = "ack" THEN NoteReply(m) ELSE UNCHANGED stale
  /\ IF Resynced(m)
     THEN restored' = FALSE /\ call' = Proceed(call.kind, FALSE) /\ UNCHANGED client
     ELSE GiveUpRequest /\ UNCHANGED restored
  /\ UNCHANGED <<served, nreq, nconn, tainted, faults, requestsOf, severed, busy, synced, early, listenerVars>>

TimedOut ==
  /\ call.at \in {"reply", "ack"} /\ Fault
  /\ GiveUpRequest
  /\ UNCHANGED <<restored, served, nreq, nconn, stale, tainted, streams, synced, early, listenerVars>>

StreamEnded ==
  /\ call.at \in {"reply", "ack"} /\ client.conn \in severed /\ repliesTo[client.conn] = <<>>
  /\ GiveUpRequest
  /\ UNCHANGED <<restored, served, nreq, nconn, stale, tainted, faults, streams, synced, early, listenerVars>>

\* The future of the call is dropped, as it is when a client of the daemon
\* hangs requests: nothing after the await it was at runs.
Cancelled ==
  /\ call.at \in {"reply", "ack"} /\ Fault
  /\ tainted' = tainted \cup {client.conn}
  /\ call' = Idle
  /\ UNCHANGED <<client, restored, served, nreq, nconn, stale, streams, synced, early, listenerVars>>

\* MicroVm::snapshot: Firecracker cuts the streams, Cloud Hypervisor does not;
\* the cached client goes either way.
Snapshot ==
  /\ call.at = "idle" /\ client.conn # 0
  /\ Fault
  /\ severed' \in {severed, severed \cup {client.conn}}
  /\ client' = [conn |-> 0, desynced |-> FALSE]
  /\ UNCHANGED <<restored, call, served, nreq, nconn, stale, tainted, requestsOf, repliesTo, busy, synced, early, listenerVars>>

Sever ==
  /\ client.conn \in Conns \ severed /\ Fault
  /\ severed' = severed \cup {client.conn}
  /\ UNCHANGED <<ownerVars, requestsOf, repliesTo, busy, synced, early, listenerVars>>

-----------------------------------------------------------------------------
(* Guest *)

\* serve_loop reads a request; an exec's child starts and writes some output.
GuestTake(c) ==
  /\ busy[c] = NoRequest /\ requestsOf[c] # <<>>
  /\ LET m == Head(requestsOf[c]) IN
     /\ busy' = [busy EXCEPT ![c] = m]
     /\ early' = (early \/ (m.kind # "resync" /\ ~synced))
     /\ repliesTo' = IF m.kind = "exec" /\ c \notin severed
                THEN [repliesTo EXCEPT ![c] = Append(@, [t |-> "out", ok |-> TRUE, id |-> m.id])]
                ELSE repliesTo
  /\ requestsOf' = [requestsOf EXCEPT ![c] = Tail(@)]
  /\ UNCHANGED <<ownerVars, faults, severed, synced, listenerVars>>

\* The last frame of the reply: Exit, or the ack of a resync that set the clock
\* or failed to.
GuestAnswer(c) ==
  /\ busy[c] # NoRequest
  /\ \E ok \in BOOLEAN :
       /\ IF ok THEN UNCHANGED faults ELSE busy[c].kind # "exec" /\ Fault
       /\ synced' = (synced \/ (busy[c].kind = "resync" /\ ok))
       /\ repliesTo' = IF c \in severed THEN repliesTo
                  ELSE [repliesTo EXCEPT ![c] = Append(@,
                         [t |-> IF busy[c].kind = "resync" THEN "ack" ELSE "exit", ok |-> ok, id |-> busy[c].id])]
  /\ busy' = [busy EXCEPT ![c] = NoRequest]
  /\ UNCHANGED <<ownerVars, requestsOf, severed, early, listenerVars>>

Tick ==
  /\ idle > 0
  /\ idle' = idle - 1
  /\ UNCHANGED <<ownerVars, faults, streams, synced, early, deaf>>

\* next_deadline, on a spurious wakeup or EINTR.
NextDeadline == idle

Wakeup ==
  /\ idle > 0
  /\ idle' = NextDeadline
  /\ UNCHANGED <<ownerVars, faults, streams, synced, early, deaf>>

\* The OS refuses a connection thread: the accepted connection is dropped.
ThreadRefused ==
  /\ call.at = "connect" /\ ~deaf /\ Fault
  /\ idle' = RebindIdle
  /\ UNCHANGED <<ownerVars, streams, synced, early, deaf>>

\* The listener is bound again, to the device of now.
BindListener == idle' = RebindIdle /\ deaf' = FALSE

\* The idle window has elapsed.
Rebind ==
  /\ idle = 0
  /\ BindListener
  /\ UNCHANGED <<ownerVars, faults, streams, synced, early>>

\* poll or accept failed, or the listener's descriptor did.
ListenerFailed ==
  /\ idle > 0 /\ Fault
  /\ BindListener
  /\ UNCHANGED <<ownerVars, streams, synced, early>>

-----------------------------------------------------------------------------
OwnerStep ==
  \/ BeginCall \/ Connected \/ SendRequest \/ ReceiveReply \/ ReceiveAck \/ StreamEnded

GuestStep(c) == GuestTake(c) \/ GuestAnswer(c)

ClientNext ==
  \/ OwnerStep \/ ConnectFailed \/ TimedOut \/ Cancelled \/ Snapshot \/ Sever
  \/ \E c \in Conns : GuestStep(c)
  \/ Tick \/ Wakeup \/ Rebind \/ ThreadRefused \/ ListenerFailed

\* The owner keeps calling until it is served; the guest's threads run; time
\* passes.  Faults and wakeups need not happen.
ClientFairness ==
  /\ WF_clientVars(OwnerStep)
  /\ \A c \in Conns : WF_clientVars(GuestStep(c))
  /\ WF_clientVars(Tick) /\ WF_clientVars(Rebind)

ClientSpec == ClientInit /\ [][ClientNext]_clientVars /\ ClientFairness

-----------------------------------------------------------------------------
(* What a caller may rely on *)

\* On a connection no call was cancelled on, a reply reaches the request it
\* answers: a timeout or a failure retires the stream (StewardClient::desynced).
ReplyReachesItsRequest == "clean" \notin stale

\* After a restore no command runs before the guest's clock is set, however
\* often the resync fails (maybe_resync_after_restore).
ResyncBeforeFirstCommand == ~early

\* No fault wedges the cached client: an owner that keeps calling is served.
OwnerIsServed == <>(served = Goal)

\* Spurious wakeups do not keep a deaf listener from being bound again.
DeafListenerRebinds == deaf ~> ~deaf

\* What a caller gets from run_request: the answer to its own request, and after a
\* restore none before the clock is set.
ClientSafe ==
  /\ ClientTypeOK
  /\ ReplyReachesItsRequest
  /\ ResyncBeforeFirstCommand
=============================================================================
