------------------------------- MODULE Bridge -------------------------------
(***************************************************************************)
(* The engine bridge between the HTTP parent and the privileged broker     *)
(* child (vmcell-daemon/src/bridge.rs): the multiplexed framed RPC, its    *)
(* deadlines and teardown of a torn stream, the broker's dispatch jobs and *)
(* their drain, and the exits of both processes (vmcelld/src/main.rs).     *)
(*                                                                         *)
(* A call is its own request id (next_id never repeats).  A request frame  *)
(* is written in two steps, so that a write can be cut short between them; *)
(* a stream holds at most Capacity frames.                                 *)
(***************************************************************************)
EXTENDS Naturals, Sequences

CONSTANTS
  Calls,
  Creates,      \* the calls that create a VM
  Shutdown,     \* the parent's own ShutdownAll
  Capacity,     \* bound: frames a socket buffer holds
  Cancellable,  \* HTTP clients disconnect
  Deadlines,    \* the calls whose budget may run out; the drain's may if any may
  NoCall

ASSUME BridgeConstants ==
  /\ Creates \subseteq Calls
  /\ Shutdown \in Calls \ Creates
  /\ Capacity \in Nat \ {0}
  /\ Cancellable \in BOOLEAN
  /\ Deadlines \subseteq Calls
  /\ NoCall \notin Calls

VARIABLES
  callAt,        \* [Calls -> where BrokerClientEngine::call is]
  pending,   \* the ids with a slot in the multiplex table
  mail,      \* [Calls -> what its oneshot holds]
  wrHolder,  \* the call that holds the writer lock
  wrOpen,    \* FALSE once the writer was taken out of its slot
  requests,  \* parent to broker: frames, the last perhaps not whole
  replies,   \* broker to parent: frames
  reader,    \* the reply reader runs
  broker,    \* where serve_engine is
  job,       \* [Calls -> the state of its dispatch job]
  vm,        \* [Creates -> the state of the VM it makes]
  late,      \* the drain ran into its deadline
  parent     \* the HTTP parent runs

callVars == <<callAt, mail>>
brokerVars == <<broker, job, vm, late>>
bridgeVars == <<callAt, pending, mail, wrHolder, wrOpen, requests, replies, reader, broker, job, vm,
          late, parent>>

Frame == [id : Calls, whole : BOOLEAN]
Reply == [id : Calls, res : {"ok", "err"}]
InCall == {"lock", "write", "writing", "wait"}
Alive == {"serve", "drainAll", "drainEof", "shutdown", "answer", "closing"}

BridgeTypeOK ==
  /\ callAt \in [Calls -> InCall \cup {"new", "ok", "err", "gone"}]
  /\ pending \subseteq Calls
  /\ mail \in [Calls -> {NoCall, "ok", "err"}]
  /\ wrHolder \in Calls \cup {NoCall}
  /\ wrOpen \in BOOLEAN
  /\ requests \in Seq(Frame) /\ Len(requests) <= Capacity
  /\ replies \in Seq(Reply)
  /\ reader \in BOOLEAN
  /\ broker \in Alive \cup {"exited", "killed"}
  /\ job \in [Calls -> {"none", "run", "reply", "done"}]
  /\ vm \in [Creates -> {"none", "launched", "listed", "down"}]
  /\ late \in BOOLEAN
  /\ parent \in BOOLEAN

BridgeInit ==
  /\ callAt = [c \in Calls |-> "new"]
  /\ pending = {}
  /\ mail = [c \in Calls |-> NoCall]
  /\ wrHolder = NoCall
  /\ wrOpen = TRUE
  /\ requests = << >>
  /\ replies = << >>
  /\ reader = TRUE
  /\ broker = "serve"
  /\ job = [c \in Calls |-> "none"]
  /\ vm = [c \in Creates |-> "none"]
  /\ late = FALSE
  /\ parent = TRUE

-----------------------------------------------------------------------------
(* Parent: BrokerClientEngine *)

Goto(c, state) == callAt' = [callAt EXCEPT ![c] = state]

\* forget, and the error return.
FailCall(c) == Goto(c, "err") /\ pending' = pending \ {c}

\* call: the slot is in the table before the request is on the wire.
BeginCall(c) ==
  /\ callAt[c] = "new" /\ parent
  /\ Goto(c, "lock")
  /\ pending' = pending \cup {c}
  /\ UNCHANGED <<mail, wrHolder, wrOpen, requests, replies, reader, brokerVars, parent>>

\* The request does not encode or is over the frame cap.
Oversized(c) ==
  /\ callAt[c] = "lock" /\ c # Shutdown
  /\ FailCall(c)
  /\ UNCHANGED <<mail, wrHolder, wrOpen, requests, replies, reader, brokerVars, parent>>

\* The writer lock, and a look at whether the stream was torn down.
Lock(c) ==
  /\ callAt[c] = "lock" /\ wrHolder = NoCall
  /\ IF wrOpen
     THEN Goto(c, "write") /\ wrHolder' = c /\ UNCHANGED pending
     ELSE FailCall(c) /\ UNCHANGED wrHolder
  /\ UNCHANGED <<mail, wrOpen, requests, replies, reader, brokerVars, parent>>

WriteBegin(c) ==
  /\ callAt[c] = "write"
  /\ broker \in Alive /\ Len(requests) < Capacity
  /\ requests' = Append(requests, [id |-> c, whole |-> FALSE])
  /\ Goto(c, "writing")
  /\ UNCHANGED <<pending, mail, wrHolder, wrOpen, replies, reader, brokerVars, parent>>

WriteEnd(c) ==
  /\ callAt[c] = "writing"
  /\ broker \in Alive
  /\ requests' = [requests EXCEPT ![Len(requests)].whole = TRUE]
  /\ wrHolder' = NoCall
  /\ Goto(c, "wait")
  /\ UNCHANGED <<pending, mail, wrOpen, replies, reader, brokerVars, parent>>

\* Mutant: a write cut short gives the writer back.
WriteFailsKeepsStream(c) ==
  /\ callAt[c] \in {"write", "writing"}
  /\ broker \notin Alive \/ c \in Deadlines
  /\ wrHolder' = NoCall
  /\ FailCall(c)
  /\ UNCHANGED <<mail, wrOpen, requests, replies, reader, brokerVars, parent>>

\* The write fails (the broker is gone), or the deadline cuts it short: the
\* writer is taken out of its slot, which shuts the write half down.
WriteFails(c) ==
  /\ callAt[c] \in {"write", "writing"}
  /\ broker \notin Alive \/ c \in Deadlines
  /\ wrOpen' = FALSE
  /\ wrHolder' = NoCall
  /\ FailCall(c)
  /\ UNCHANGED <<mail, requests, replies, reader, brokerVars, parent>>

Receive(c) ==
  /\ callAt[c] = "wait" /\ mail[c] # NoCall
  /\ Goto(c, mail[c])
  /\ UNCHANGED <<pending, mail, wrHolder, wrOpen, requests, replies, reader, brokerVars, parent>>

\* The deadline, while waiting for the writer or for the reply.
Expire(c) ==
  /\ c \in Deadlines
  /\ callAt[c] = "lock" \/ (callAt[c] = "wait" /\ mail[c] = NoCall)
  /\ FailCall(c)
  /\ UNCHANGED <<mail, wrHolder, wrOpen, requests, replies, reader, brokerVars, parent>>

\* The client disconnects: its handler's future is dropped where it stands.
Cancel(c) ==
  /\ Cancellable /\ c # Shutdown
  /\ callAt[c] \in InCall
  /\ Goto(c, "gone")
  /\ wrHolder' = IF wrHolder = c THEN NoCall ELSE wrHolder
  /\ UNCHANGED <<pending, mail, wrOpen, requests, replies, reader, brokerVars, parent>>

ReaderRead ==
  /\ reader /\ parent /\ replies # << >>
  /\ replies' = Tail(replies)
  /\ LET r == Head(replies) IN
       /\ pending' = pending \ {r.id}
       /\ mail' = IF r.id \in pending THEN [mail EXCEPT ![r.id] = r.res] ELSE mail
  /\ UNCHANGED <<callAt, wrHolder, wrOpen, requests, reader, brokerVars, parent>>

\* Mutant: the reader just stops.
ReaderEofSilent ==
  /\ reader /\ parent /\ replies = << >> /\ broker \notin Alive
  /\ reader' = FALSE
  /\ UNCHANGED <<callAt, pending, mail, wrHolder, wrOpen, requests, replies, brokerVars, parent>>

\* The broker's end is closed: every call in flight is failed.
ReaderEof ==
  /\ reader /\ parent /\ replies = << >> /\ broker \notin Alive
  /\ reader' = FALSE
  /\ mail' = [c \in Calls |-> IF c \in pending THEN "err" ELSE mail[c]]
  /\ pending' = {}
  /\ UNCHANGED <<callAt, wrHolder, wrOpen, requests, replies, brokerVars, parent>>

\* run_http_parent returns once ShutdownAll did: the child handle's Drop kills
\* the broker, whatever it is doing.
ParentExit ==
  /\ parent /\ callAt[Shutdown] \in {"ok", "err"}
  /\ parent' = FALSE
  /\ callAt' = [c \in Calls |-> IF callAt[c] \in InCall THEN "gone" ELSE callAt[c]]
  /\ broker' = IF broker \in Alive THEN "killed" ELSE broker
  /\ UNCHANGED <<pending, mail, wrHolder, wrOpen, requests, replies, reader, job, vm, late>>

-----------------------------------------------------------------------------
(* Broker: serve_engine *)

\* Mutant: ShutdownAll runs at once.
BrokerReadNoDrain ==
  /\ broker = "serve"
  /\ requests # << >> /\ Head(requests).whole
  /\ requests' = Tail(requests)
  /\ IF Head(requests).id = Shutdown
     THEN broker' = "shutdown" /\ UNCHANGED job
     ELSE job' = [job EXCEPT ![Head(requests).id] = "run"] /\ UNCHANGED broker
  /\ UNCHANGED <<callVars, pending, wrHolder, wrOpen, replies, reader, vm, late, parent>>

\* Each request gets a task of its own; ShutdownAll first drains those.
BrokerRead ==
  /\ broker = "serve"
  /\ requests # << >> /\ Head(requests).whole
  /\ requests' = Tail(requests)
  /\ IF Head(requests).id = Shutdown
     THEN broker' = "drainAll" /\ UNCHANGED job
     ELSE job' = [job EXCEPT ![Head(requests).id] = "run"] /\ UNCHANGED broker
  /\ UNCHANGED <<callVars, pending, wrHolder, wrOpen, replies, reader, vm, late, parent>>

\* A request that does not decode is answered with an error.
BrokerReject ==
  /\ broker = "serve"
  /\ requests # << >> /\ Head(requests).whole /\ Head(requests).id # Shutdown
  /\ requests' = Tail(requests)
  /\ replies' = Append(replies, [id |-> Head(requests).id, res |-> "err"])
  /\ UNCHANGED <<callVars, pending, wrHolder, wrOpen, reader, brokerVars, parent>>

\* Bytes of a frame that follows a torn one are read as the rest of it: what
\* comes out has no id to answer to, or a length over the cap.
BrokerGarbage ==
  /\ broker = "serve"
  /\ Len(requests) > 1 /\ ~Head(requests).whole
  /\ \/ requests' = Tail(Tail(requests)) /\ UNCHANGED broker
     \/ broker' = "drainEof" /\ UNCHANGED requests
  /\ UNCHANGED <<callVars, pending, wrHolder, wrOpen, replies, reader, job, vm, late, parent>>

\* The parent shut its write half down, after a torn frame perhaps.
BrokerEof ==
  /\ broker = "serve"
  /\ ~wrOpen
  /\ Len(requests) = 0 \/ (Len(requests) = 1 /\ ~Head(requests).whole)
  /\ broker' = "drainEof"
  /\ UNCHANGED <<callVars, pending, wrHolder, wrOpen, requests, replies, reader, job, vm, late,
                 parent>>

\* A create: the VMM runs before its slot is in the registry's table.
JobLaunch(c) ==
  /\ broker \in Alive /\ job[c] = "run"
  /\ c \in Creates /\ vm[c] = "none"
  /\ vm' = [vm EXCEPT ![c] = "launched"]
  /\ UNCHANGED <<callVars, pending, wrHolder, wrOpen, requests, replies, reader, broker, job,
                 late, parent>>

\* Any operation succeeds or fails; a create that launched lists its VM.
JobDone(c) ==
  /\ broker \in Alive /\ job[c] = "run"
  /\ job' = [job EXCEPT ![c] = "reply"]
  /\ vm' = IF c \in Creates /\ vm[c] = "launched" THEN [vm EXCEPT ![c] = "listed"] ELSE vm
  /\ UNCHANGED <<callVars, pending, wrHolder, wrOpen, requests, replies, reader, broker, late,
                 parent>>

\* write_reply: a reply that does not encode or fit becomes a typed error.
JobReply(c, res) ==
  /\ broker \in Alive /\ job[c] = "reply"
  /\ replies' = Append(replies, [id |-> c, res |-> res])
  /\ job' = [job EXCEPT ![c] = "done"]
  /\ UNCHANGED <<callVars, pending, wrHolder, wrOpen, requests, reader, broker, vm, late, parent>>

\* drain_dispatch_jobs.
DrainEnd ==
  /\ broker \in {"drainAll", "drainEof"}
  /\ LET unfinished == \E c \in Calls : job[c] \in {"run", "reply"} IN
       /\ unfinished => Deadlines # {}
       /\ late' = (late \/ unfinished)
  /\ broker' = IF broker = "drainAll" THEN "shutdown" ELSE "closing"
  /\ UNCHANGED <<callVars, pending, wrHolder, wrOpen, requests, replies, reader, job, vm, parent>>

\* Registry::shutdown_all: the VMs in the table.
ShutdownAll ==
  /\ broker = "shutdown"
  /\ vm' = [c \in Creates |-> IF vm[c] = "listed" THEN "down" ELSE vm[c]]
  /\ broker' = "answer"
  /\ UNCHANGED <<callVars, pending, wrHolder, wrOpen, requests, replies, reader, job, late, parent>>

ShutdownReply ==
  /\ broker = "answer"
  /\ replies' = Append(replies, [id |-> Shutdown, res |-> "ok"])
  /\ broker' = "closing"
  /\ UNCHANGED <<callVars, pending, wrHolder, wrOpen, requests, reader, job, vm, late, parent>>

\* The registry and the runtime drop, and with them every VM; then _exit.
BrokerExit ==
  /\ broker = "closing"
  /\ vm' = [c \in Creates |-> IF vm[c] = "none" THEN "none" ELSE "down"]
  /\ broker' = "exited"
  /\ UNCHANGED <<callVars, pending, wrHolder, wrOpen, requests, replies, reader, job, late, parent>>

-----------------------------------------------------------------------------

CallStep(c) ==
  \/ Lock(c) \/ WriteBegin(c) \/ WriteEnd(c) \/ WriteFails(c) \/ Receive(c)

JobStep(c) ==
  \/ JobLaunch(c) \/ JobDone(c)
  \/ JobReply(c, "ok") \/ JobReply(c, "err")

BrokerStep ==
  \/ BrokerRead \/ BrokerReject \/ BrokerGarbage \/ BrokerEof
  \/ DrainEnd \/ ShutdownAll \/ ShutdownReply \/ BrokerExit

ReaderStep == ReaderRead \/ ReaderEof

BridgeNext ==
  \/ \E c \in Calls : \/ BeginCall(c) \/ Oversized(c) \/ CallStep(c) \/ Expire(c) \/ Cancel(c)
                      \/ JobStep(c)
  \/ ReaderStep \/ BrokerStep \/ ParentExit

BridgeSpec == BridgeInit /\ [][BridgeNext]_bridgeVars

\* tokio polls every task that can go on, the mutex is FIFO-fair, and every
\* engine operation ends.
BridgeFairness ==
  /\ \A c \in Calls :
       /\ SF_bridgeVars(Lock(c)) /\ SF_bridgeVars(WriteBegin(c))
       /\ WF_bridgeVars(CallStep(c)) /\ WF_bridgeVars(JobStep(c))
  /\ WF_bridgeVars(ReaderStep)
  /\ WF_bridgeVars(BrokerStep)

-----------------------------------------------------------------------------
(* Properties *)

\* The framed stream is never handed on after a partial frame: nothing is ever
\* written behind a request whose write was cut short.
NothingAfterTornFrame ==
  \A i \in 1..Len(requests) : requests[i].whole \/ i = Len(requests)

\* Neither an error path nor an expired deadline leaves a stale sender behind
\* in the multiplex table.
SlotHasCaller ==
  parent => \A c \in pending : callAt[c] \in InCall

\* A graceful stop orphans no VM: when the broker is gone, in whichever way the
\* parent let it go, every VM that it launched was torn down, unless a job
\* outlived the drain's deadline.
NoVmOutlivesBroker ==
  broker \in {"exited", "killed"} /\ ~late =>
    \A c \in Creates : vm[c] \in {"none", "down"}

\* Every call returns with no help from its deadline: the broker answers it, or
\* its end of the socket is closed and the call fails.  A client that goes away
\* in mid-write may tear the stream, and then only deadlines are left.
EveryRpcReturns ==
  \A c \in Calls :
    callAt[c] = "lock" ~> (callAt[c] \in {"ok", "err"} \/ \E d \in Calls : callAt[d] = "gone")

\* The multiplexed stream survives deadlines: nothing is written behind a torn
\* frame, and no slot stays in the table without its caller.
BridgeSafe ==
  /\ BridgeTypeOK
  /\ NothingAfterTornFrame
  /\ SlotHasCaller
=============================================================================
