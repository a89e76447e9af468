----------------------------- MODULE EgressProxy -----------------------------
(***************************************************************************)
(* The egress proxy's worker thread (proxy/mod.rs) and the intake that     *)
(* splices guest connections onto hudsucker's explicit proxy               *)
(* (proxy/transparent.rs).                                                 *)
(*                                                                         *)
(* start_impl spawns the thread and waits for its outcome; the caller may  *)
(* drop that future, or get a proxy and drop it later.  The thread enters  *)
(* the VM's network namespace to bind, comes back, and serves.  A guest    *)
(* connection is read until it can be classified, given a CONNECT of its   *)
(* own when it is TLS, and relayed.                                        *)
(*                                                                         *)
(* What a guest sends is a sequence of chunks, numbered.  External:        *)
(* hudsucker, which answers a CONNECT, and which on shutdown may wait for  *)
(* the connections it has.                                                 *)
(***************************************************************************)
EXTENDS Naturals, Sequences, SequencesExt

CONSTANTS
    EgConns,        \* bound: guest connections
    MaxChunks,      \* bound: chunks a guest sends
    MaxPrefix       \* MAX_INTAKE_PREFIX_BYTES, in chunks

\* What a connection turns out to be, and how many chunks that takes: TLS is with a
\* name or an address to tunnel to, or with neither.
StreamKinds == {"http", "tls", "unnamed", "malformed", "long"}
Need(k) == CASE k = "http" -> 1 [] k = "long" -> MaxPrefix + 1 [] OTHER -> 2

StartSteps == <<"open", "enter", "runtime", "bind", "back", "ca", "inner", "build">>
Starting == Range(StartSteps)
AfterStep(s) == LET i == CHOOSE j \in DOMAIN StartSteps : StartSteps[j] = s IN
    IF i = Len(StartSteps) THEN "serving" ELSE StartSteps[i + 1]

\* The CONNECT of a tunnel, among the numbered chunks of the guest.
Connect == 0

VARIABLES
    egCaller,   \* who called start_impl
    egNetns,    \* cfg.netns is there
    egWorker,   \* the thread
    egNs,       \* its network namespace
    egBound,    \* the namespace its listener was bound in, or "none"
    egReady,    \* the startup channel
    egKill,     \* kill_tx was sent or dropped
    egIntake,   \* the task of serve_intake
    conn, kind, sent, taken, inner, opened

egThread == <<egCaller, egNetns, egWorker, egNs, egBound, egReady, egKill, egIntake>>
egConn == <<conn, kind, sent, taken, inner, opened>>
egVars == <<egThread, egConn>>

EgTypeOK ==
    /\ egCaller \in {"waiting", "failed", "cancelled", "running", "dropping", "gone"}
    /\ egNetns \in BOOLEAN /\ egKill \in BOOLEAN
    /\ egWorker \in Starting \cup {"serving", "stopping", "ended"}
    /\ egNs \in {"host", "vm"} /\ egBound \in {"host", "vm", "none"}
    /\ egReady \in {"empty", "ok", "err", "closed"}
    /\ egIntake \in {"none", "up", "ended"}
    /\ conn \in [EgConns -> {"none", "backlog", "reading", "dial", "connect", "prefix",
                             "splice", "closed"}]
    /\ kind \in [EgConns -> StreamKinds]
    /\ \A c \in EgConns : taken[c] <= sent[c] /\ sent[c] <= MaxChunks
    /\ \A c \in EgConns : inner[c] \in Seq(Connect .. sent[c])
    /\ opened \in [EgConns -> BOOLEAN]

EgInit ==
    /\ egCaller = "waiting" /\ egNetns \in BOOLEAN /\ egWorker = "open"
    /\ egNs = "host" /\ egBound = "none" /\ egReady = "empty" /\ egKill = FALSE
    /\ egIntake = "none"
    /\ conn = [c \in EgConns |-> "none"] /\ kind = [c \in EgConns |-> "http"]
    /\ sent = [c \in EgConns |-> 0] /\ taken = [c \in EgConns |-> 0]
    /\ inner = [c \in EgConns |-> << >>] /\ opened = [c \in EgConns |-> FALSE]

-----------------------------------------------------------------------------
(* The worker thread. *)

\* Its end closes the listener and drops the runtime's tasks.
WorkerEnds(ready) ==
    /\ egWorker' = "ended" /\ egReady' = ready
    /\ egBound' = "none" /\ egIntake' = IF egIntake = "up" THEN "ended" ELSE egIntake
    /\ conn' = [c \in EgConns |-> IF conn[c] = "none" THEN "none" ELSE "closed"]
    /\ UNCHANGED <<kind, sent, taken, inner, opened>>

\* setns into the VM's namespace, and back into the host's.
NsAfter ==
    CASE egWorker = "enter" /\ egNetns -> "vm" [] egWorker = "back" /\ egNetns -> "host"
      [] OTHER -> egNs

\* One step of starting; without a namespace, three of them are nothing.
StartStep ==
    /\ egWorker \in Starting
    /\ egNs' = NsAfter
    /\ egBound' = IF egWorker = "bind" THEN egNs ELSE egBound
    /\ egIntake' = IF egWorker = "inner" THEN "up" ELSE egIntake
    /\ egWorker' = AfterStep(egWorker)
    /\ egReady' = IF egWorker' = "serving" THEN "ok" ELSE egReady
    /\ UNCHANGED <<egCaller, egNetns, egKill, egConn>>

\* A step fails and its error is published; or the thread panics.
StartFails ==
    /\ egWorker \in Starting
    /\ WorkerEnds("err") \/ WorkerEnds("closed")
    /\ UNCHANGED <<egCaller, egNetns, egNs, egKill>>

\* kill_rx.await ends either way.
KillSeen == egKill

\* The shutdown signal; hudsucker takes no connections any more.
Stopping ==
    /\ egWorker = "serving" /\ KillSeen
    /\ egWorker' = "stopping"
    /\ UNCHANGED <<egCaller, egNetns, egNs, egBound, egReady, egKill, egIntake, egConn>>

Quiet == \A c \in EgConns : conn[c] \in {"none", "backlog", "closed"}

\* start() returns, when the connections have ended or before.
StopDone ==
    /\ egWorker = "stopping" /\ WorkerEnds(egReady)
    /\ UNCHANGED <<egCaller, egNetns, egNs, egKill>>

\* serve_intake's accept fails: the loop is left and the listener with it.
AcceptFails ==
    /\ egWorker \in {"serving", "stopping"} /\ egIntake = "up"
    /\ egIntake' = "ended" /\ egBound' = "none"
    /\ conn' = [c \in EgConns |-> IF conn[c] = "backlog" THEN "closed" ELSE conn[c]]
    /\ UNCHANGED <<egCaller, egNetns, egWorker, egNs, egReady, egKill, kind, sent, taken,
                   inner, opened>>

-----------------------------------------------------------------------------
(* The caller. *)

egNotCaller == <<egNetns, egWorker, egNs, egBound, egReady, egIntake, egConn>>

\* rx.await: an outcome, or the channel closed and the thread joined.
StartReturns ==
    /\ egCaller = "waiting" /\ egReady # "empty"
    /\ IF egReady = "ok" THEN egCaller' = "running" /\ UNCHANGED egKill
                         ELSE egCaller' = "failed" /\ egKill' = TRUE
    /\ UNCHANGED egNotCaller

\* The future is dropped where it awaits: kill_tx goes with it, the thread is detached.
StartCancelled ==
    /\ egCaller = "waiting"
    /\ egCaller' = "cancelled" /\ egKill' = TRUE /\ UNCHANGED egNotCaller

DropProxy ==
    /\ egCaller = "running"
    /\ egCaller' = "dropping" /\ egKill' = TRUE /\ UNCHANGED egNotCaller

\* join_thread_with_timeout: the thread is finished, or PROXY_JOIN_TIMEOUT is over.
DropReturns ==
    /\ egCaller = "dropping"
    /\ egCaller' = "gone" /\ UNCHANGED <<egKill, egNotCaller>>

-----------------------------------------------------------------------------
(* A guest, and its connection: handle_intake. *)

GuestConnects(c, k) ==
    /\ conn[c] = "none" /\ egBound # "none"
    /\ conn' = [conn EXCEPT ![c] = "backlog"] /\ kind' = [kind EXCEPT ![c] = k]
    /\ UNCHANGED <<egThread, sent, taken, inner, opened>>

GuestSends(c) ==
    /\ conn[c] \notin {"none", "closed"} /\ sent[c] < MaxChunks
    /\ sent' = [sent EXCEPT ![c] = @ + 1]
    /\ UNCHANGED <<egThread, conn, kind, taken, inner, opened>>

\* The guest, or the other side of a splice, closes; what was not read is lost.
PeerCloses(c) ==
    /\ conn[c] \in {"backlog", "reading", "connect", "splice"}
    /\ conn' = [conn EXCEPT ![c] = "closed"]
    /\ UNCHANGED <<egThread, kind, sent, taken, inner, opened>>

AcceptGuest(c) ==
    /\ conn[c] = "backlog" /\ egIntake = "up" /\ egWorker \in {"serving", "stopping"}
    /\ conn' = [conn EXCEPT ![c] = "reading"]
    /\ UNCHANGED <<egThread, kind, sent, taken, inner, opened>>

\* classify, after a read: one more, a refusal, or a connection to the inner listener.
Classified(c, n) ==
    IF n < Need(kind[c])
    THEN IF n = MaxPrefix THEN "closed" ELSE "reading"
    ELSE IF kind[c] = "malformed" THEN "closed" ELSE "dial"

\* read_intake
ReadIntake(c) ==
    /\ conn[c] = "reading" /\ taken[c] < sent[c]
    /\ taken' = [taken EXCEPT ![c] = @ + 1]
    /\ conn' = [conn EXCEPT ![c] = Classified(c, taken[c] + 1)]
    /\ UNCHANGED <<egThread, kind, sent, inner, opened>>

\* Intake::Tls
Tunnelled(c) == kind[c] \in {"tls", "unnamed"}

\* The connection to hudsucker; TLS needs an authority and sends its CONNECT there.
Dial(c) ==
    /\ conn[c] = "dial"
    /\ IF egWorker = "serving" /\ (Tunnelled(c) => kind[c] = "tls")
       THEN /\ inner' = [inner EXCEPT ![c] = IF Tunnelled(c) THEN <<Connect>> ELSE << >>]
            /\ conn' = [conn EXCEPT ![c] = IF Tunnelled(c) THEN "connect" ELSE "prefix"]
       ELSE conn' = [conn EXCEPT ![c] = "closed"] /\ UNCHANGED inner
    /\ UNCHANGED <<egThread, kind, sent, taken, opened>>

\* connect_response_is_success
OpenedBy(ok) == IF ok THEN "prefix" ELSE "closed"

\* synthesize_connect: the answer's header block, and no byte after it.
ConnectAnswered(c, ok) ==
    /\ conn[c] = "connect"
    /\ opened' = [opened EXCEPT ![c] = ok]
    /\ conn' = [conn EXCEPT ![c] = OpenedBy(ok)]
    /\ UNCHANGED <<egThread, kind, sent, taken, inner>>

\* Mutant: the CONNECT is waited for without a deadline.
OverdueReading(c) == conn[c] = "reading"
\* timeout_at(deadline), around reading and around the CONNECT.
Overdue(c) == conn[c] \in {"reading", "connect"}

Expires(c) ==
    /\ Overdue(c)
    /\ conn' = [conn EXCEPT ![c] = "closed"]
    /\ UNCHANGED <<egThread, kind, sent, taken, inner, opened>>

\* The bytes classification consumed.
PrefixOf(c) == [i \in 1 .. taken[c] |-> i]

WritePrefix(c) ==
    /\ conn[c] = "prefix"
    /\ inner' = [inner EXCEPT ![c] = @ \o PrefixOf(c)]
    /\ conn' = [conn EXCEPT ![c] = "splice"]
    /\ UNCHANGED <<egThread, kind, sent, taken, opened>>

\* copy_bidirectional
Relay(c) ==
    /\ conn[c] = "splice" /\ taken[c] < sent[c]
    /\ taken' = [taken EXCEPT ![c] = @ + 1]
    /\ inner' = [inner EXCEPT ![c] = Append(@, taken[c] + 1)]
    /\ UNCHANGED <<egThread, conn, kind, sent, opened>>

ConnStep(c) ==
    ReadIntake(c) \/ Dial(c) \/ WritePrefix(c) \/ Relay(c)

EgNext ==
    \/ StartStep \/ StartFails \/ Stopping \/ StopDone \/ AcceptFails
    \/ StartReturns \/ StartCancelled \/ DropProxy \/ DropReturns
    \/ \E c \in EgConns :
        \/ \E k \in StreamKinds : GuestConnects(c, k)
        \/ GuestSends(c) \/ PeerCloses(c) \/ AcceptGuest(c) \/ ConnStep(c) \/ Expires(c)
        \/ \E ok \in BOOLEAN : ConnectAnswered(c, ok)

\* The thread and its tasks run, timers fire, and hudsucker stops once it has no
\* connection left.  Nothing is asked of a guest or of an upstream.
EgFairness ==
    /\ WF_egVars(StartStep) /\ WF_egVars(Stopping) /\ WF_egVars(Quiet /\ StopDone)
    /\ WF_egVars(StartReturns) /\ WF_egVars(DropReturns)
    /\ \A c \in EgConns : WF_egVars(ConnStep(c)) /\ WF_egVars(Expires(c))

EgSpec == EgInit /\ [][EgNext]_egVars /\ EgFairness

-----------------------------------------------------------------------------
(* Properties. *)

\* What hudsucker gets of a connection is the guest's stream from its first byte, with
\* nothing lost to classification, and for TLS only behind a CONNECT that it granted.
InnerGetsTheStream ==
    \A c \in EgConns : conn[c] = "splice" =>
        LET tls == kind[c] \in {"tls", "unnamed"}
            all == [i \in 1 .. taken[c] |-> i]
        IN  inner[c] = IF tls THEN <<Connect>> \o all ELSE all

\* No byte of a guest's TLS goes to a destination that has no name, or that the deny
\* list refused.
NothingPastRefusal ==
    \A c \in EgConns : kind[c] \in {"tls", "unnamed"} /\ Len(inner[c]) > 1 =>
        opened[c] /\ kind[c] = "tls"

\* The proxy listens where the VM is and dials from where the host is, also though one
\* thread does both: "re-enter host netns for upstream re-origination".
DialsFromHost ==
    \A c \in EgConns : conn[c] \in {"dial", "connect", "prefix", "splice"} =>
        egNs = "host" /\ (egNetns /\ egBound # "none" => egBound = "vm")

\* The per-connection work is bounded by INTAKE_HANDSHAKE_BUDGET: a guest that says
\* nothing, or a CONNECT that is not answered, holds no task for ever.
IntakeIsDecided ==
    \A c \in EgConns : (conn[c] = "reading") ~> (conn[c] \in {"splice", "closed"})

\* A start that was dropped, or a proxy that was, leaves no worker behind it, except
\* for as long as a guest keeps a connection of its open.
NoWorkerStays ==
    (egCaller \in {"cancelled", "failed", "gone"}) ~> (egWorker = "ended" \/ ~Quiet)

\* What handle_intake hands on, to whom, and from which namespace.
EgressSafe ==
  /\ EgTypeOK
  /\ InnerGetsTheStream
  /\ NothingPastRefusal
  /\ DialsFromHost

\* No connection's task and no proxy's worker stays for ever.
EgressEnds ==
  /\ IntakeIsDecided
  /\ NoWorkerStays
=============================================================================
