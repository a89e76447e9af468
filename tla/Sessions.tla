------------------------------ MODULE Sessions ------------------------------
(***************************************************************************)
(* Interactive sessions over one control connection: the host's SessionMux *)
(* and Session handles (vmcell/src/steward/session.rs), the vsock stream   *)
(* between them, and the guest steward's connection thread with the        *)
(* writer, pump and waiter threads of every session                        *)
(* (vmcell-steward/src/session.rs, serve.rs, run.rs).                      *)
(*                                                                         *)
(* A child's output is the chunks 1, 2, ...; its input the items 1, 2, ... *)
(* and Eof.  A child is "orphan" once it has exited and left a descendant, *)
(* in a process group of its own, that still holds its output.             *)
(***************************************************************************)
EXTENDS Naturals, Sequences, SequencesExt

CONSTANTS
  MaxSessions,   \* bound: sessions opened on the connection
  Bounds,        \* bounds to choose from: sessions, chunks of output of a
                 \* child (out), items sent to a child's stdin (in)
  Pty,           \* the sessions opened with a terminal
  Eof, Exit

Sids == 1..MaxSessions

ASSUME SessionsConstants ==
  /\ MaxSessions \in Nat
  /\ Bounds \subseteq [sessions : Sids, out : Nat, in : Nat]
  /\ Pty \subseteq Sids

VARIABLES
  bound,         \* the bounds of this behaviour
  \* host
  closed,        \* the registry's closed flag (its Option is None)
  registry,      \* sessions whose event sender the registry holds
  mux,           \* the SessionMux has not been dropped
  writer,        \* writer_task runs
  user,          \* where the holder of each session is
  events,        \* [Sids -> everything delivered to the session's channel]
  recvd,         \* [Sids -> how many of them recv has returned]
  sent,          \* [Sids -> stdin items send has accepted]
  \* wire
  link, up, down,
  \* guest
  table,         \* sessions in the connection's table
  child, emitted, pumped, pump,
  stdinq, sink, stdin,
  waiter,
  conn,          \* the connection thread
  doomed,        \* drained from the table, not killed yet
  steward,       \* "up", "swept" by a shutdown, "gone"
  late           \* sessions registered after the shutdown sweep

host == <<bound, closed, registry, mux, writer, user, events, recvd, sent>>
wire == <<link, up, down>>
process == <<child, emitted, pumped, pump, stdinq, sink, stdin>>
guest == <<table, process, waiter, conn, doomed, steward, late>>
vars == <<host, wire, guest>>

Running == {"run", "orphan"}
Holding == {"open", "closing"}
Event == (1..bound.out) \cup {Exit}

SessionsTypeOK ==
  /\ bound \in Bounds
  /\ closed \in BOOLEAN /\ mux \in BOOLEAN /\ writer \in BOOLEAN /\ link \in BOOLEAN
  /\ registry \subseteq Sids
  /\ user \in [Sids -> {"none", "opening", "failed", "ended"} \cup Holding]
  /\ \A s \in Sids : events[s] \in Seq(Event \cup {0}) /\ recvd[s] \in 0..Len(events[s])
  /\ \A s \in Sids : sent[s] \in Seq((1..bound.in) \cup {Eof})
  /\ table \subseteq Sids /\ doomed \subseteq Sids /\ late \subseteq Sids
  /\ child \in [Sids -> {"none", "dead"} \cup Running]
  /\ emitted \in [Sids -> 0..bound.out] /\ pumped \in [Sids -> 0..bound.out]
  /\ pump \in [Sids -> BOOLEAN] /\ sink \in [Sids -> BOOLEAN]
  /\ waiter \in [Sids -> {"none", "wait", "join", "remove", "done"}]
  /\ conn \in {"serving", "ending", "ended"}
  /\ steward \in {"up", "swept", "gone"}

Init ==
  /\ bound \in Bounds
  /\ closed = FALSE /\ registry = {} /\ mux = TRUE /\ writer = TRUE
  /\ user = [s \in Sids |-> "none"]
  /\ events = [s \in Sids |-> <<>>] /\ recvd = [s \in Sids |-> 0]
  /\ sent = [s \in Sids |-> <<>>]
  /\ link = TRUE /\ up = <<>> /\ down = <<>>
  /\ table = {} /\ child = [s \in Sids |-> "none"]
  /\ emitted = [s \in Sids |-> 0] /\ pumped = [s \in Sids |-> 0]
  /\ pump = [s \in Sids |-> FALSE]
  /\ stdinq = [s \in Sids |-> <<>>] /\ sink = [s \in Sids |-> FALSE]
  /\ stdin = [s \in Sids |-> <<>>]
  /\ waiter = [s \in Sids |-> "none"]
  /\ conn = "serving" /\ doomed = {} /\ steward = "up" /\ late = {}

\* Bound: one fault per behaviour (a lost link, a dropped mux or a shutdown).
NoFaultYet == link /\ steward = "up"

-----------------------------------------------------------------------------
(* Host: SessionMux *)

MayRegister == ~closed

\* SessionMux::open, its critical section: ids are handed out in order.
OpenRegister(s) ==
  /\ mux /\ s <= bound.sessions
  /\ user[s] = "none" /\ \A r \in 1..(s - 1) : user[r] # "none"
  /\ IF MayRegister
     THEN /\ registry' = registry \cup {s}
          /\ user' = [user EXCEPT ![s] = "opening"]
     ELSE /\ user' = [user EXCEPT ![s] = "failed"]
          /\ UNCHANGED registry
  /\ UNCHANGED <<bound, closed, mux, writer, events, recvd, sent, wire, guest>>

\* The rest of open: the frame is queued, or the entry is taken back.
OpenSend(s) ==
  /\ user[s] = "opening"
  /\ IF writer
     THEN /\ up' = Append(up, [t |-> "open", s |-> s])
          /\ user' = [user EXCEPT ![s] = "open"]
          /\ UNCHANGED registry
     ELSE /\ registry' = registry \ {s}
          /\ user' = [user EXCEPT ![s] = "failed"]
          /\ UNCHANGED up
  /\ UNCHANGED <<bound, closed, mux, writer, events, recvd, sent, link, down, guest>>

\* Session::send: refused once the registry is closed or the writer is gone.
Send(s, frame) == ~closed /\ writer /\ user[s] \in Holding /\ up' = Append(up, frame)

WriteStdin(s) ==
  LET n == Len(sent[s]) + 1 IN
  /\ n <= bound.in /\ ~Contains(sent[s], Eof)
  /\ Send(s, [t |-> "stdin", s |-> s, item |-> n])
  /\ sent' = [sent EXCEPT ![s] = Append(@, n)]
  /\ UNCHANGED <<bound, closed, registry, mux, writer, user, events, recvd, link, down, guest>>

\* A terminal has no half-close: close_stdin refuses before it sends.
CloseStdin(s) ==
  /\ s \notin Pty /\ Len(sent[s]) < bound.in /\ ~Contains(sent[s], Eof)
  /\ Send(s, [t |-> "eof", s |-> s])
  /\ sent' = [sent EXCEPT ![s] = Append(@, Eof)]
  /\ UNCHANGED <<bound, closed, registry, mux, writer, user, events, recvd, link, down, guest>>

\* Bound: one close per session.
Close(s) ==
  /\ user[s] # "closing"
  /\ Send(s, [t |-> "close", s |-> s])
  /\ user' = [user EXCEPT ![s] = "closing"]
  /\ UNCHANGED <<bound, closed, registry, mux, writer, events, recvd, sent, link, down, guest>>

\* Session::recv: the next event, or None once the channel has lost its sender.
Recv(s) ==
  /\ user[s] \in Holding
  /\ \/ /\ recvd[s] < Len(events[s])
        /\ recvd' = [recvd EXCEPT ![s] = @ + 1]
        /\ user' = [user EXCEPT ![s] = IF events[s][recvd'[s]] = Exit THEN "ended" ELSE @]
     \/ /\ recvd[s] = Len(events[s]) /\ s \notin registry
        /\ user' = [user EXCEPT ![s] = "ended"]
        /\ UNCHANGED recvd
  /\ UNCHANGED <<bound, closed, registry, mux, writer, events, sent, wire, guest>>

\* reader_task: deliver, and forget the session after its SessionExit.
Deliver ==
  /\ mux /\ ~closed /\ down # <<>>
  /\ LET m == Head(down) IN
     /\ events' = IF m.s \in registry THEN [events EXCEPT ![m.s] = Append(@, m.e)] ELSE events
     /\ registry' = IF m.e = Exit THEN registry \ {m.s} ELSE registry
  /\ down' = Tail(down)
  /\ UNCHANGED <<bound, closed, mux, writer, user, recvd, sent, link, up, guest>>

\* Mutant: the reader's end leaves the senders in the registry.
ReaderEndKept == closed' = TRUE /\ UNCHANGED registry

\* The reader's last step: one critical section closes and drops every sender.
ReaderEnd == closed' = TRUE /\ registry' = {}

HostEof ==
  /\ mux /\ ~closed /\ ~link
  /\ ReaderEnd
  /\ down' = <<>>
  /\ UNCHANGED <<bound, mux, writer, user, events, recvd, sent, link, up, guest>>

WriterEnd ==
  /\ mux /\ writer /\ ~link
  /\ writer' = FALSE
  /\ UNCHANGED <<bound, closed, registry, mux, user, events, recvd, sent, wire, guest>>

\* Drop for SessionMux: both tasks are aborted and the connection closes.  The
\* registry lives on in the sessions that hold it.
DropMux ==
  /\ mux /\ NoFaultYet
  /\ mux' = FALSE /\ writer' = FALSE /\ link' = FALSE /\ down' = <<>>
  /\ UNCHANGED <<bound, closed, registry, user, events, recvd, sent, up, guest>>

-----------------------------------------------------------------------------
(* Guest: the connection thread *)

\* kill_group does not reach a descendant in a group of its own.
Killed(s, after) ==
  [child EXCEPT ![s] = IF @ = "run" THEN after ELSE @]

CloseSession(s, after) == IF s \in table THEN Killed(s, after) ELSE child

RouteStdinEof(s) ==
  /\ stdinq' = [stdinq EXCEPT ![s] = Append(@, Eof)]
  /\ UNCHANGED <<sink, stdin>>

\* serve_loop on one frame.
Handle(m) ==
  \/ /\ m.t = "open"
     /\ \/ /\ table' = table \cup {m.s}
           /\ late' = IF steward = "swept" THEN late \cup {m.s} ELSE late
           /\ child' = [child EXCEPT ![m.s] = "run"]
           /\ pump' = [pump EXCEPT ![m.s] = TRUE]
           /\ sink' = [sink EXCEPT ![m.s] = TRUE]
           /\ waiter' = [waiter EXCEPT ![m.s] = "wait"]
           /\ UNCHANGED down
        \/ \* open_failed: a message on stderr and exit code 127
           /\ down' = IF link THEN down \o <<[s |-> m.s, e |-> 0], [s |-> m.s, e |-> Exit]>> ELSE down
           /\ UNCHANGED <<table, late, child, pump, sink, waiter>>
     /\ UNCHANGED <<stdinq, stdin>>
  \/ /\ m.t = "stdin"
     /\ stdinq' = IF m.s \in table THEN [stdinq EXCEPT ![m.s] = Append(@, m.item)] ELSE stdinq
     /\ UNCHANGED <<table, late, child, pump, sink, waiter, stdin, down>>
  \/ /\ m.t = "eof"
     /\ IF m.s \in table \ Pty THEN RouteStdinEof(m.s) ELSE UNCHANGED <<stdinq, sink, stdin>>
     /\ UNCHANGED <<table, late, child, pump, waiter, down>>
  \/ /\ m.t = "close"
     /\ \E after \in {"dead", "orphan"} : child' = CloseSession(m.s, after)
     /\ UNCHANGED <<table, late, pump, sink, waiter, stdinq, stdin, down>>

Serve ==
  /\ steward # "gone" /\ conn = "serving" /\ up # <<>>
  /\ Handle(Head(up))
  /\ up' = Tail(up)
  /\ UNCHANGED <<host, link, emitted, pumped, conn, doomed, steward>>

\* teardown_sessions drains the table under its lock ...
Drain == doomed' = doomed \cup table /\ table' = {}

\* The read loop ends: the ticket's drop tears the connection down.
GuestEof ==
  /\ steward # "gone" /\ conn = "serving" /\ ~link
  /\ Drain
  /\ conn' = "ending" /\ up' = <<>>
  /\ UNCHANGED <<host, link, down, process, waiter, steward, late>>

\* ... and kills each session's group, then ends its stdin writer, outside it.
KillDoomed(s) ==
  /\ steward # "gone" /\ s \in doomed
  /\ \E after \in {"dead", "orphan"} : child' = Killed(s, after)
  /\ sink' = [sink EXCEPT ![s] = FALSE]
  /\ stdinq' = [stdinq EXCEPT ![s] = <<>>]
  /\ doomed' = doomed \ {s}
  /\ UNCHANGED <<host, wire, table, emitted, pumped, pump, stdin, waiter, conn, steward, late>>

TornDown == doomed = {}

ConnEnd ==
  /\ steward # "gone" /\ conn = "ending" /\ TornDown
  /\ conn' = "ended"
  /\ UNCHANGED <<host, wire, table, process, waiter, doomed, steward, late>>

\* SIGTERM under SigtermPolicy::Shutdown: teardown_all sweeps the connection if
\* it is still registered; its thread goes on serving meanwhile.
Sweep ==
  /\ NoFaultYet
  /\ steward' = "swept"
  /\ IF conn # "ended" THEN Drain ELSE UNCHANGED <<table, doomed>>
  /\ UNCHANGED <<host, wire, process, waiter, conn, late>>

Swept == steward = "swept" /\ doomed = {}

\* run returns and the process exits: its threads and its sockets are gone.
StewardExit ==
  /\ Swept
  /\ steward' = "gone" /\ link' = FALSE
  /\ UNCHANGED <<host, up, down, table, process, waiter, conn, doomed, late>>

-----------------------------------------------------------------------------
(* Guest: the session's own threads, and the child *)

Output(s) ==
  /\ child[s] \in Running /\ emitted[s] < bound.out
  /\ emitted' = [emitted EXCEPT ![s] = @ + 1]
  /\ UNCHANGED <<host, wire, table, child, pumped, pump, stdinq, sink, stdin, waiter, conn, doomed, steward, late>>

ChildExit(s) ==
  /\ \/ child[s] = "run" /\ \E after \in {"dead", "orphan"} : child' = [child EXCEPT ![s] = after]
     \/ child[s] = "orphan" /\ child' = [child EXCEPT ![s] = "dead"]
  /\ UNCHANGED <<host, wire, table, emitted, pumped, pump, stdinq, sink, stdin, waiter, conn, doomed, steward, late>>

Unread(s) == pumped[s] < emitted[s]

\* spawn_pump: chunks until end of file or a failed send.
Pump(s) ==
  /\ steward # "gone" /\ pump[s]
  /\ \/ /\ Unread(s) /\ link
        /\ pumped' = [pumped EXCEPT ![s] = @ + 1]
        /\ down' = Append(down, [s |-> s, e |-> pumped[s] + 1])
        /\ UNCHANGED pump
     \/ /\ \/ Unread(s) /\ ~link
           \/ ~Unread(s) /\ child[s] = "dead"
        /\ pump' = [pump EXCEPT ![s] = FALSE]
        /\ UNCHANGED <<pumped, down>>
  /\ UNCHANGED <<host, link, up, table, child, emitted, stdinq, sink, stdin, waiter, conn, doomed, steward, late>>

\* spawn_stdin_writer: one item; a write to a dead child ends the thread.
StdinWriter(s) ==
  /\ steward # "gone" /\ stdinq[s] # <<>>
  /\ LET item == Head(stdinq[s]) IN
     /\ stdin' = IF sink[s] /\ child[s] = "run" THEN [stdin EXCEPT ![s] = Append(@, item)] ELSE stdin
     /\ sink' = [sink EXCEPT ![s] = @ /\ item # Eof /\ child[s] = "run"]
  /\ stdinq' = [stdinq EXCEPT ![s] = Tail(@)]
  /\ UNCHANGED <<host, wire, table, child, emitted, pumped, pump, waiter, conn, doomed, steward, late>>

\* Mutant: the waiter does not join the pumps before it sends the exit.
PumpsJoinedNot(s) == TRUE

PumpsJoined(s) == ~pump[s]

\* spawn_session_waiter: wait_for, join the pumps, SessionExit, leave the table.
Waiter(s) ==
  /\ steward # "gone"
  /\ \/ /\ waiter[s] = "wait" /\ child[s] # "run"
        /\ waiter' = [waiter EXCEPT ![s] = "join"]
        /\ UNCHANGED <<down, table>>
     \/ /\ waiter[s] = "join" /\ PumpsJoined(s)
        /\ waiter' = [waiter EXCEPT ![s] = "remove"]
        /\ down' = IF link THEN Append(down, [s |-> s, e |-> Exit]) ELSE down
        /\ UNCHANGED table
     \/ /\ waiter[s] = "remove"
        /\ waiter' = [waiter EXCEPT ![s] = "done"]
        /\ table' = table \ {s}
        /\ UNCHANGED down
  /\ UNCHANGED <<host, link, up, process, conn, doomed, steward, late>>

\* The VM dies, or its vsock device resets the connection.
LinkDown ==
  /\ NoFaultYet
  /\ link' = FALSE
  /\ UNCHANGED <<host, up, down, guest>>

-----------------------------------------------------------------------------
Next ==
  \/ \E s \in Sids :
       \/ OpenRegister(s) \/ OpenSend(s) \/ WriteStdin(s) \/ CloseStdin(s) \/ Close(s) \/ Recv(s)
       \/ KillDoomed(s) \/ Output(s) \/ ChildExit(s) \/ Pump(s) \/ StdinWriter(s) \/ Waiter(s)
  \/ Deliver \/ HostEof \/ WriterEnd \/ DropMux
  \/ Serve \/ GuestEof \/ ConnEnd \/ Sweep \/ StewardExit \/ LinkDown

Spec == Init /\ [][Next]_vars

\* Threads and tasks that can run do; nothing makes a child exit, a caller
\* call, a link fail or an init send SIGTERM.
Fairness ==
  /\ WF_vars(Deliver) /\ WF_vars(HostEof) /\ WF_vars(Serve) /\ WF_vars(GuestEof) /\ WF_vars(ConnEnd)
  /\ \A s \in Sids :
       /\ WF_vars(OpenSend(s)) /\ WF_vars(Recv(s)) /\ WF_vars(KillDoomed(s))
       /\ WF_vars(Pump(s)) /\ WF_vars(Waiter(s))

FairSpec == Spec /\ Fairness

-----------------------------------------------------------------------------
(* What a session promises *)

Outputs(s) == SelectSeq(events[s], LAMBDA e : e # Exit)

\* A session yields its child's output in order, then one Exit, and the Exit
\* only after everything the child and its descendants wrote (SessionEvent;
\* spawn_session_waiter joins the pumps first).
ExitComesAfterAllOutput ==
  \A s \in Sids :
    /\ child[s] # "none" => \A i \in DOMAIN Outputs(s) : Outputs(s)[i] = i
    /\ Contains(events[s], Exit) =>
         /\ Last(events[s]) = Exit
         /\ child[s] # "none" => Len(events[s]) = emitted[s] + 1 /\ child[s] = "dead"

\* What reaches the child's stdin is what its holder wrote, in that order, and
\* the end of input only after all of it (the per-session writer thread).
StdinIsPrefixOfSent == \A s \in Sids : IsPrefix(stdin[s], sent[s])

\* When a connection has ended no process group of its sessions runs (law C3).
SessionsDieWithConnection ==
  conn = "ended" => \A s \in Sids : child[s] # "run"

\* A steward that shut down leaves no session running but one whose
\* OpenSession was served after the sweep had drained the table.
SweepKillsWhatItFound ==
  steward = "gone" => \A s \in Sids \ late : child[s] # "run"

\* While the mux lives, recv does not hang on a connection that is gone.
RecvEndsWithConnection ==
  \A s \in Sids : (user[s] \in Holding /\ ~link) ~> (user[s] \notin Holding \/ ~mux)

\* A close that is not lost ends the session at the holder, unless a descendant
\* keeps the output open.
CloseEndsSession ==
  \A s \in Sids :
    (user[s] = "closing") ~> (user[s] = "ended" \/ child[s] = "orphan" \/ ~mux)

\* What a session carries both ways, and what dies with its connection and its
\* steward.
SessionsSafe ==
  /\ SessionsTypeOK
  /\ ExitComesAfterAllOutput
  /\ StdinIsPrefixOfSent
  /\ SessionsDieWithConnection
  /\ SweepKillsWhatItFound

\* A holder of a session learns of its end.
SessionsEnd ==
  /\ RecvEndsWithConnection
  /\ CloseEndsSession
=============================================================================
