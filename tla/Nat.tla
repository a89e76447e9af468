-------------------------------- MODULE Nat --------------------------------
(***************************************************************************)
(* The userspace NAT of an unprivileged VM: run_network of                 *)
(* vmcell/src/net/smoltcp.rs.  One task turns guest TCP connections into   *)
(* connections to the host's loopback.  Its table holds a pool of          *)
(* permanent listeners per forwarded port, and listeners armed on demand   *)
(* by the SYNs it sees, up to a bound.                                     *)
(*                                                                         *)
(* A tick reads the guest's frames, then visits every mapping; it waits    *)
(* for a dial, and the guest and the host go on meanwhile.  Bytes are      *)
(* numbers: the n-th byte a guest connection sends is n.                   *)
(***************************************************************************)
EXTENDS Naturals, Sequences, FiniteSets, FiniteSetsExt, SequencesExt

CONSTANTS
  Conns,          \* guest connections
  PermanentPort, OtherPort,
  NatPool,        \* FORWARD_PORT_POOL
  MaxDynamic,     \* MAX_DYNAMIC_SOCKETS
  Burst,          \* SYN_BURST
  MaxBytes,       \* bound: bytes either side of a connection sends
  MaxTraffic,     \* bound: bytes in all
  TxRoom,         \* a socket's send buffer
  MaxDials,       \* bound: host connections
  MaxFrames       \* bound: frames the guest has in flight

ASSUME NatConstants ==
  /\ {NatPool, MaxDynamic, Burst, TxRoom, MaxDials, MaxFrames} \subseteq Nat \ {0}
  /\ MaxBytes \in Nat /\ MaxTraffic \in Nat /\ PermanentPort # OtherPort

Ports == {PermanentPort, OtherPort}
Slots == 1..(NatPool + MaxDynamic + Burst)
Permanent == 1..NatPool

VARIABLES
  slot,    \* [Slots -> mapping]: port_mappings and the socket of each
  guests,   \* [Conns -> the guest's end]
  frames,  \* SharedState::tx_queue, oldest first
  dials,   \* host connections, in the order they were made
  turn     \* 0: the poll is next; s: mapping s is next

natVars == <<slot, guests, frames, dials, turn>>

NoSlot == 0

\* conn: the guest connection of the socket; rx: the first byte it has not
\* handed on, and how many it has; tx: bytes queued for the guest; host: the
\* attached stream, an index of dials.
NoPort == [port |-> OtherPort, state |-> "absent", conn |-> NoSlot, next |-> 1, rx |-> 0, tx |-> 0, host |-> NoSlot]
Listener(p) == [NoPort EXCEPT !.port = p, !.state = "listen"]

SockStates == {"absent", "closed", "listen", "established", "close_wait", "fin_wait", "last_ack"}

NatTypeOK ==
  /\ \A s \in Slots :
       /\ slot[s].port \in Ports /\ slot[s].state \in SockStates
       /\ slot[s].conn \in Conns \cup {NoSlot} /\ slot[s].host \in 0..Len(dials)
       /\ slot[s].next \in 1..(MaxBytes + 1) /\ slot[s].rx \in 0..MaxBytes /\ slot[s].tx \in 0..TxRoom
  /\ \A g \in Conns : guests[g].state \in {"new", "syn", "open", "fin", "gone"} /\ guests[g].sent \in 0..MaxBytes
  /\ Len(frames) <= MaxFrames /\ Len(dials) <= MaxDials
  /\ turn \in Slots \cup {0}

NatInit ==
  /\ slot = [s \in Slots |-> IF s \in Permanent THEN [Listener(PermanentPort) EXCEPT !.state = "closed"]
                                                ELSE NoPort]
  /\ guests = [g \in Conns |-> [state |-> "new", port |-> PermanentPort, sent |-> 0]]
  /\ frames = <<>> /\ dials = <<>> /\ turn = 0

IsOpen(x) == x.state \notin {"absent", "closed"}
CanSend(x) == x.state \in {"established", "close_wait"} /\ x.tx < TxRoom
CanRecv(x) == x.rx > 0

-----------------------------------------------------------------------------
(* The guest, and the host's servers *)

Traffic == FoldSet(LAMBDA g, n : n + guests[g].sent, 0, Conns)
             + FoldLeft(LAMBDA n, d : n + d.sent, 0, dials)

Put(f) == Len(frames) < MaxFrames /\ frames' = Append(frames, f)

GuestConnect(g, p) ==
  /\ guests[g].state = "new"
  /\ Put([kind |-> "syn", conn |-> g])
  /\ guests' = [guests EXCEPT ![g].state = "syn", ![g].port = p]
  /\ UNCHANGED <<slot, dials, turn>>

GuestSend(g) ==
  /\ guests[g].state = "open" /\ guests[g].sent < MaxBytes /\ Traffic < MaxTraffic
  /\ Put([kind |-> "data", conn |-> g])
  /\ guests' = [guests EXCEPT ![g].sent = @ + 1]
  /\ UNCHANGED <<slot, dials, turn>>

GuestClose(g) ==
  /\ guests[g].state = "open"
  /\ Put([kind |-> "fin", conn |-> g])
  /\ guests' = [guests EXCEPT ![g].state = "fin"]
  /\ UNCHANGED <<slot, dials, turn>>

GuestReset(g) ==
  /\ guests[g].state \in {"open", "fin"}
  /\ Put([kind |-> "rst", conn |-> g])
  /\ guests' = [guests EXCEPT ![g].state = "gone"]
  /\ UNCHANGED <<slot, dials, turn>>

\* The guest takes what its socket has been sent.
GuestRead(s) ==
  /\ slot[s].tx > 0
  /\ slot' = [slot EXCEPT ![s].tx = 0]
  /\ UNCHANGED <<guests, frames, dials, turn>>

\* What a server does to a stream the NAT has dropped makes no difference.
Attached(h) == \E s \in Slots : slot[s].host = h

HostSend(h) ==
  /\ Attached(h)
  /\ dials[h].open /\ dials[h].sent < MaxBytes /\ Traffic < MaxTraffic
  /\ dials' = [dials EXCEPT ![h].sent = @ + 1]
  /\ UNCHANGED <<slot, guests, frames, turn>>

HostClose(h) ==
  /\ Attached(h)
  /\ dials[h].open
  /\ dials' = [dials EXCEPT ![h].open = FALSE]
  /\ UNCHANGED <<slot, guests, frames, turn>>

-----------------------------------------------------------------------------
(* The poll: SYNs are admitted, then the sockets take the frames *)

Dynamic(t) == {s \in Slots \ Permanent : t[s].state # "absent"}

\* syn_already_served
Serves(t, p) ==
  \E s \in Slots : t[s].port = p /\ t[s].state # "absent"
                   /\ (s \in Permanent \/ t[s].state = "listen")

HasRoom(t) == Cardinality(Dynamic(t)) + Burst <= MaxDynamic

\* reclaim_and_has_room: closed dynamic mappings go, with their streams.
Reclaimed(t) == [s \in Slots |-> IF s \in Dynamic(t) /\ ~IsOpen(t[s]) THEN NoPort ELSE t[s]]

\* admit_syn
AdmitSyn(t, p) ==
  LET r == Reclaimed(t)
      free == Slots \ (Permanent \cup Dynamic(r))
      fresh == {s \in free : Cardinality({x \in free : x < s}) < Burst} IN
  IF Serves(t, p) THEN t
  ELSE IF ~HasRoom(r) THEN r
  ELSE [s \in Slots |-> IF s \in fresh THEN Listener(p) ELSE r[s]]

RECURSIVE Scan(_, _)
Scan(t, fs) ==
  IF fs = <<>> THEN t
  ELSE Scan(IF Head(fs).kind = "syn" THEN AdmitSyn(t, guests[Head(fs).conn].port) ELSE t, Tail(fs))

\* smoltcp's sockets: a SYN takes the first listener of its port, or is reset.
Take(w, f) ==
  LET g == f.conn
      p == w.guest[g].port
      own == {s \in Slots : w.slot[s].conn = g}
      idle == {s \in Slots : w.slot[s].state = "listen" /\ w.slot[s].port = p}
      Set(s, x) == [w EXCEPT !.slot[s] = x] IN
  CASE f.kind = "syn" /\ idle # {} ->
         [Set(Min(idle), [w.slot[Min(idle)] EXCEPT !.state = "established", !.conn = g])
            EXCEPT !.guest[g].state = "open"]
    [] (f.kind = "syn" /\ idle = {}) \/ own = {} -> [w EXCEPT !.guest[g].state = "gone"]
    [] OTHER ->
         LET s == CHOOSE s \in own : TRUE
             x == w.slot[s] IN
         CASE f.kind = "data" /\ x.state \in {"established", "fin_wait"} -> Set(s, [x EXCEPT !.rx = @ + 1])
           [] f.kind = "fin" /\ x.state = "established" -> Set(s, [x EXCEPT !.state = "close_wait"])
           [] f.kind = "fin" /\ x.state = "fin_wait" ->
                [Set(s, [x EXCEPT !.state = "closed"]) EXCEPT !.guest[g].state = "gone"]
           [] f.kind = "rst" -> Set(s, [x EXCEPT !.state = "closed"])
           [] OTHER -> w

\* A socket that has sent its FIN last is done once the guest answers it.
Acked(w) == [w EXCEPT !.slot = [s \in Slots |->
               IF w.slot[s].state = "last_ack" /\ w.slot[s].tx = 0
               THEN [w.slot[s] EXCEPT !.state = "closed"] ELSE w.slot[s]]]

\* The mappings of a tick are visited in order; one with nothing to do is passed.
Idle(x) == x.state = "absent" \/ (IsOpen(x) /\ ~CanSend(x) /\ ~CanRecv(x))

After(t, s) ==
  LET rest == {r \in Slots : r > s /\ ~Idle(t[r])} IN IF rest = {} THEN 0 ELSE Min(rest)

Poll ==
  LET w == Acked(FoldLeft(Take, [slot |-> Scan(slot, frames), guest |-> guests], frames)) IN
  /\ turn = 0
  /\ slot' = w.slot /\ guests' = w.guest
  /\ frames' = <<>> /\ turn' = After(w.slot, 0)
  /\ UNCHANGED dials

-----------------------------------------------------------------------------
(* One mapping of a tick *)

\* Mutant: a permanent listener is armed again with the stream it had.
RearmedWithStream(x, s) ==
  IF s \in Permanent THEN [Listener(x.port) EXCEPT !.host = x.host]
  ELSE [NoPort EXCEPT !.port = x.port, !.state = "closed"]

\* rearm_or_release_closed
Rearmed(x, s) ==
  IF s \in Permanent THEN Listener(x.port) ELSE [NoPort EXCEPT !.port = x.port, !.state = "closed"]

\* socket.close()
ClosedBy(x) == [x EXCEPT !.host = NoSlot,
                         !.state = CASE @ = "established" -> "fin_wait"
                                     [] @ = "close_wait" -> "last_ack"
                                     [] OTHER -> @]

\* host_read_budget
ReadBudget(x) == TxRoom - x.tx

\* What the host has sent and the NAT has not read, as far as it fits.
Readable(d, x) == Min({ReadBudget(x), d.sent - d.read})

\* drain_to_host: n of the bytes are accepted, and the rest stay.
Relayed(x, d, n) ==
  LET r == IF CanSend(x) THEN Readable(d, x) ELSE 0
      queued == Min({TxRoom, x.tx + r}) IN
  [slot |-> [x EXCEPT !.tx = queued, !.rx = @ - n, !.next = @ + n],
   dial |-> [d EXCEPT !.read = @ + r, !.kept = @ + (queued - x.tx),
                      !.got = @ \o [i \in 1..n |-> x.next + i - 1],
                      !.conns = IF n > 0 THEN @ \cup {x.conn} ELSE @]]

\* The stream is at its end, or broken, when it is read.
HostEof(d, x) == ~d.open /\ CanSend(x) /\ d.read = d.sent

Relay(s) ==
  LET x == slot[s] IN
  /\ turn = s
  /\ turn' = After(slot, s)
  /\ \/ /\ Idle(x)
        /\ UNCHANGED <<slot, dials>>
     \/ /\ x.state = "closed"
        /\ slot' = [slot EXCEPT ![s] = Rearmed(x, s)]
        /\ UNCHANGED dials
     \/ /\ CanSend(x) \/ CanRecv(x)
        /\ x.host = NoSlot
        /\ slot' = [slot EXCEPT ![s] = ClosedBy(x)] \* the dial is refused, or fails
        /\ UNCHANGED dials
     \/ /\ CanSend(x) \/ CanRecv(x)
        /\ x.host = NoSlot => Len(dials) < MaxDials
        /\ LET h == IF x.host = NoSlot THEN Len(dials) + 1 ELSE x.host
               d == IF x.host = NoSlot
                    THEN [open |-> TRUE, sent |-> 0, read |-> 0, kept |-> 0, got |-> <<>>, conns |-> {}, dialer |-> x.conn]
                    ELSE dials[h] IN
           \E n \in 0..x.rx :
             LET y == Relayed(x, d, IF d.open THEN n ELSE 0) IN
             /\ slot' = [slot EXCEPT ![s] = IF HostEof(d, x) \/ (~d.open /\ x.rx > 0)
                                            THEN ClosedBy(y.slot) ELSE [y.slot EXCEPT !.host = h]]
             /\ dials' = IF x.host = NoSlot THEN Append(dials, y.dial) ELSE [dials EXCEPT ![h] = y.dial]
  /\ UNCHANGED <<guests, frames>>

-----------------------------------------------------------------------------
NatLoop == Poll \/ \E s \in Slots : Relay(s)

NatNext ==
  \/ \E g \in Conns, p \in Ports : GuestConnect(g, p)
  \/ \E g \in Conns : GuestSend(g) \/ GuestClose(g) \/ GuestReset(g)
  \/ \E s \in Slots : GuestRead(s)
  \/ \E h \in DOMAIN dials : HostSend(h) \/ HostClose(h)
  \/ NatLoop

NatSpec == NatInit /\ [][NatNext]_natVars

-----------------------------------------------------------------------------
\* A SYN spray leaves no more dynamic mappings than the cap (admit_syn).
DynamicIsBounded == Cardinality(Dynamic(slot)) <= MaxDynamic

\* A host connection carries the bytes of one guest connection, in order and
\* without a gap: no listener is armed again with the stream of the last guest
\* (rearm_or_release_closed), and a short write keeps the rest (drain_to_host).
HostStreamIsOneGuests ==
  \A h \in DOMAIN dials :
    /\ dials[h].conns \subseteq {dials[h].dialer}
    /\ \A i \in 1..(Len(dials[h].got) - 1) : dials[h].got[i + 1] = dials[h].got[i] + 1

\* Every byte read from the host is queued for the guest: a read is never
\* larger than the room there is for it (host_read_budget).
NothingReadIsDropped == \A h \in DOMAIN dials : dials[h].kept = dials[h].read

\* The mappings are bounded, and no byte is lost or carried to another's stream.
NatSafe ==
  /\ NatTypeOK
  /\ DynamicIsBounded
  /\ HostStreamIsOneGuests
  /\ NothingReadIsDropped
=============================================================================
