--------------------------- MODULE RegistryProofs ---------------------------
(***************************************************************************)
(* Proofs about Registry, for any number of requests, VMs and names, with  *)
(* and without cancellation: who drives a VM, what live_ids() misses, who  *)
(* pins, what a delete spares, what a one-shot create leaves, and that the *)
(* registry implements VmOwnership.                                        *)
(***************************************************************************)
EXTENDS Registry, FiniteSetTheorems, TLAPS

\* The control points at which a request works on a VM that was in the table
\* when the request came to know it.
OnSlot == {"lookup", "check", "wait", "dlookup", "dmark", "dwait"} \cup Holding

\* Parameters of a request at its control points.
ReqInv ==
  \A r \in Reqs :
    /\ pc[r] \in OnSlot \cup {"insert"} => Vm(r) \in Vms
    /\ pc[r] \in Launching => Name(r) \in Names
    /\ pc[r] \in Pinning => Name(r) \in Names
    /\ pc[r] \in {"scan", "remove"} => Name(r) \in Names
    /\ pc[r] \in {"lookup", "check", "wait"} /\ Op(r) = "snapshot" => Name(r) \in Names

\* slot.inner is held by the request that is at a control point of its holder.
LockInv ==
  /\ \A r \in Reqs : pc[r] \in Holding => lock[Vm(r)] = r
  /\ \A v \in Vms : lock[v] # None => pc[lock[v]] \in Holding /\ Vm(lock[v]) = v

\* The pin is the lock holder's.
PinInv ==
  \A v \in Vms : pin[v] # None =>
    lock[v] # None /\ pc[lock[v]] \in Pinning /\ Name(lock[v]) = pin[v]

\* A VM in the table is up.
TableLive == \A v \in table : handle[v] = "live"

\* A VM that is up is in the table or in the hands of the create that has yet
\* to insert it ...
LiveOwned ==
  \A v \in Vms : handle[v] = "live" =>
    v \in table \/ \E r \in Reqs : pc[r] = "insert" /\ Vm(r) = v

\* ... and that create is the only request that knows of it.
Fresh ==
  \A r \in Reqs : pc[r] = "insert" =>
    /\ handle[Vm(r)] = "live"
    /\ Vm(r) \notin table
    /\ \A s \in Reqs : s # r /\ Vm(s) = Vm(r) => pc[s] \notin OnSlot \cup {"insert"}
    /\ \A s \in Reqs : Vm(r) \notin todo[s]

\* A request comes to know of a VM only once it was launched.
Born ==
  /\ \A r \in Reqs : pc[r] \in OnSlot => handle[Vm(r)] # "unborn"
  /\ \A r \in Reqs : \A v \in todo[r] : handle[v] # "unborn"

\* An operation drives a handle that is there; a teardown stops one it took.
Driven ==
  /\ \A r \in Reqs : pc[r] \in {"drive", "write"} => handle[Vm(r)] = "live"
  /\ \A r \in Reqs : pc[r] = "dshutdown" => handle[Vm(r)] = "stopping"

\* A VM that is up was launched from a name of the store.
LiveNamed == \A v \in Vms : handle[v] = "live" => used[v] \in Names

HandleInv == TableLive /\ LiveOwned /\ Fresh /\ Born /\ Driven /\ LiveNamed

\* The delete that has passed its scan holds the table's mutex, and no slot in
\* the table pins its name as an artifact.
DeleteInv ==
  \A r \in Reqs : pc[r] = "remove" =>
    /\ vmsLock = r
    /\ \A v \in table : used[v] # Name(r)

\* launches_in_flight counts the LaunchGuards.
Guards == {r \in Reqs : pc[r] \in Launching}
CountInv == inflight = Cardinality(Guards)

RegistryInv ==
  TypeOK /\ ReqInv /\ LockInv /\ PinInv /\ HandleInv /\ DeleteInv /\ CountInv

-----------------------------------------------------------------------------
(* Lemmas *)

\* There are finitely many LaunchGuards.
LEMMA GuardsFinite ==
  IsFiniteSet(Guards) /\ Cardinality(Guards) \in Nat
  BY RegistryConstants, FS_Subset, FS_CardinalityType DEF Guards

\* A step that moves nobody in or out of the launch window keeps the count.
LEMMA CountSame ==
  ASSUME CountInv, inflight' = inflight,
         \A s \in Reqs : pc'[s] \in Launching <=> pc[s] \in Launching
  PROVE  CountInv'
<1>1. Guards' = Guards
  BY DEF Guards
<1> QED
  BY <1>1 DEF CountInv

\* A request that leaves the launch window takes one off the count.
LEMMA CountDown ==
  ASSUME TypeOK, CountInv, NEW r \in Reqs, pc[r] \in Launching,
         NEW p \in Pcs \ Launching, pc' = [pc EXCEPT ![r] = p],
         inflight' = inflight - 1
  PROVE  CountInv' /\ inflight' \in Nat
<1>1. Guards' = Guards \ {r} /\ r \in Guards
  BY DEF Guards, TypeOK
<1>2. Cardinality(Guards \ {r}) = Cardinality(Guards) - 1 /\ Cardinality(Guards \ {r}) \in Nat
  BY <1>1, GuardsFinite, FS_RemoveElement, FS_CardinalityType
<1> QED
  BY <1>1, <1>2 DEF CountInv

\* A request that enters it adds one.
LEMMA CountUp ==
  ASSUME TypeOK, CountInv, NEW r \in Reqs, pc[r] \notin Launching,
         NEW p \in Launching, pc' = [pc EXCEPT ![r] = p],
         inflight' = inflight + 1
  PROVE  CountInv'
<1>1. Guards' = Guards \cup {r} /\ r \notin Guards
  BY DEF Guards, TypeOK
<1>2. Cardinality(Guards \cup {r}) = Cardinality(Guards) + 1
  BY <1>1, GuardsFinite, FS_AddElement
<1> QED
  BY <1>1, <1>2 DEF CountInv

ReqType == [op: OpKinds \cup {None}, vm: Vms \cup {None},
            name: Names \cup {None}, res: {"none", "ok", "err"}]

\* The parameters of every request stay as they are.
SameParams ==
  \A s \in Reqs : req'[s].op = req[s].op /\ req'[s].vm = req[s].vm /\ req'[s].name = req[s].name

\* Request r moves to p and keeps its parameters.
Moves(r, p) ==
  /\ pc' = [pc EXCEPT ![r] = p]
  /\ req' \in [Reqs -> ReqType]
  /\ SameParams

\* Return moves the request, to one of three places.
LEMMA ReturnFacts ==
  ASSUME TypeOK, NEW r \in Reqs, NEW res \in {"ok", "err"}, Return(r, res)
  PROVE  \E p \in {"dlookup", "next", "done"} :
           /\ Moves(r, p)
           /\ p = "dlookup" => pc[r] \in {"lookup", "check", "wait", "drive"}
<1>1. req' \in [Reqs -> ReqType] /\ SameParams
  BY DEF TypeOK, Return, ReqType, SameParams
<1>2. /\ AfterOp(r, res) \in {"dlookup", "next", "done"}
      /\ AfterOp(r, res) = "dlookup" => pc[r] \in {"lookup", "check", "wait", "drive"}
  BY DEF AfterOp
<1>3. Moves(r, AfterOp(r, res))
  BY <1>1 DEF Return, Goto, Moves
<1> QED
  BY <1>2, <1>3

\* So does a jump.
LEMMA GotoFacts ==
  ASSUME TypeOK, NEW r \in Reqs, NEW p, Goto(r, p), UNCHANGED req
  PROVE  Moves(r, p)
  BY DEF TypeOK, Goto, ReqType, SameParams, Moves

\* And a jump that records an outcome.
LEMMA ResFacts ==
  ASSUME TypeOK, NEW r \in Reqs, NEW p, Goto(r, p), NEW res \in {"ok", "err"},
         req' = [req EXCEPT ![r].res = res]
  PROVE  Moves(r, p)
  BY DEF TypeOK, Goto, ReqType, SameParams, Moves

\* An assignment to the VM of a request leaves the rest alone.
LEMMA VmFacts ==
  ASSUME TypeOK, NEW r \in Reqs, NEW v \in Vms,
         req' = [req EXCEPT ![r].vm = v]
  PROVE  /\ req' \in [Reqs -> ReqType]
         /\ req'[r].vm = v
         /\ \A s \in Reqs : s # r => req'[s] = req[s]
         /\ req'[r].name = req[r].name /\ req'[r].op = req[r].op
<1>1. req[r] \in ReqType
  BY DEF TypeOK, ReqType
<1>2. [req[r] EXCEPT !.vm = v] \in ReqType
  BY <1>1 DEF ReqType
<1> QED
  BY <1>1, <1>2 DEF TypeOK, ReqType

\* Nobody else moves.
LEMMA MovedPc ==
  ASSUME TypeOK, NEW r \in Reqs, NEW p \in Pcs, Moves(r, p)
  PROVE  pc' \in [Reqs -> Pcs] /\ pc'[r] = p /\ \A s \in Reqs : s # r => pc'[s] = pc[s]
  BY DEF TypeOK, Moves

\* The control points of the three groups.
LEMMA Groups ==
  /\ Holding \subseteq OnSlot /\ Pinning \subseteq Holding
  /\ OnSlot \cup Launching \subseteq Pcs
  /\ OnSlot \cap Launching = {}
  BY DEF OnSlot, Holding, Pinning, Launching, Pcs

\* ReqInv is about the request that moves only.
LEMMA ReqFrame ==
  ASSUME TypeOK, ReqInv, NEW r \in Reqs, NEW p \in Pcs, Moves(r, p),
         p \in OnSlot \cup {"insert"} => Vm(r) \in Vms,
         p \in Launching \cup Pinning \cup {"scan", "remove"} => Name(r) \in Names,
         p \in {"lookup", "check", "wait"} /\ Op(r) = "snapshot" => Name(r) \in Names
  PROVE  ReqInv'
  BY MovedPc DEF Moves, SameParams, ReqInv, Vm, Name, Op

\* A request that moves without taking or releasing a lock or a pin.
LEMMA LockFrame ==
  ASSUME TypeOK, LockInv, PinInv, NEW r \in Reqs, NEW p \in Pcs, Moves(r, p),
         UNCHANGED <<lock, pin>>,
         p \in Holding <=> pc[r] \in Holding,
         pc[r] \in Pinning => p \in Pinning
  PROVE  LockInv' /\ PinInv'
<1>1. \A s \in Reqs : Vm(s)' = Vm(s) /\ Name(s)' = Name(s)
  BY DEF Moves, SameParams, Vm, Name
<1>2. \A v \in Vms : lock[v] # None => lock[v] \in Reqs
  BY DEF TypeOK
<1>3. LockInv'
  BY <1>1, <1>2, MovedPc DEF LockInv
<1>4. PinInv'
  BY <1>1, <1>2, MovedPc DEF PinInv
<1> QED
  BY <1>3, <1>4

\* Request r lets slot.inner go, and its pin if it has one.
Releases(r) ==
  /\ lock' = [lock EXCEPT ![Vm(r)] = None]
  /\ \/ pin' = [pin EXCEPT ![Vm(r)] = None]
     \/ pin' = pin /\ pc[r] \notin Pinning

\* A release keeps the bookkeeping of locks and pins.
LEMMA LockRelease ==
  ASSUME TypeOK, ReqInv, LockInv, PinInv, NEW r \in Reqs, NEW p \in Pcs, Moves(r, p),
         Vm(r) \in Vms, pc[r] \in Holding, p \notin Holding, Releases(r)
  PROVE  LockInv' /\ PinInv'
<1>0. /\ pc'[r] = p /\ \A s \in Reqs : s # r => pc'[s] = pc[s]
      /\ \A s \in Reqs : pc[s] \in Holding => Vm(s) \in Vms
  BY MovedPc, Groups DEF ReqInv
<1>1. \A s \in Reqs : Vm(s)' = Vm(s) /\ Name(s)' = Name(s)
  BY DEF Moves, SameParams, Vm, Name
<1>2. \A v \in Vms : lock[v] # None => lock[v] \in Reqs
  BY DEF TypeOK
<1>3. /\ lock[Vm(r)] = r /\ lock'[Vm(r)] = None
      /\ \A v \in Vms : v # Vm(r) => lock'[v] = lock[v] /\ lock[v] # r
  BY RegistryConstants DEF TypeOK, LockInv, Releases
<1>4. pin'[Vm(r)] = None /\ \A v \in Vms : v # Vm(r) => pin'[v] = pin[v]
  <2>1. CASE pin' = [pin EXCEPT ![Vm(r)] = None]
    BY <2>1 DEF TypeOK
  <2>2. CASE pin' = pin /\ pc[r] \notin Pinning
    BY <1>3, <2>2 DEF PinInv
  <2> QED
    BY <2>1, <2>2 DEF Releases
<1>5. LockInv'
  BY <1>1, <1>2, <1>3, <1>0 DEF LockInv
<1>6. PinInv'
  BY <1>1, <1>2, <1>3, <1>4, <1>0 DEF PinInv
<1> QED
  BY <1>5, <1>6

\* Request r takes a free slot.inner, and sets its pin if it goes on to p to write.
Takes(r, p) ==
  /\ lock[Vm(r)] = None
  /\ lock' = [lock EXCEPT ![Vm(r)] = r]
  /\ \/ pin' = pin
     \/ pin' = [pin EXCEPT ![Vm(r)] = Name(r)] /\ p \in Pinning

\* So does the grant of a lock.
LEMMA LockTake ==
  ASSUME TypeOK, ReqInv, LockInv, PinInv, NEW r \in Reqs, NEW p \in Pcs, Moves(r, p),
         Vm(r) \in Vms, pc[r] \notin Holding, p \in Holding, Takes(r, p)
  PROVE  LockInv' /\ PinInv'
<1>0. /\ pc'[r] = p /\ \A s \in Reqs : s # r => pc'[s] = pc[s]
      /\ \A s \in Reqs : pc[s] \in Holding => Vm(s) \in Vms
  BY MovedPc, Groups DEF ReqInv
<1>1. \A s \in Reqs : Vm(s)' = Vm(s) /\ Name(s)' = Name(s)
  BY DEF Moves, SameParams, Vm, Name
<1>2. \A v \in Vms : lock[v] # None => lock[v] \in Reqs
  BY DEF TypeOK
<1>3. /\ lock'[Vm(r)] = r /\ lock[Vm(r)] = None
      /\ \A v \in Vms : v # Vm(r) => lock'[v] = lock[v]
      /\ \A v \in Vms : lock[v] # r
  BY RegistryConstants DEF TypeOK, LockInv, Takes
<1>4. /\ pin'[Vm(r)] = None \/ (pin'[Vm(r)] = Name(r) /\ p \in Pinning)
      /\ \A v \in Vms : v # Vm(r) => pin'[v] = pin[v]
  <2>1. CASE pin' = pin
    BY <2>1 DEF PinInv, Takes
  <2>2. CASE pin' = [pin EXCEPT ![Vm(r)] = Name(r)] /\ p \in Pinning
    BY <2>2 DEF TypeOK
  <2> QED
    BY <2>1, <2>2 DEF Takes
<1>5. LockInv'
  <2>1. \A s \in Reqs : pc'[s] \in Holding => lock'[Vm(s)'] = s
    BY <1>0, <1>1, <1>3, RegistryConstants DEF LockInv
  <2>2. \A v \in Vms : (lock[v] # None => pc[lock[v]] \in Holding /\ Vm(lock[v]) = v)'
    BY <1>0, <1>1, <1>2, <1>3 DEF LockInv
  <2> QED
    BY <2>1, <2>2 DEF LockInv
<1>6. PinInv'
  BY <1>1, <1>2, <1>3, <1>4, RegistryConstants, <1>0 DEF PinInv
<1> QED
  BY <1>5, <1>6

\* A step that gives no request knowledge of a VM that a create has yet to
\* insert keeps Fresh.
LEMMA FreshFrame ==
  ASSUME HandleInv,
         \A s \in Reqs : pc'[s] = "insert" =>
           pc[s] = "insert" /\ Vm(s)' = Vm(s) /\ handle'[Vm(s)] = "live" /\ Vm(s) \notin table',
         \A t \in Reqs : pc'[t] \in OnSlot \cup {"insert"} =>
           \/ pc[t] \in OnSlot \cup {"insert"} /\ Vm(t)' = Vm(t)
           \/ \A s \in Reqs : pc[s] = "insert" => Vm(t)' # Vm(s),
         \A s, t \in Reqs : pc[s] = "insert" /\ Vm(s) \in todo'[t] =>
           Vm(s) \in todo[t] \/ Vm(s) \in table
  PROVE  Fresh'
<1> SUFFICES ASSUME NEW s \in Reqs, pc'[s] = "insert"
             PROVE  /\ handle'[Vm(s)'] = "live" /\ Vm(s)' \notin table'
                    /\ \A t \in Reqs : t # s /\ Vm(t)' = Vm(s)' =>
                         pc'[t] \notin OnSlot \cup {"insert"}
                    /\ \A t \in Reqs : Vm(s)' \notin todo'[t]
  BY DEF Fresh
<1>1. pc[s] = "insert" /\ Vm(s)' = Vm(s) /\ handle'[Vm(s)] = "live" /\ Vm(s) \notin table'
  OBVIOUS
<1>2. /\ Vm(s) \notin table
      /\ \A t \in Reqs : t # s /\ Vm(t) = Vm(s) => pc[t] \notin OnSlot \cup {"insert"}
      /\ \A t \in Reqs : Vm(s) \notin todo[t]
  BY <1>1 DEF HandleInv, Fresh
<1>3. ASSUME NEW t \in Reqs, t # s, Vm(t)' = Vm(s)' PROVE pc'[t] \notin OnSlot \cup {"insert"}
  BY <1>1, <1>2, <1>3
<1>4. ASSUME NEW t \in Reqs PROVE Vm(s)' \notin todo'[t]
  BY <1>1, <1>2
<1> QED
  BY <1>1, <1>2, <1>3, <1>4

\* A step that leaves the handles and the table alone, and brings its request to
\* no slot it was not on, keeps HandleInv.
LEMMA HandleFrame ==
  ASSUME TypeOK, HandleInv, NEW r \in Reqs, NEW p \in Pcs, Moves(r, p),
         UNCHANGED <<handle, table, used, todo>>,
         p \in OnSlot => pc[r] \in OnSlot,
         p # "insert", pc[r] # "insert", p # "dshutdown",
         p \in {"drive", "write"} => handle[Vm(r)] = "live"
  PROVE  HandleInv'
<1>1. \A s \in Reqs : Vm(s)' = Vm(s)
  BY DEF Moves, SameParams, Vm
<1>2. \A s \in Reqs : /\ pc'[s] \in OnSlot => pc[s] \in OnSlot
                      /\ pc'[s] = "insert" <=> pc[s] = "insert"
                      /\ pc'[s] \in {"drive", "write"} => handle[Vm(s)] = "live"
                      /\ pc'[s] = "dshutdown" => pc[s] = "dshutdown"
  BY MovedPc DEF HandleInv, Driven
<1>3. TableLive' /\ LiveOwned' /\ LiveNamed'
  BY <1>1, <1>2 DEF HandleInv, TableLive, LiveOwned, LiveNamed
<1>4. Fresh'
  BY <1>1, <1>2 DEF HandleInv, Fresh
<1>5. Born' /\ Driven'
  BY <1>1, <1>2 DEF HandleInv, Born, Driven
<1> QED
  BY <1>3, <1>4, <1>5 DEF HandleInv

\* A step that lists no VM and passes no scan keeps DeleteInv.
LEMMA DeleteFrame ==
  ASSUME TypeOK, DeleteInv, NEW r \in Reqs, NEW p \in Pcs, Moves(r, p),
         UNCHANGED <<used, vmsLock>>, table' \subseteq table, p # "remove"
  PROVE  DeleteInv'
  BY MovedPc DEF Moves, SameParams, DeleteInv, Name

\* A step outside the launch window keeps CountInv.
LEMMA CountFrame ==
  ASSUME TypeOK, CountInv, NEW r \in Reqs, NEW p \in Pcs, Moves(r, p),
         inflight' = inflight, pc[r] \notin Launching, p \notin Launching
  PROVE  CountInv'
  BY MovedPc, CountSame

\* A step that moves its request, and may set a VM's state and change the store,
\* keeps RegistryInv.
LEMMA MoveKeepsInv ==
  ASSUME RegistryInv, NEW r \in Reqs, NEW p \in Pcs, Moves(r, p),
         UNCHANGED <<todo, table, pin, lock, handle, used, vmsLock, inflight>>,
         state' \in [Vms -> VmState], store' \in [Names -> Entry],
         p \notin Launching, pc[r] \notin Launching, p \notin {"scan", "remove", "dshutdown"},
         p \in Holding <=> pc[r] \in Holding,
         p \in Pinning <=> pc[r] \in Pinning,
         p \in OnSlot => pc[r] \in OnSlot,
         p \in {"lookup", "check", "wait"} => pc[r] \in {"lookup", "check", "wait"},
         p \in {"drive", "write"} => handle[Vm(r)] = "live"
  PROVE  RegistryInv'
<1> USE DEF RegistryInv
<1>1. TypeOK'
  BY MovedPc DEF Moves, TypeOK, ReqType
<1>2. ReqInv'
  BY ReqFrame DEF ReqInv, Launching
<1>3. LockInv' /\ PinInv'
  BY LockFrame
<1>4. HandleInv'
  BY HandleFrame DEF Launching
<1>5. DeleteInv'
  BY DeleteFrame
<1>6. CountInv'
  BY CountFrame
<1> QED
  BY <1>1, <1>2, <1>3, <1>4, <1>5, <1>6

\* A step in which the holder of slot.inner lets it go keeps RegistryInv.
LEMMA ReleaseKeepsInv ==
  ASSUME RegistryInv, NEW r \in Reqs, NEW p \in {"dlookup", "next", "done", "cancelled"},
         Moves(r, p), pc[r] \in Holding, Releases(r),
         UNCHANGED <<todo, table, handle, used, vmsLock, inflight>>,
         state' \in [Vms -> VmState], store' \in [Names -> Entry]
  PROVE  RegistryInv'
<1> USE DEF RegistryInv
<1>1. /\ p \in Pcs /\ p \notin Holding /\ p \notin Launching /\ p \notin Pinning
      /\ p \notin {"scan", "remove", "insert", "drive", "write", "dshutdown"}
      /\ p \notin {"lookup", "check", "wait"}
  BY DEF Pcs, Holding, Launching, Pinning
<1>2. pc[r] \in OnSlot /\ pc[r] \notin Launching /\ Vm(r) \in Vms
  BY Groups DEF ReqInv
<1>3. TypeOK'
  <2>1. lock' \in [Vms -> Reqs \cup {None}] /\ pin' \in [Vms -> Names \cup {None}]
    BY <1>2 DEF TypeOK, Releases
  <2> QED
    BY <1>1, <2>1, MovedPc DEF Moves, TypeOK, ReqType
<1>4. ReqInv'
  BY <1>1, <1>2, ReqFrame
<1>5. LockInv' /\ PinInv'
  BY <1>1, <1>2, LockRelease
<1>6. HandleInv'
  BY <1>1, <1>2, HandleFrame DEF Launching
<1>7. DeleteInv'
  BY <1>1, DeleteFrame
<1>8. CountInv'
  BY <1>1, <1>2, CountFrame
<1> QED
  BY <1>3, <1>4, <1>5, <1>6, <1>7, <1>8

\* Request r leaves the launch window before it has a VM.
LeavesLaunch(r) ==
  /\ pc[r] = "launch"
  /\ inflight' = inflight - 1
  /\ UNCHANGED <<todo, slotVars, vmsLock, store>>

\* Such a step keeps RegistryInv.
LEMMA LeaveLaunchKeepsInv ==
  ASSUME RegistryInv, NEW r \in Reqs, NEW p \in {"next", "done", "cancelled"}, Moves(r, p),
         LeavesLaunch(r)
  PROVE  RegistryInv'
<1> USE DEF RegistryInv, slotVars
<1>1. /\ p \in Pcs /\ p \notin OnSlot /\ p \notin Holding /\ p \notin Launching /\ p \notin Pinning
      /\ p \notin {"scan", "remove", "insert", "drive", "write", "dshutdown"}
      /\ p \notin {"lookup", "check", "wait"}
  BY DEF Pcs, OnSlot, Holding, Launching, Pinning
<1>2. pc[r] \in Launching /\ pc[r] \notin Holding /\ pc[r] \notin Pinning /\ pc[r] # "insert"
  BY DEF LeavesLaunch, Launching, Holding, Pinning
<1>3. CountInv' /\ inflight' \in Nat
  BY <1>1, <1>2, CountDown DEF LeavesLaunch, Moves
<1>4. TypeOK'
  BY <1>1, <1>3, MovedPc DEF LeavesLaunch, Moves, TypeOK, ReqType
<1>5. ReqInv'
  BY <1>1, ReqFrame
<1>6. LockInv' /\ PinInv'
  BY <1>1, <1>2, LockFrame DEF LeavesLaunch
<1>7. HandleInv'
  BY <1>1, <1>2, HandleFrame DEF LeavesLaunch
<1>8. DeleteInv'
  BY <1>1, DeleteFrame DEF LeavesLaunch
<1> QED
  BY <1>3, <1>4, <1>5, <1>6, <1>7, <1>8

\* The registry starts in RegistryInv.
LEMMA InitRegistryInv == Init => RegistryInv
<1> SUFFICES ASSUME Init PROVE RegistryInv
  OBVIOUS
<1>1. Guards = {}
  BY DEF Init, Guards, Launching
<1>2. CountInv
  BY <1>1, FS_EmptySet DEF CountInv, Init
<1>3. TypeOK
  BY RegistryConstants DEF Init, TypeOK, Pcs, VmState, HandleState, Entry
<1>4. ReqInv /\ LockInv /\ PinInv /\ HandleInv /\ DeleteInv
  BY DEF Init, ReqInv, LockInv, PinInv, HandleInv, TableLive, LiveOwned, Fresh, Born, Driven,
         LiveNamed, DeleteInv, OnSlot, Holding, Pinning, Launching
<1> QED
  BY <1>2, <1>3, <1>4 DEF RegistryInv

\* Arrive keeps RegistryInv.
LEMMA ArriveKeepsInv ==
  ASSUME RegistryInv, NEW r \in Reqs, NEW o \in Ops, NEW v \in Vms \cup {None},
         NEW n \in Names \cup {None}, Arrive(r, o, v, n)
  PROVE  RegistryInv'
<1> USE RegistryConstants DEF RegistryInv, slotVars, Pcs, OnSlot, Holding, Pinning, Launching,
        Vm, Name, Op
<1>1. TypeOK'
  BY DEF Arrive, Goto, EntryPoint, Creates, TypeOK, ReqType, VmState, HandleState, Entry
<1>2. ReqInv'
  BY DEF Arrive, Goto, EntryPoint, Creates, TypeOK, ReqInv
<1>3. LockInv'
  BY DEF Arrive, Goto, EntryPoint, Creates, TypeOK, LockInv, ReqInv
<1>4. PinInv'
  BY DEF Arrive, Goto, EntryPoint, Creates, TypeOK, PinInv, LockInv, ReqInv
<1>5. HandleInv'
  <2>1. TableLive' /\ LiveNamed'
    BY DEF Arrive, Goto, EntryPoint, Creates, TypeOK, HandleInv, TableLive, LiveNamed, ReqInv
  <2>2. LiveOwned'
    BY DEF Arrive, Goto, EntryPoint, Creates, TypeOK, HandleInv, LiveOwned, ReqInv
  <2>3. Fresh'
    BY DEF Arrive, Goto, EntryPoint, Creates, TypeOK, HandleInv, Fresh, Born, TableLive, ReqInv
  <2>4. Born'
    BY DEF Arrive, Goto, EntryPoint, Creates, TypeOK, HandleInv, Born, TableLive, ReqInv
  <2>5. Driven'
    BY DEF Arrive, Goto, EntryPoint, Creates, TypeOK, HandleInv, Driven, ReqInv
  <2> QED
    BY <2>1, <2>2, <2>3, <2>4, <2>5 DEF HandleInv
<1>6. DeleteInv'
  BY DEF Arrive, Goto, EntryPoint, Creates, TypeOK, DeleteInv
<1>7. CountInv'
  BY CountUp, CountDown, CountSame DEF TypeOK, Arrive, Goto, EntryPoint, Creates
<1> QED
  BY <1>1, <1>2, <1>3, <1>4, <1>5, <1>6, <1>7

\* LaunchOk keeps RegistryInv.
LEMMA LaunchOkKeepsInv ==
  ASSUME RegistryInv, NEW r \in Reqs, NEW v \in Vms, LaunchOk(r, v)
  PROVE  RegistryInv'
<1> USE RegistryConstants DEF RegistryInv, slotVars, Pcs, OnSlot, Holding, Pinning, Launching,
        Vm, Name, Op
<1>1. TypeOK'
  BY VmFacts DEF LaunchOk, Goto, TypeOK, ReqType, VmState, HandleState, Entry
<1>2. ReqInv'
  BY VmFacts DEF LaunchOk, Goto, TypeOK, ReqInv
<1>3. LockInv'
  BY VmFacts DEF LaunchOk, Goto, TypeOK, LockInv, ReqInv
<1>4. PinInv'
  BY VmFacts DEF LaunchOk, Goto, TypeOK, PinInv, LockInv, ReqInv
<1>5. HandleInv'
  <2>1. TableLive' /\ LiveNamed'
    BY VmFacts DEF LaunchOk, Goto, TypeOK, HandleInv, TableLive, LiveNamed, ReqInv
  <2>2. LiveOwned'
    BY VmFacts DEF LaunchOk, Goto, TypeOK, HandleInv, LiveOwned, ReqInv
  <2>3. Fresh'
    BY VmFacts DEF LaunchOk, Goto, TypeOK, HandleInv, Fresh, Born, TableLive, ReqInv
  <2>4. Born'
    BY VmFacts DEF LaunchOk, Goto, TypeOK, HandleInv, Born, TableLive, ReqInv
  <2>5. Driven'
    BY VmFacts DEF LaunchOk, Goto, TypeOK, HandleInv, Driven, ReqInv
  <2> QED
    BY <2>1, <2>2, <2>3, <2>4, <2>5 DEF HandleInv
<1>6. DeleteInv'
  <2>1. v \notin table
    BY DEF HandleInv, TableLive, LaunchOk
  <2> QED
    BY <2>1, VmFacts DEF LaunchOk, Goto, TypeOK, DeleteInv
<1>7. CountInv'
  BY CountSame, VmFacts DEF TypeOK, LaunchOk, Goto
<1> QED
  BY <1>1, <1>2, <1>3, <1>4, <1>5, <1>6, <1>7

\* LaunchFail keeps RegistryInv.
LEMMA LaunchFailKeepsInv ==
  ASSUME RegistryInv, NEW r \in Reqs, LaunchFail(r)
  PROVE  RegistryInv'
<1> USE DEF RegistryInv
<1>1. PICK p \in {"next", "done"} : Moves(r, p)
  BY ReturnFacts DEF LaunchFail
<1>2. LeavesLaunch(r)
  BY DEF LaunchFail, slotVars, LeavesLaunch
<1> QED
  BY <1>1, <1>2, LeaveLaunchKeepsInv

\* Insert keeps RegistryInv.
LEMMA InsertKeepsInv ==
  ASSUME RegistryInv, NEW r \in Reqs, Insert(r)
  PROVE  RegistryInv'
<1> USE RegistryConstants DEF RegistryInv, slotVars, Pcs, OnSlot, Holding, Pinning, Launching,
        Vm, Name, Op
<1>0. PICK p \in {"done", "lookup"} : pc' = [pc EXCEPT ![r] = p]
  BY DEF Insert, Goto
<1>7. CountInv' /\ inflight' \in Nat
  BY <1>0, CountDown DEF Insert
<1>1. TypeOK'
  <2>1. table \cup {Vm(r)} \in SUBSET Vms
    BY DEF Insert, TypeOK, ReqInv
  <2> QED
    BY <1>0, <1>7, <2>1 DEF Insert, TypeOK
<1>2. ReqInv'
  BY DEF Insert, Goto, TypeOK, ReqInv
<1>3. LockInv'
  BY DEF Insert, Goto, TypeOK, LockInv, ReqInv
<1>4. PinInv'
  <2>1. \A u \in Vms : lock[u] # None => lock[u] \in Reqs /\ lock[u] # r
    BY DEF Insert, TypeOK, LockInv
  <2>2. \A s \in Reqs : s # r => pc'[s] = pc[s]
    BY <1>0 DEF TypeOK
  <2> QED
    BY <2>1, <2>2 DEF Insert, PinInv
<1>5. HandleInv'
  <2>0. handle[Vm(r)] = "live"
    BY DEF Insert, HandleInv, Fresh
  <2>1. TableLive' /\ LiveNamed'
    BY <2>0 DEF Insert, HandleInv, TableLive, LiveNamed
  <2>2. LiveOwned'
    BY DEF Insert, Goto, TypeOK, HandleInv, LiveOwned, ReqInv
  <2>3. Fresh'
    <3>1. \A s \in Reqs : pc'[s] = "insert" => s # r /\ pc'[s] = pc[s]
      BY <1>0 DEF TypeOK
    <3>2. \A s \in Reqs : pc[s] = "insert" /\ s # r =>
            handle[Vm(s)] = "live" /\ Vm(s) \notin table /\ Vm(s) # Vm(r)
      BY DEF Insert, HandleInv, Fresh
    <3>3. \A t \in Reqs : pc'[t] \in OnSlot \cup {"insert"} => pc[t] \in OnSlot \cup {"insert"}
      BY <1>0 DEF Insert, TypeOK
    <3> QED
      BY <3>1, <3>2, <3>3, FreshFrame DEF Insert
  <2>4. Born'
    BY <2>0 DEF Insert, Goto, TypeOK, HandleInv, Born
  <2>5. Driven'
    BY DEF Insert, Goto, TypeOK, HandleInv, Driven, ReqInv
  <2> QED
    BY <2>1, <2>2, <2>3, <2>4, <2>5 DEF HandleInv
<1>6. DeleteInv'
  BY DEF Insert, Goto, TypeOK, DeleteInv
<1> QED
  BY <1>1, <1>2, <1>3, <1>4, <1>5, <1>6, <1>7

\* Lookup keeps RegistryInv.
LEMMA LookupKeepsInv ==
  ASSUME RegistryInv, NEW r \in Reqs, Lookup(r)
  PROVE  RegistryInv'
<1>1. PICK p \in {"check", "dlookup", "next", "done"} : Moves(r, p)
  BY ReturnFacts, GotoFacts DEF Lookup, RegistryInv
<1> QED
  BY <1>1, MoveKeepsInv
  DEF Lookup, slotVars, RegistryInv, TypeOK, Pcs, OnSlot, Holding, Pinning, Launching

\* Check keeps RegistryInv.
LEMMA CheckKeepsInv ==
  ASSUME RegistryInv, NEW r \in Reqs, Check(r)
  PROVE  RegistryInv'
<1>1. PICK p \in {"wait", "dlookup", "next", "done"} : Moves(r, p)
  BY ReturnFacts, GotoFacts DEF Check, RegistryInv
<1> QED
  BY <1>1, MoveKeepsInv
  DEF Check, slotVars, RegistryInv, TypeOK, Pcs, OnSlot, Holding, Pinning, Launching

\* A step in which a request is granted slot.inner keeps RegistryInv.
LEMMA TakeKeepsInv ==
  ASSUME RegistryInv, NEW r \in Reqs, NEW p \in {"drive", "mkdir", "dremove"}, Moves(r, p),
         pc[r] \in {"wait", "dwait"}, Takes(r, p),
         p = "drive" => handle[Vm(r)] = "live",
         p = "mkdir" => Name(r) \in Names,
         UNCHANGED <<todo, table, state, handle, used, vmsLock, inflight, store>>
  PROVE  RegistryInv'
<1> USE DEF RegistryInv
<1>1. /\ p \in Pcs /\ p \in Holding /\ p \notin Launching /\ p \in OnSlot
      /\ p \notin {"scan", "remove", "insert", "write", "dshutdown"}
      /\ p \notin {"lookup", "check", "wait"}
      /\ p \in Pinning => p = "mkdir"
  BY DEF Pcs, OnSlot, Holding, Launching, Pinning
<1>2. /\ pc[r] \in OnSlot /\ pc[r] \notin Launching /\ pc[r] \notin Holding
      /\ pc[r] # "insert"
  BY DEF OnSlot, Launching, Holding
<1>3. Vm(r) \in Vms
  BY <1>2 DEF ReqInv
<1>4. TypeOK'
  <2>1. lock' \in [Vms -> Reqs \cup {None}] /\ pin' \in [Vms -> Names \cup {None}]
    BY <1>1, <1>3 DEF TypeOK, Takes
  <2> QED
    BY <1>1, <2>1, MovedPc DEF Moves, TypeOK, ReqType
<1>5. ReqInv'
  BY <1>1, <1>3, ReqFrame
<1>6. LockInv' /\ PinInv'
  BY <1>1, <1>2, <1>3, LockTake
<1>7. HandleInv'
  BY <1>1, <1>2, HandleFrame
<1>8. DeleteInv'
  BY <1>1, DeleteFrame
<1>9. CountInv'
  BY <1>1, <1>2, CountFrame
<1> QED
  BY <1>4, <1>5, <1>6, <1>7, <1>8, <1>9

\* Admit keeps RegistryInv.
LEMMA AdmitKeepsInv ==
  ASSUME RegistryInv, NEW r \in Reqs, Admit(r)
  PROVE  RegistryInv'
<1>1. pc[r] = "wait" /\ UNCHANGED <<todo, table, state, handle, used, vmsLock, inflight, store>>
  BY DEF Admit
<1>2. CASE Return(r, "err") /\ UNCHANGED <<lock, pin>>
  <2>1. PICK p \in {"dlookup", "next", "done"} : Moves(r, p)
    BY <1>2, ReturnFacts DEF RegistryInv
  <2> QED
    BY <1>1, <1>2, <2>1, MoveKeepsInv
    DEF RegistryInv, TypeOK, Pcs, OnSlot, Holding, Pinning, Launching
<1>3. ASSUME NEW p \in {"drive", "mkdir"}, Goto(r, p), UNCHANGED req, Takes(r, p),
             p = "drive" => handle[Vm(r)] = "live",
             p = "mkdir" => Op(r) = "snapshot"
      PROVE  RegistryInv'
  <2>1. Moves(r, p)
    BY <1>3, GotoFacts DEF RegistryInv
  <2>2. p = "mkdir" => Name(r) \in Names
    BY <1>1, <1>3 DEF RegistryInv, ReqInv
  <2> QED
    BY <1>1, <1>3, <2>1, <2>2, TakeKeepsInv
<1>4. CASE Op(r) = "snapshot"
  <2>1. (Return(r, "err") /\ UNCHANGED <<lock, pin>>)
        \/ (Goto(r, "mkdir") /\ UNCHANGED req /\ Takes(r, "mkdir"))
    BY <1>4 DEF Admit, Takes, SetLock, Pinning
  <2> QED
    BY <1>2, <1>3, <1>4, <2>1
<1>5. CASE Op(r) # "snapshot"
  <2>1. pin = [pin EXCEPT ![Vm(r)] = pin[Vm(r)]]
    BY DEF RegistryInv, TypeOK
  <2>2. (Return(r, "err") /\ UNCHANGED <<lock, pin>>)
        \/ (Goto(r, "drive") /\ UNCHANGED req /\ Takes(r, "drive") /\ handle[Vm(r)] = "live")
    BY <1>5, <2>1 DEF Admit, Takes, SetLock
  <2> QED
    BY <1>2, <1>3, <2>2
<1> QED
  BY <1>4, <1>5

\* Drive keeps RegistryInv.
LEMMA DriveKeepsInv ==
  ASSUME RegistryInv, NEW r \in Reqs, NEW res \in {"ok", "err"}, Drive(r, res)
  PROVE  RegistryInv'
<1>1. PICK p \in {"dlookup", "next", "done"} : Moves(r, p)
  BY ReturnFacts DEF Drive, RegistryInv
<1>2. state' \in [Vms -> VmState] /\ store' \in [Names -> Entry]
  BY DEF Drive, TransitionFrom, RegistryInv, TypeOK, VmState
<1>3. Releases(r) /\ pc[r] \in Holding
  BY DEF Drive, SetLock, Releases, Holding, Pinning
<1> QED
  BY <1>1, <1>2, <1>3, ReleaseKeepsInv DEF Drive

\* EndSnapshot moves the request and releases its lock and pin.
LEMMA EndSnapshotFacts ==
  ASSUME TypeOK, NEW r \in Reqs, NEW res \in {"ok", "err"}, EndSnapshot(r, res)
  PROVE  Releases(r) /\ \E p \in {"dlookup", "next", "done"} : Moves(r, p)
  BY ReturnFacts DEF EndSnapshot, SetLock, Releases

\* Mkdir keeps RegistryInv.
LEMMA MkdirKeepsInv ==
  ASSUME RegistryInv, NEW r \in Reqs, Mkdir(r)
  PROVE  RegistryInv'
<1>1. /\ pc[r] = "mkdir" /\ pc[r] \in Holding
      /\ UNCHANGED <<todo, table, state, handle, used, vmsLock, inflight>>
      /\ state' \in [Vms -> VmState] /\ store' \in [Names -> Entry]
  BY DEF Mkdir, RegistryInv, TypeOK, Entry, Holding
<1>2. CASE EndSnapshot(r, "err")
  BY <1>1, <1>2, EndSnapshotFacts, ReleaseKeepsInv DEF RegistryInv
<1>3. CASE Goto(r, "mark") /\ UNCHANGED <<req, pin, lock>>
  <2>1. Moves(r, "mark")
    BY <1>3, GotoFacts DEF RegistryInv
  <2> QED
    BY <1>1, <1>3, <2>1, MoveKeepsInv DEF Pcs, OnSlot, Holding, Pinning, Launching
<1> QED
  BY <1>2, <1>3 DEF Mkdir

\* Mark keeps RegistryInv.
LEMMA MarkKeepsInv ==
  ASSUME RegistryInv, NEW r \in Reqs, Mark(r)
  PROVE  RegistryInv'
<1>1. PICK p \in {"write", "rmdir"} : Moves(r, p) /\ (p = "write" => handle[Vm(r)] = "live")
  BY GotoFacts DEF Mark, RegistryInv
<1>2. state' \in [Vms -> VmState] /\ store' \in [Names -> Entry]
  BY DEF Mark, SetState, RegistryInv, TypeOK, VmState
<1> QED
  BY <1>1, <1>2, MoveKeepsInv DEF Mark, Pcs, OnSlot, Holding, Pinning, Launching

\* Write keeps RegistryInv.
LEMMA WriteKeepsInv ==
  ASSUME RegistryInv, NEW r \in Reqs, NEW res \in {"ok", "err"}, NEW left \in Dirs,
         Write(r, res, left)
  PROVE  RegistryInv'
<1>1. Moves(r, "settle")
  BY ResFacts DEF Write, RegistryInv
<1>2. state' \in [Vms -> VmState] /\ store' \in [Names -> Entry]
  BY DEF Write, slotVars, RegistryInv, TypeOK, Entry
<1> QED
  BY <1>1, <1>2, MoveKeepsInv DEF Write, slotVars, Pcs, OnSlot, Holding, Pinning, Launching

\* Settle keeps RegistryInv.
LEMMA SettleKeepsInv ==
  ASSUME RegistryInv, NEW r \in Reqs, Settle(r)
  PROVE  RegistryInv'
<1>1. PICK p \in {"readback", "rmdir"} : Moves(r, p)
  BY GotoFacts DEF Settle, RegistryInv
<1>2. state' \in [Vms -> VmState] /\ store' \in [Names -> Entry]
  BY DEF Settle, TransitionFrom, RegistryInv, TypeOK, VmState
<1> QED
  BY <1>1, <1>2, MoveKeepsInv DEF Settle, Pcs, OnSlot, Holding, Pinning, Launching

\* Rmdir keeps RegistryInv.
LEMMA RmdirKeepsInv ==
  ASSUME RegistryInv, NEW r \in Reqs, Rmdir(r)
  PROVE  RegistryInv'
<1>1. /\ pc[r] \in Holding
      /\ state' \in [Vms -> VmState] /\ store' \in [Names -> Entry]
  BY DEF Rmdir, RegistryInv, TypeOK, Entry, Holding
<1> QED
  BY <1>1, EndSnapshotFacts, ReleaseKeepsInv DEF Rmdir, RegistryInv

\* Readback keeps RegistryInv.
LEMMA ReadbackKeepsInv ==
  ASSUME RegistryInv, NEW r \in Reqs, Readback(r)
  PROVE  RegistryInv'
<1>1. Moves(r, "done")
  BY ResFacts DEF Readback, RegistryInv
<1>2. Releases(r) /\ pc[r] \in Holding
  BY DEF Readback, SetLock, Releases, Holding
<1>3. state' \in [Vms -> VmState] /\ store' \in [Names -> Entry]
  BY DEF Readback, RegistryInv, TypeOK
<1> QED
  BY <1>1, <1>2, <1>3, ReleaseKeepsInv DEF Readback

\* DestroyLookup keeps RegistryInv.
LEMMA DestroyLookupKeepsInv ==
  ASSUME RegistryInv, NEW r \in Reqs, DestroyLookup(r)
  PROVE  RegistryInv'
<1>1. PICK p \in {"dmark", "dlookup", "next", "done"} : Moves(r, p)
  BY ReturnFacts, GotoFacts DEF DestroyLookup, RegistryInv
<1> QED
  BY <1>1, MoveKeepsInv
  DEF DestroyLookup, slotVars, RegistryInv, TypeOK, Pcs, OnSlot, Holding, Pinning, Launching

\* TeardownMark keeps RegistryInv.
LEMMA TeardownMarkKeepsInv ==
  ASSUME RegistryInv, NEW r \in Reqs, TeardownMark(r)
  PROVE  RegistryInv'
<1>1. Moves(r, "dwait")
  BY GotoFacts DEF TeardownMark, RegistryInv
<1>2. state' \in [Vms -> VmState] /\ store' \in [Names -> Entry]
  BY DEF TeardownMark, SetState, RegistryInv, TypeOK, VmState
<1> QED
  BY <1>1, <1>2, MoveKeepsInv DEF TeardownMark, Pcs, OnSlot, Holding, Pinning, Launching

\* TeardownLock keeps RegistryInv.
LEMMA TeardownLockKeepsInv ==
  ASSUME RegistryInv, NEW r \in Reqs, TeardownLock(r)
  PROVE  RegistryInv'
<1>1. Moves(r, "dremove")
  BY GotoFacts DEF TeardownLock, RegistryInv
<1>2. Takes(r, "dremove")
  BY DEF TeardownLock, SetLock, Takes
<1> QED
  BY <1>1, <1>2, TakeKeepsInv DEF TeardownLock

\* TeardownRemove keeps RegistryInv.
LEMMA TeardownRemoveKeepsInv ==
  ASSUME RegistryInv, NEW r \in Reqs, TeardownRemove(r)
  PROVE  RegistryInv'
<1> DEFINE v == Vm(r)
<1>1. /\ pc[r] = "dremove" /\ pc[r] \in OnSlot /\ pc[r] \in Holding
      /\ pc[r] \notin Launching /\ pc[r] \notin Pinning
      /\ table' = table \ {v}
      /\ UNCHANGED <<todo, state, pin, used, vmsLock, inflight, store>>
  BY DEF TeardownRemove, OnSlot, Holding, Launching, Pinning
<1>2. v \in Vms /\ \A s \in Reqs : pc[s] = "insert" => Vm(s) # v
  BY <1>1 DEF RegistryInv, ReqInv, HandleInv, Fresh
<1>3. CASE handle[v] # "live"
  <2>1. PICK p \in {"dlookup", "next", "done"} : Moves(r, p)
    BY <1>3, ReturnFacts DEF TeardownRemove, RegistryInv
  <2>2. table' = table /\ handle' = handle
    BY <1>1, <1>3 DEF TeardownRemove, RegistryInv, HandleInv, TableLive
  <2>3. Releases(r)
    BY <1>1, <1>3 DEF TeardownRemove, SetLock, Releases
  <2>4. state' \in [Vms -> VmState] /\ store' \in [Names -> Entry]
    BY <1>1 DEF RegistryInv, TypeOK
  <2> QED
    BY <1>1, <2>1, <2>2, <2>3, <2>4, ReleaseKeepsInv
<1>4. CASE handle[v] = "live"
  <2> USE DEF RegistryInv
  <2>1. /\ Moves(r, "dshutdown") /\ lock' = lock
        /\ handle' = [handle EXCEPT ![v] = "stopping"]
    BY <1>4, GotoFacts DEF TeardownRemove
  <2>2. /\ "dshutdown" \in Pcs /\ "dshutdown" \in Holding /\ "dshutdown" \notin Launching
        /\ "dshutdown" \notin Pinning /\ "dshutdown" \in OnSlot
    BY DEF Pcs, OnSlot, Holding, Launching, Pinning
  <2>3. TypeOK'
    <3>1. handle' \in [Vms -> HandleState] /\ table' \in SUBSET Vms
      BY <1>1, <2>1 DEF TypeOK, HandleState
    <3> QED
      BY <1>1, <2>1, <2>2, <3>1, MovedPc DEF Moves, TypeOK, ReqType
  <2>4. ReqInv'
    BY <1>2, <2>1, <2>2, ReqFrame
  <2>5. LockInv' /\ PinInv'
    BY <1>1, <2>1, <2>2, LockFrame
  <2>6. HandleInv'
    <3>1. \A s \in Reqs : Vm(s)' = Vm(s)
      BY <2>1 DEF Moves, SameParams, Vm
    <3>2. /\ pc'[r] = "dshutdown"
          /\ \A s \in Reqs : s # r => pc'[s] = pc[s]
          /\ \A s \in Reqs : s # r /\ Vm(s) = v => pc[s] \notin Holding
      BY <1>1, <2>1, <2>2, MovedPc DEF LockInv
    <3>3. handle'[v] = "stopping" /\ \A u \in Vms : u # v => handle'[u] = handle[u]
      BY <1>2, <2>1 DEF TypeOK
    <3>4. \A s \in Reqs : pc[s] \in OnSlot \cup {"insert"} => Vm(s) \in Vms
      BY DEF ReqInv
    <3>5. LiveOwned'
      BY <1>1, <3>1, <3>2, <3>3 DEF HandleInv, LiveOwned
    <3>6. Fresh'
      <4>1. \A s \in Reqs : pc'[s] = "insert" =>
              pc[s] = "insert" /\ Vm(s)' = Vm(s) /\ handle'[Vm(s)] = "live" /\ Vm(s) \notin table'
        BY <1>1, <1>2, <3>1, <3>2, <3>3, <3>4 DEF HandleInv, Fresh
      <4>2. \A t \in Reqs : pc'[t] \in OnSlot \cup {"insert"} => pc[t] \in OnSlot \cup {"insert"}
        BY <1>1, <3>2
      <4> QED
        BY <1>1, <3>1, <4>1, <4>2, FreshFrame
    <3>7. Born'
      <4>1. \A s \in Reqs : todo'[s] = todo[s] /\ todo[s] \subseteq Vms
        BY <1>1 DEF TypeOK
      <4> QED
        BY <3>1, <3>2, <3>3, <3>4, <4>1 DEF HandleInv, Born
    <3>8. Driven'
      <4>1. \A s \in Reqs : pc[s] \in {"drive", "write", "dshutdown"} =>
              pc[s] \in Holding /\ Vm(s) \in Vms
        BY <3>4 DEF Holding, OnSlot
      <4> QED
        BY <3>1, <3>2, <3>3, <4>1 DEF HandleInv, Driven
    <3>9. TableLive' /\ LiveNamed'
      BY <1>1, <3>3 DEF HandleInv, TableLive, LiveNamed, TypeOK
    <3> QED
      BY <3>5, <3>6, <3>7, <3>8, <3>9 DEF HandleInv
  <2>7. DeleteInv'
    BY <1>1, <2>1, <2>2, DeleteFrame
  <2>8. CountInv'
    BY <1>1, <2>1, <2>2, CountFrame
  <2> QED
    BY <2>3, <2>4, <2>5, <2>6, <2>7, <2>8
<1> QED
  BY <1>3, <1>4

\* A step in which a teardown ends with its VM gone keeps RegistryInv.
LEMMA GoneKeepsInv ==
  ASSUME RegistryInv, NEW r \in Reqs, NEW p \in {"next", "done", "cancelled"}, Moves(r, p),
         pc[r] = "dshutdown", Releases(r),
         handle' = [handle EXCEPT ![Vm(r)] = "gone"],
         UNCHANGED <<todo, table, state, used, vmsLock, inflight, store>>
  PROVE  RegistryInv'
<1> USE DEF RegistryInv
<1> DEFINE v == Vm(r)
<1>1. /\ p \in Pcs /\ p \notin OnSlot /\ p \notin Holding /\ p \notin Launching
      /\ p \notin Pinning
      /\ p \notin {"scan", "remove", "insert", "drive", "write", "dshutdown"}
      /\ p \notin {"lookup", "check", "wait"}
  BY DEF Pcs, OnSlot, Holding, Launching, Pinning
<1>2. pc[r] \in OnSlot /\ pc[r] \in Holding /\ pc[r] \notin Launching /\ pc[r] \notin Pinning
  BY DEF OnSlot, Holding, Launching, Pinning
<1>3. v \in Vms /\ handle[v] = "stopping"
  BY <1>2 DEF ReqInv, HandleInv, Driven
<1>4. TypeOK'
  <2>1. /\ lock' \in [Vms -> Reqs \cup {None}] /\ pin' \in [Vms -> Names \cup {None}]
        /\ handle' \in [Vms -> HandleState]
    BY <1>3 DEF TypeOK, Releases, HandleState
  <2> QED
    BY <1>1, <2>1, MovedPc DEF Moves, TypeOK, ReqType
<1>5. ReqInv'
  BY <1>1, ReqFrame
<1>6. LockInv' /\ PinInv'
  BY <1>1, <1>2, <1>3, LockRelease
<1>7. HandleInv'
  <2>1. \A s \in Reqs : Vm(s)' = Vm(s)
    BY DEF Moves, SameParams, Vm
  <2>2. /\ pc'[r] = p /\ \A s \in Reqs : s # r => pc'[s] = pc[s]
        /\ \A s \in Reqs : s # r /\ Vm(s) = v => pc[s] \notin Holding
    BY <1>1, <1>2, MovedPc DEF LockInv
  <2>3. handle'[v] = "gone" /\ \A u \in Vms : u # v => handle'[u] = handle[u]
    BY <1>3 DEF TypeOK
  <2>4. \A s \in Reqs : pc[s] \in OnSlot \cup {"insert"} => Vm(s) \in Vms
    BY DEF ReqInv
  <2>5. v \notin table /\ \A s \in Reqs : pc[s] = "insert" => Vm(s) # v
    BY <1>3 DEF HandleInv, TableLive, Fresh
  <2>6. TableLive' /\ LiveOwned'
    BY <1>2, <2>1, <2>2, <2>3, <2>5 DEF HandleInv, TableLive, LiveOwned, TypeOK
  <2>7. Fresh'
    <3>1. \A s \in Reqs : pc'[s] = "insert" =>
            pc[s] = "insert" /\ Vm(s)' = Vm(s) /\ handle'[Vm(s)] = "live" /\ Vm(s) \notin table'
      BY <1>1, <2>1, <2>2, <2>3, <2>4, <2>5 DEF HandleInv, Fresh
    <3>2. \A t \in Reqs : pc'[t] \in OnSlot \cup {"insert"} => pc'[t] = pc[t]
      BY <1>1, <2>2
    <3> QED
      BY <2>1, <3>1, <3>2, FreshFrame
  <2>8. Born'
    <3>1. \A s \in Reqs : todo'[s] = todo[s] /\ todo[s] \subseteq Vms
      BY DEF TypeOK
    <3> QED
      BY <1>1, <2>1, <2>2, <2>3, <2>4, <3>1 DEF HandleInv, Born
  <2>9. Driven'
    <3>1. \A s \in Reqs : pc[s] \in {"drive", "write", "dshutdown"} =>
            pc[s] \in Holding /\ Vm(s) \in Vms
      BY <2>4 DEF Holding, OnSlot
    <3> QED
      BY <1>1, <2>1, <2>2, <2>3, <3>1 DEF HandleInv, Driven
  <2>10. LiveNamed'
    BY <2>3 DEF HandleInv, LiveNamed
  <2> QED
    BY <2>6, <2>7, <2>8, <2>9, <2>10 DEF HandleInv
<1>8. DeleteInv'
  BY <1>1, DeleteFrame
<1>9. CountInv'
  BY <1>1, <1>2, CountFrame
<1> QED
  BY <1>4, <1>5, <1>6, <1>7, <1>8, <1>9

\* TeardownShutdown keeps RegistryInv.
LEMMA TeardownShutdownKeepsInv ==
  ASSUME RegistryInv, NEW r \in Reqs, NEW res \in {"ok", "err"}, TeardownShutdown(r, res)
  PROVE  RegistryInv'
<1>1. PICK p \in {"next", "done"} : Moves(r, p)
  BY ReturnFacts DEF TeardownShutdown, RegistryInv
<1>2. Releases(r)
  BY DEF TeardownShutdown, SetLock, Releases, Pinning
<1> QED
  BY <1>1, <1>2, GoneKeepsInv DEF TeardownShutdown

\* ShutdownList keeps RegistryInv.
LEMMA ShutdownListKeepsInv ==
  ASSUME RegistryInv, NEW r \in Reqs, ShutdownList(r)
  PROVE  RegistryInv'
<1> USE DEF RegistryInv
<1>1. /\ Moves(r, "next") /\ pc[r] = "list" /\ todo' = [todo EXCEPT ![r] = table]
      /\ UNCHANGED <<table, state, pin, lock, handle, used, vmsLock, inflight, store>>
  BY GotoFacts DEF ShutdownList, slotVars
<1>2. /\ "next" \in Pcs /\ "next" \notin OnSlot /\ "next" \notin Holding
      /\ "next" \notin Launching /\ "next" \notin Pinning
      /\ "list" \notin Holding /\ "list" \notin Launching /\ "list" \notin Pinning
  BY DEF Pcs, OnSlot, Holding, Launching, Pinning
<1>3. TypeOK'
  <2>1. todo' \in [Reqs -> SUBSET Vms]
    BY <1>1 DEF TypeOK
  <2> QED
    BY <1>1, <1>2, <2>1, MovedPc DEF Moves, TypeOK, ReqType
<1>4. ReqInv'
  BY <1>1, <1>2, ReqFrame
<1>5. LockInv' /\ PinInv'
  BY <1>1, <1>2, LockFrame
<1>6. HandleInv'
  <2>1. \A s \in Reqs : Vm(s)' = Vm(s)
    BY <1>1 DEF Moves, SameParams, Vm
  <2>2. \A s \in Reqs : /\ pc'[s] \in OnSlot => pc[s] \in OnSlot
                        /\ pc'[s] = "insert" <=> pc[s] = "insert"
                        /\ pc'[s] \in {"drive", "write"} => pc[s] \in {"drive", "write"}
                        /\ pc'[s] = "dshutdown" => pc[s] = "dshutdown"
    BY <1>1, <1>2, MovedPc
  <2>3. \A s \in Reqs, u \in Vms : u \in todo'[s] => u \in todo[s] \/ u \in table
    BY <1>1 DEF TypeOK
  <2>4. \A s \in Reqs : todo'[s] \subseteq Vms
    BY <1>3 DEF TypeOK
  <2>5. \A s \in Reqs : pc[s] = "insert" => Vm(s) \in Vms
    BY DEF ReqInv
  <2>6. UNCHANGED <<handle, table, used>>
    BY <1>1
  <2>7. TableLive' /\ LiveOwned' /\ LiveNamed'
    BY <2>1, <2>2, <2>6 DEF HandleInv, TableLive, LiveOwned, LiveNamed
  <2>8. Fresh'
    <3>1. \A s \in Reqs : pc[s] = "insert" => handle[Vm(s)] = "live" /\ Vm(s) \notin table
      BY DEF HandleInv, Fresh
    <3> QED
      BY <2>1, <2>2, <2>3, <2>5, <2>6, <3>1, FreshFrame
  <2>9. Born'
    <3>1. \A s \in Reqs : \A u \in todo'[s] : handle[u] # "unborn"
      BY <2>3, <2>4 DEF HandleInv, Born, TableLive
    <3> QED
      BY <2>1, <2>2, <2>6, <3>1 DEF HandleInv, Born
  <2>10. Driven'
    BY <2>1, <2>2, <2>6 DEF HandleInv, Driven
  <2> QED
    BY <2>7, <2>8, <2>9, <2>10 DEF HandleInv
<1>7. DeleteInv'
  BY <1>1, <1>2, DeleteFrame
<1>8. CountInv'
  BY <1>1, <1>2, CountFrame
<1> QED
  BY <1>3, <1>4, <1>5, <1>6, <1>7, <1>8

\* ShutdownNext keeps RegistryInv.
LEMMA ShutdownNextKeepsInv ==
  ASSUME RegistryInv, NEW r \in Reqs, ShutdownNext(r)
  PROVE  RegistryInv'
<1>1. CASE Goto(r, "done") /\ UNCHANGED <<req, todo>>
  <2>1. Moves(r, "done")
    BY <1>1, GotoFacts DEF RegistryInv
  <2>2. /\ pc[r] = "next"
        /\ UNCHANGED <<todo, table, pin, lock, handle, used, vmsLock, inflight, state, store>>
    BY <1>1 DEF ShutdownNext, slotVars
  <2>3. state' \in [Vms -> VmState] /\ store' \in [Names -> Entry]
    BY <2>2 DEF RegistryInv, TypeOK
  <2>4. \A p \in {"next", "done"} :
          p \in Pcs /\ p \notin Launching /\ p \notin Holding /\ p \notin Pinning /\ p \notin OnSlot
    BY DEF Pcs, OnSlot, Holding, Pinning, Launching
  <2> QED
    BY <2>1, <2>2, <2>3, <2>4, MoveKeepsInv
<1>2. ASSUME NEW v \in todo[r], todo' = [todo EXCEPT ![r] = todo[r] \ {v}],
             req' = [req EXCEPT ![r].vm = v], Goto(r, "dmark")
      PROVE  RegistryInv'
  <2> USE DEF RegistryInv
  <2>1. /\ v \in Vms /\ pc[r] = "next" /\ pc' = [pc EXCEPT ![r] = "dmark"]
        /\ UNCHANGED <<table, state, pin, lock, handle, used, vmsLock, inflight, store>>
    BY <1>2 DEF ShutdownNext, TypeOK, Goto, slotVars
  <2>2. /\ req' \in [Reqs -> ReqType]
        /\ req'[r].vm = v /\ req'[r].name = req[r].name
        /\ \A s \in Reqs : s # r => req'[s] = req[s]
    BY <1>2, <2>1, VmFacts
  <2>3. /\ pc' \in [Reqs -> Pcs] /\ pc'[r] = "dmark"
        /\ \A s \in Reqs : s # r => pc'[s] = pc[s]
    BY <2>1 DEF TypeOK, Pcs
  <2>4. /\ "dmark" \in OnSlot /\ "dmark" \notin Holding /\ "dmark" \notin Launching
        /\ "dmark" \notin Pinning
        /\ "next" \notin Holding /\ "next" \notin Launching /\ "next" \notin Pinning
    BY DEF OnSlot, Holding, Launching, Pinning
  <2>5. TypeOK'
    <3>1. todo' \in [Reqs -> SUBSET Vms]
      BY <1>2 DEF TypeOK
    <3> QED
      BY <2>1, <2>2, <2>3, <3>1 DEF TypeOK, ReqType
  <2>6. ReqInv'
    BY <2>1, <2>2, <2>3, <2>4 DEF ReqInv, Vm, Name, Op
  <2>7. LockInv' /\ PinInv'
    <3>1. \A u \in Vms : lock[u] # None => lock[u] \in Reqs /\ lock[u] # r
      BY <2>1, <2>4 DEF LockInv, TypeOK
    <3>2. LockInv'
      <4>1. \A s \in Reqs : s # r => Vm(s)' = Vm(s)
        BY <2>2 DEF Vm
      <4>2. \A s \in Reqs : pc'[s] \in Holding => s # r /\ pc[s] \in Holding
        BY <2>3, <2>4
      <4>3. \A u \in Vms : lock[u] # None =>
              lock[u] \in Reqs /\ lock[u] # r /\ pc'[lock[u]] = pc[lock[u]]
        BY <2>3, <3>1
      <4> QED
        BY <2>1, <4>1, <4>2, <4>3 DEF LockInv
    <3>3. PinInv'
      <4>1. \A s \in Reqs : s # r => Name(s)' = Name(s) /\ pc'[s] = pc[s]
        BY <2>2, <2>3 DEF Name
      <4> QED
        BY <2>1, <3>1, <4>1 DEF PinInv
    <3> QED
      BY <3>2, <3>3
  <2>8. HandleInv'
    <3>1. /\ handle[v] # "unborn"
          /\ \A s \in Reqs : pc[s] = "insert" => Vm(s) # v
      BY <1>2 DEF HandleInv, Born, Fresh
    <3>2. Vm(r)' = v /\ \A s \in Reqs : s # r => Vm(s)' = Vm(s)
      BY <2>2 DEF Vm
    <3>3. \A s \in Reqs : todo'[s] \subseteq todo[s]
      BY <1>2 DEF TypeOK
    <3>4. \A s \in Reqs : s # r => pc'[s] = pc[s] /\ Vm(s)' = Vm(s)
      BY <2>3, <3>2
    <3>5. Fresh'
      <4>1. \A s \in Reqs : pc'[s] = "insert" =>
              pc[s] = "insert" /\ Vm(s)' = Vm(s) /\ handle'[Vm(s)] = "live" /\ Vm(s) \notin table'
        BY <2>1, <2>3, <3>4 DEF HandleInv, Fresh
      <4>2. \A t \in Reqs : \/ pc'[t] = pc[t] /\ Vm(t)' = Vm(t)
                            \/ \A s \in Reqs : pc[s] = "insert" => Vm(t)' # Vm(s)
        BY <3>1, <3>2, <3>4
      <4> QED
        BY <2>1, <3>3, <4>1, <4>2, FreshFrame
    <3>6. LiveOwned'
      BY <2>1, <3>4 DEF HandleInv, LiveOwned
    <3>7. Born'
      BY <2>1, <2>3, <3>1, <3>2, <3>3, <3>4 DEF HandleInv, Born
    <3>8. Driven'
      BY <2>1, <2>3, <3>4 DEF HandleInv, Driven
    <3>9. TableLive' /\ LiveNamed'
      BY <2>1 DEF HandleInv, TableLive, LiveNamed
    <3> QED
      BY <3>5, <3>6, <3>7, <3>8, <3>9 DEF HandleInv
  <2>9. DeleteInv'
    <3>1. \A s \in Reqs : pc'[s] = "remove" => pc[s] = "remove"
      BY <2>3
    <3>2. \A s \in Reqs : Name(s)' = Name(s)
      BY <2>2 DEF Name
    <3> QED
      BY <2>1, <3>1, <3>2 DEF DeleteInv
  <2>10. CountInv'
    BY <2>1, <2>3, <2>4, CountSame
  <2> QED
    BY <2>5, <2>6, <2>7, <2>8, <2>9, <2>10
<1> QED
  BY <1>1, <1>2 DEF ShutdownNext

\* DeleteScan keeps RegistryInv.
LEMMA DeleteScanKeepsInv ==
  ASSUME RegistryInv, NEW r \in Reqs, DeleteScan(r)
  PROVE  RegistryInv'
<1>1. /\ pc[r] = "scan" /\ vmsLock = None
      /\ UNCHANGED <<todo, table, state, pin, lock, handle, used, inflight, store>>
  BY DEF DeleteScan, slotVars
<1>2. CASE InUse(Name(r))
  <2>1. PICK p \in {"next", "done"} : Moves(r, p)
    BY <1>1, <1>2, ReturnFacts DEF DeleteScan, RegistryInv
  <2> QED
    BY <1>1, <1>2, <2>1, MoveKeepsInv
    DEF DeleteScan, RegistryInv, TypeOK, Pcs, OnSlot, Holding, Pinning, Launching
<1>3. CASE ~InUse(Name(r))
  <2> USE DEF RegistryInv
  <2>1. Moves(r, "remove") /\ vmsLock' = r
    BY <1>3, GotoFacts DEF DeleteScan
  <2>2. /\ "remove" \in Pcs /\ "remove" \notin OnSlot /\ "remove" \notin Holding
        /\ "remove" \notin Launching /\ "remove" \notin Pinning
        /\ "scan" \notin Holding /\ "scan" \notin Launching /\ "scan" \notin Pinning
    BY DEF Pcs, OnSlot, Holding, Launching, Pinning
  <2>3. TypeOK'
    BY <1>1, <2>1, <2>2, MovedPc DEF Moves, TypeOK, ReqType
  <2>4. ReqInv'
    <3>1. Name(r) \in Names
      BY <1>1 DEF ReqInv
    <3> QED
      BY <2>1, <2>2, <3>1, ReqFrame
  <2>5. LockInv' /\ PinInv'
    BY <1>1, <2>1, <2>2, LockFrame
  <2>6. HandleInv'
    BY <1>1, <2>1, <2>2, HandleFrame
  <2>7. DeleteInv'
    <3>1. \A s \in Reqs : Name(s)' = Name(s)
      BY <2>1 DEF Moves, SameParams, Name
    <3>2. \A s \in Reqs : pc[s] # "remove"
      BY <1>1, RegistryConstants DEF DeleteInv
    <3> QED
      BY <1>1, <1>3, <2>1, <2>2, <3>1, <3>2, MovedPc DEF DeleteInv, InUse, Pins
  <2>8. CountInv'
    BY <1>1, <2>1, <2>2, CountFrame
  <2> QED
    BY <2>3, <2>4, <2>5, <2>6, <2>7, <2>8
<1> QED
  BY <1>2, <1>3

\* DeleteRemove keeps RegistryInv.
LEMMA DeleteRemoveKeepsInv ==
  ASSUME RegistryInv, NEW r \in Reqs, DeleteRemove(r)
  PROVE  RegistryInv'
<1> USE DEF RegistryInv
<1>1. /\ pc[r] = "remove" /\ vmsLock' = None
      /\ UNCHANGED <<todo, table, state, pin, lock, handle, used, inflight>>
  BY DEF DeleteRemove, slotVars
<1>2. PICK p \in {"next", "done"} : Moves(r, p)
  BY <1>1, ReturnFacts DEF DeleteRemove
<1>3. /\ p \in Pcs /\ p \notin OnSlot /\ p \notin Holding /\ p \notin Launching
      /\ p \notin Pinning
      /\ p \notin {"scan", "remove", "insert", "drive", "write", "dshutdown"}
      /\ p \notin {"lookup", "check", "wait"}
      /\ "remove" \notin Holding /\ "remove" \notin Launching /\ "remove" \notin Pinning
  BY DEF Pcs, OnSlot, Holding, Launching, Pinning
<1>4. TypeOK'
  <2>1. store' \in [Names -> Entry]
    BY DEF DeleteRemove, TypeOK, Entry
  <2> QED
    BY <1>1, <1>2, <1>3, <2>1, MovedPc DEF Moves, TypeOK, ReqType
<1>5. ReqInv'
  BY <1>2, <1>3, ReqFrame
<1>6. LockInv' /\ PinInv'
  BY <1>1, <1>2, <1>3, LockFrame
<1>7. HandleInv'
  BY <1>1, <1>2, <1>3, HandleFrame
<1>8. DeleteInv'
  <2>1. \A s \in Reqs : s # r => pc[s] # "remove"
    BY <1>1 DEF DeleteInv
  <2> QED
    BY <1>2, <1>3, <2>1, MovedPc DEF DeleteInv
<1>9. CountInv'
  BY <1>1, <1>2, <1>3, CountFrame
<1> QED
  BY <1>4, <1>5, <1>6, <1>7, <1>8, <1>9

\* The drop of a create's future between launch and insert keeps RegistryInv: the
\* VM goes with its handle, and no other request knows of it.
LEMMA AbandonKeepsInv ==
  ASSUME RegistryInv, NEW r \in Reqs, Moves(r, "cancelled"), pc[r] = "insert",
         inflight' = inflight - 1,
         handle' = [handle EXCEPT ![Vm(r)] = "gone"],
         UNCHANGED <<todo, table, state, pin, lock, used, vmsLock, store>>
  PROVE  RegistryInv'
<1> USE DEF RegistryInv
<1> DEFINE v == Vm(r)
<1>1. /\ "cancelled" \in Pcs /\ "cancelled" \notin OnSlot /\ "cancelled" \notin Holding
      /\ "cancelled" \notin Launching /\ "cancelled" \notin Pinning
      /\ "insert" \notin Holding /\ "insert" \in Launching /\ "insert" \notin Pinning
  BY DEF Pcs, OnSlot, Holding, Launching, Pinning
<1>2. CountInv' /\ inflight' \in Nat
  BY <1>1, CountDown DEF Moves
<1>3. v \in Vms
  BY DEF ReqInv
<1>4. TypeOK'
  <2>1. handle' \in [Vms -> HandleState]
    BY DEF TypeOK, HandleState
  <2> QED
    BY <1>1, <1>2, <2>1, MovedPc DEF Moves, TypeOK, ReqType
<1>5. ReqInv'
  BY <1>1, ReqFrame
<1>6. LockInv' /\ PinInv'
  BY <1>1, LockFrame
<1>7. HandleInv'
  <2>1. \A s \in Reqs : Vm(s)' = Vm(s)
    BY DEF Moves, SameParams, Vm
  <2>2. pc'[r] = "cancelled" /\ \A s \in Reqs : s # r => pc'[s] = pc[s]
    BY <1>1, MovedPc
  <2>3. handle'[v] = "gone" /\ \A u \in Vms : u # v => handle'[u] = handle[u]
    BY <1>3 DEF TypeOK
  <2>4. /\ v \notin table
        /\ \A s \in Reqs : s # r /\ Vm(s) = v => pc[s] \notin OnSlot \cup {"insert"}
        /\ \A s \in Reqs : v \notin todo[s]
    BY DEF HandleInv, Fresh
  <2>5. /\ \A s \in Reqs : pc[s] \in OnSlot \cup {"insert"} => Vm(s) \in Vms
        /\ {"drive", "write", "dshutdown"} \subseteq OnSlot
    BY DEF ReqInv, OnSlot, Holding
  <2>a. \A s \in Reqs : pc'[s] \in OnSlot \cup {"insert"} =>
          s # r /\ pc'[s] = pc[s] /\ Vm(s) \in Vms /\ Vm(s) # v /\ handle'[Vm(s)] = handle[Vm(s)]
    BY <1>1, <2>2, <2>3, <2>4, <2>5
  <2>6. TableLive' /\ LiveOwned'
    <3>1. table' = table /\ table \subseteq Vms
      BY DEF TypeOK
    <3>2. TableLive'
      BY <2>3, <2>4, <3>1 DEF HandleInv, TableLive
    <3>3. ASSUME NEW u \in Vms, handle'[u] = "live"
          PROVE  u \in table' \/ \E s \in Reqs : pc'[s] = "insert" /\ Vm(s)' = u
      <4>1. u # v /\ handle[u] = "live"
        BY <2>3, <3>3
      <4>2. u \in table \/ \E s \in Reqs : pc[s] = "insert" /\ Vm(s) = u
        BY <4>1 DEF HandleInv, LiveOwned
      <4>3. CASE u \in table
        BY <3>1, <4>3
      <4>4. ASSUME NEW s \in Reqs, pc[s] = "insert", Vm(s) = u
            PROVE  pc'[s] = "insert" /\ Vm(s)' = u
        BY <2>1, <2>2, <4>1, <4>4
      <4> QED
        BY <4>2, <4>3, <4>4
    <3> QED
      BY <3>2, <3>3 DEF LiveOwned
  <2>7. Fresh'
    <3>1. \A s \in Reqs : pc[s] = "insert" => handle[Vm(s)] = "live" /\ Vm(s) \notin table
      BY DEF HandleInv, Fresh
    <3> QED
      BY <2>1, <2>a, <3>1, FreshFrame
  <2>8. Born'
    <3>1. \A s \in Reqs : todo'[s] = todo[s] /\ todo[s] \subseteq Vms
      BY DEF TypeOK
    <3>2. ASSUME NEW s \in Reqs, pc'[s] \in OnSlot
          PROVE  handle'[Vm(s)'] # "unborn"
      <4>1. pc[s] \in OnSlot /\ Vm(s)' = Vm(s) /\ handle'[Vm(s)] = handle[Vm(s)]
        BY <2>1, <2>a, <3>2
      <4>2. handle[Vm(s)] # "unborn"
        BY <4>1 DEF HandleInv, Born
      <4> QED
        BY <4>1, <4>2
    <3>3. ASSUME NEW s \in Reqs, NEW u \in todo'[s]
          PROVE  handle'[u] # "unborn"
      <4>1. u \in todo[s] /\ u \in Vms /\ u # v
        BY <2>4, <3>1
      <4>2. handle[u] # "unborn"
        BY <4>1 DEF HandleInv, Born
      <4> QED
        BY <2>3, <4>1, <4>2
    <3> QED
      BY <3>2, <3>3 DEF Born
  <2>9. Driven'
    BY <2>1, <2>5, <2>a DEF HandleInv, Driven
  <2>10. LiveNamed'
    BY <2>3 DEF HandleInv, LiveNamed
  <2> QED
    BY <2>6, <2>7, <2>8, <2>9, <2>10 DEF HandleInv
<1>8. DeleteInv'
  BY <1>1, DeleteFrame
<1> QED
  BY <1>2, <1>4, <1>5, <1>6, <1>7, <1>8

\* Cancel keeps RegistryInv.
LEMMA CancelKeepsInv ==
  ASSUME RegistryInv, NEW r \in Reqs, Cancel(r)
  PROVE  RegistryInv'
<1>1. /\ Moves(r, "cancelled") /\ pc[r] \in Awaiting
      /\ UNCHANGED <<todo, table, state, used, vmsLock, store>>
      /\ state' \in [Vms -> VmState] /\ store' \in [Names -> Entry]
  BY GotoFacts DEF Cancel, RegistryInv, TypeOK
<1>2. CASE pc[r] = "launch"
  BY <1>1, <1>2, LeaveLaunchKeepsInv
  DEF Cancel, LeavesLaunch, slotVars, Launching, Holding, Pinning
<1>3. CASE pc[r] = "insert"
  BY <1>1, <1>3, AbandonKeepsInv DEF Cancel, Launching, Holding, Pinning
<1>4. CASE pc[r] = "dshutdown"
  <2>1. Releases(r)
    BY <1>4 DEF Cancel, Releases, Holding, Pinning
  <2> QED
    BY <1>1, <1>4, <2>1, GoneKeepsInv DEF Cancel, Launching
<1>5. CASE pc[r] \in {"drive", "write", "dremove"}
  <2>1. Releases(r) /\ pc[r] \in Holding
    BY <1>5 DEF Cancel, Releases, Holding, Pinning
  <2> QED
    BY <1>1, <1>5, <2>1, ReleaseKeepsInv DEF Cancel, Launching
<1>6. CASE pc[r] \in {"lookup", "wait", "dlookup", "dwait"}
  BY <1>1, <1>6, MoveKeepsInv DEF Cancel, Pcs, OnSlot, Holding, Pinning, Launching
<1> QED
  BY <1>1, <1>2, <1>3, <1>4, <1>5, <1>6 DEF Awaiting

\* A step that leaves everything but the store alone keeps RegistryInv.
LEMMA StoreKeepsInv ==
  ASSUME RegistryInv, UNCHANGED <<pc, req, todo, slotVars, vmsLock, inflight>>,
         store' \in [Names -> Entry]
  PROVE  RegistryInv'
<1> USE DEF RegistryInv, slotVars
<1>1. TypeOK'
  BY DEF TypeOK
<1>2. ReqInv'
  BY DEF ReqInv, Vm, Name, Op
<1>3. LockInv' /\ PinInv'
  BY DEF LockInv, PinInv, Vm, Name
<1>4. HandleInv'
  BY DEF HandleInv, TableLive, LiveOwned, Fresh, Born, Driven, LiveNamed, Vm
<1>5. DeleteInv'
  BY DEF DeleteInv, Name
<1>6. CountInv'
  BY CountSame
<1> QED
  BY <1>1, <1>2, <1>3, <1>4, <1>5, <1>6

\* Upload keeps RegistryInv.
LEMMA UploadKeepsInv ==
  ASSUME RegistryInv, NEW n \in Names, Upload(n)
  PROVE  RegistryInv'
<1>1. store' \in [Names -> Entry]
  BY DEF Upload, RegistryInv, TypeOK, Entry
<1> QED
  BY <1>1, StoreKeepsInv DEF Upload

\* A stuttering step keeps RegistryInv.
LEMMA StutterKeepsInv ==
  ASSUME RegistryInv, UNCHANGED vars
  PROVE  RegistryInv'
<1>1. store' \in [Names -> Entry]
  BY DEF vars, RegistryInv, TypeOK
<1> QED
  BY <1>1, StoreKeepsInv DEF vars

-----------------------------------------------------------------------------
(* Theorems *)

\* Every step keeps RegistryInv.
LEMMA NextRegistryInv == RegistryInv /\ [Next]_vars => RegistryInv'
<1> SUFFICES ASSUME RegistryInv, [Next]_vars PROVE RegistryInv'
  OBVIOUS
<1>1. ASSUME NEW r \in Reqs, Step(r) PROVE RegistryInv'
  BY <1>1, LaunchOkKeepsInv, LaunchFailKeepsInv, InsertKeepsInv, LookupKeepsInv, CheckKeepsInv,
     AdmitKeepsInv, DriveKeepsInv, MkdirKeepsInv, MarkKeepsInv, WriteKeepsInv, SettleKeepsInv,
     RmdirKeepsInv, ReadbackKeepsInv, DestroyLookupKeepsInv, TeardownMarkKeepsInv,
     TeardownLockKeepsInv, TeardownRemoveKeepsInv, TeardownShutdownKeepsInv,
     ShutdownListKeepsInv, ShutdownNextKeepsInv, DeleteScanKeepsInv, DeleteRemoveKeepsInv
  DEF Step
<1> QED
  BY <1>1, ArriveKeepsInv, CancelKeepsInv, UploadKeepsInv, StutterKeepsInv DEF Next, Quiescent

\* RegistryInv holds in every reachable state.
THEOREM RegistryInvariant == Spec => []RegistryInv
  BY InitRegistryInv, NextRegistryInv, PTL DEF Spec

\* The types of the registry's state; launches_in_flight never underflows.
THEOREM TypeCorrect == Spec => []TypeOK
<1>1. RegistryInv => TypeOK
  BY DEF RegistryInv
<1> QED
  BY <1>1, RegistryInvariant, PTL

\* An operation never drives a VM that is gone, out of the table or another's.
THEOREM DrivenOwned == Spec => []DrivenVmIsOwned
<1>1. RegistryInv => DrivenVmIsOwned
  <2> SUFFICES ASSUME RegistryInv, NEW r \in Reqs, pc[r] \in {"drive", "write"}
               PROVE  lock[Vm(r)] = r /\ handle[Vm(r)] = "live" /\ Vm(r) \in table
    BY DEF DrivenVmIsOwned
  <2>1. pc[r] \in Holding /\ pc[r] \in OnSlot /\ pc[r] # "insert"
    BY DEF Holding, OnSlot
  <2>2. Vm(r) \in Vms /\ lock[Vm(r)] = r
    BY <2>1 DEF RegistryInv, ReqInv, LockInv
  <2>3. handle[Vm(r)] = "live"
    BY DEF RegistryInv, HandleInv, Driven
  <2>4. \A s \in Reqs : pc[s] = "insert" => Vm(s) # Vm(r)
    BY <2>1 DEF RegistryInv, HandleInv, Fresh
  <2> QED
    BY <2>2, <2>3, <2>4 DEF RegistryInv, HandleInv, LiveOwned
<1> QED
  BY <1>1, RegistryInvariant, PTL

\* live_ids() misses no VM when it reports no launch in flight.
THEOREM LiveIdsAreComplete == Spec => []LiveIdsComplete
<1>1. RegistryInv => LiveIdsComplete
  <2> SUFFICES ASSUME RegistryInv, inflight = 0, NEW v \in Vms, handle[v] = "live"
               PROVE  v \in table
    BY DEF LiveIdsComplete
  <2>1. Guards = {}
    BY GuardsFinite, FS_EmptySet DEF RegistryInv, CountInv
  <2> QED
    BY <2>1 DEF RegistryInv, HandleInv, LiveOwned, Guards, Launching
<1> QED
  BY <1>1, RegistryInvariant, PTL

\* A pin belongs to the snapshot that holds the VM's lock.
THEOREM PinsHaveWriters == Spec => []PinHasWriter
<1>1. RegistryInv => PinHasWriter
  <2> SUFFICES ASSUME RegistryInv, NEW v \in Vms, pin[v] # None
               PROVE  \E r \in Reqs : /\ pc[r] \in Pinning
                                      /\ lock[v] = r /\ Vm(r) = v /\ Name(r) = pin[v]
    BY DEF PinHasWriter
  <2>1. lock[v] # None /\ pc[lock[v]] \in Pinning /\ Name(lock[v]) = pin[v]
    BY DEF RegistryInv, PinInv
  <2>2. lock[v] \in Reqs
    BY <2>1 DEF RegistryInv, TypeOK
  <2>3. Vm(lock[v]) = v
    BY <2>1 DEF RegistryInv, LockInv
  <2> QED
    BY <2>1, <2>2, <2>3
<1> QED
  BY <1>1, RegistryInvariant, PTL

\* A file that a VM in the table was launched from is never deleted.
THEOREM InUseSurvives == Spec => ArtifactInUseSurvives
<1>1. ASSUME RegistryInv, [Next]_vars, NEW v \in table, store[used[v]] = "file"
      PROVE  store'[used[v]] = "file"
  <2>1. v \in Vms /\ used[v] \in Names
    BY <1>1 DEF RegistryInv, TypeOK, HandleInv, TableLive, LiveNamed
  <2>2. ASSUME NEW r \in Reqs, DeleteRemove(r) PROVE store'[used[v]] = "file"
    BY <1>1, <2>1, <2>2 DEF DeleteRemove, RegistryInv, DeleteInv, TypeOK, Name
  <2>3. ASSUME NEW r \in Reqs, Mkdir(r) \/ Rmdir(r) PROVE store'[used[v]] = "file"
    BY <1>1, <2>1, <2>3 DEF Mkdir, Rmdir, RegistryInv, TypeOK
  <2>4. ASSUME NEW r \in Reqs, NEW res, NEW left, Write(r, res, left)
        PROVE  store'[used[v]] = "file"
    BY <1>1, <2>1, <2>4 DEF Write, Dirs, RegistryInv, TypeOK
  <2>5. ASSUME NEW n \in Names, Upload(n) PROVE store'[used[v]] = "file"
    BY <1>1, <2>1, <2>5 DEF Upload, RegistryInv, TypeOK
  <2>6. CASE UNCHANGED store
    BY <1>1, <2>6
  <2> QED
    BY <1>1, <2>2, <2>3, <2>4, <2>5, <2>6
    DEF Next, Step, Arrive, LaunchOk, LaunchFail, Insert, Lookup, Check, Admit, Drive, Mark, Settle,
        Readback, DestroyLookup, TeardownMark, TeardownLock, TeardownRemove, TeardownShutdown,
        ShutdownList, ShutdownNext, DeleteScan, Cancel, Quiescent, vars
<1>2. RegistryInv /\ [Next]_vars =>
        [\A v \in table : store[used[v]] = "file" => store'[used[v]] = "file"]_vars
  BY <1>1
<1> QED
  BY <1>2, RegistryInvariant, PTL DEF Spec, ArtifactInUseSurvives

\* The phase and the files that the refinement mapping shows VmOwnership.
Phase == [v \in Vms |-> IF handle[v] = "live" /\ v \in table THEN "listed" ELSE handle[v]]
Files == {n \in Names : store[n] = "file"}

\* The registry implements VmOwnership.
THEOREM RefinesVmOwnership == Spec => ImplementsVmOwnership
<1> USE DEF Phase, Files, slotVars
<1>1. Init => Ownership!Init
  BY RegistryConstants DEF Init, Ownership!Init
<1>2. ASSUME RegistryInv, [Next]_vars PROVE [Ownership!Next]_(Ownership!vars)
  <2> USE DEF RegistryInv, TypeOK, Vm, Name
  <2>0. CASE UNCHANGED <<handle, table, used, store>>
    BY <2>0 DEF Ownership!vars
  <2>1. ASSUME NEW r \in Reqs, NEW v \in Vms, LaunchOk(r, v) PROVE Ownership!Next
    <3>1. Name(r) \in Names /\ v \notin table
      BY <1>2, <2>1 DEF LaunchOk, ReqInv, Launching, HandleInv, TableLive
    <3>2. Ownership!Launch(v, Name(r))
      BY <1>2, <2>1, <3>1 DEF LaunchOk, Ownership!Launch, Ownership!Move
    <3> QED
      BY <3>1, <3>2 DEF Ownership!Next
  <2>2. ASSUME NEW r \in Reqs, Insert(r) PROVE Ownership!Next
    <3>1. PICK v \in Vms : v = Vm(r) /\ handle[v] = "live" /\ v \notin table
      BY <1>2, <2>2 DEF Insert, ReqInv, HandleInv, Fresh
    <3>2. Ownership!List(v)
      BY <1>2, <2>2, <3>1 DEF Insert, Ownership!List, Ownership!Move
    <3> QED
      BY <3>1, <3>2 DEF Ownership!Next
  <2>3. ASSUME NEW r \in Reqs, TeardownRemove(r) PROVE Ownership!Next \/ UNCHANGED Ownership!vars
    <3>0. pc[r] = "dremove" /\ pc[r] \in OnSlot
      BY <2>3 DEF TeardownRemove, OnSlot, Holding
    <3>1. PICK v \in Vms : v = Vm(r) /\ \A s \in Reqs : pc[s] = "insert" => Vm(s) # v
      <4> HIDE DEF TypeOK, Vm, Name
      <4>1. Vm(r) \in Vms
        BY <1>2, <3>0 DEF ReqInv
      <4>2. ASSUME NEW s \in Reqs, pc[s] = "insert"
            PROVE  Vm(s) # Vm(r)
        BY <1>2, <3>0, <4>2 DEF HandleInv, Fresh
      <4> QED
        BY <4>1, <4>2
    <3>2. CASE handle[v] # "live"
      <4>1. v \notin table
        BY <1>2, <3>1, <3>2 DEF HandleInv, TableLive
      <4> QED
        BY <2>3, <3>1, <3>2, <4>1 DEF TeardownRemove, Ownership!vars
    <3>3. CASE handle[v] = "live"
      <4>1. v \in table
        BY <1>2, <3>1, <3>3 DEF HandleInv, LiveOwned
      <4>2. Ownership!Unlist(v)
        BY <1>2, <2>3, <3>1, <3>3, <4>1 DEF TeardownRemove, Ownership!Unlist, Ownership!Move
      <4> QED
        BY <3>1, <4>2 DEF Ownership!Next
    <3> QED
      BY <3>2, <3>3
  <2>4. ASSUME NEW r \in Reqs, NEW res, TeardownShutdown(r, res) PROVE Ownership!Next
    <3>1. PICK v \in Vms : v = Vm(r) /\ handle[v] = "stopping"
      BY <1>2, <2>4 DEF TeardownShutdown, ReqInv, HandleInv, Driven, OnSlot, Holding
    <3>2. Ownership!Stop(v)
      BY <1>2, <2>4, <3>1 DEF TeardownShutdown, Ownership!Stop, Ownership!Move
    <3> QED
      BY <3>1, <3>2 DEF Ownership!Next
  <2>5. ASSUME NEW r \in Reqs, Cancel(r) PROVE Ownership!Next \/ UNCHANGED Ownership!vars
    <3>1. CASE pc[r] \notin {"insert", "dshutdown"}
      BY <2>5, <3>1 DEF Cancel, Ownership!vars
    <3>2. CASE pc[r] = "insert"
      <4>1. PICK v \in Vms : v = Vm(r) /\ handle[v] = "live" /\ v \notin table
        BY <1>2, <3>2 DEF ReqInv, HandleInv, Fresh
      <4>2. Ownership!Abandon(v)
        BY <1>2, <2>5, <3>2, <4>1 DEF Cancel, Ownership!Abandon, Ownership!Move
      <4> QED
        BY <4>1, <4>2 DEF Ownership!Next
    <3>3. CASE pc[r] = "dshutdown"
      <4>1. PICK v \in Vms : v = Vm(r) /\ handle[v] = "stopping"
        BY <1>2, <3>3 DEF ReqInv, HandleInv, Driven, OnSlot, Holding
      <4>2. Ownership!Stop(v)
        BY <1>2, <2>5, <3>3, <4>1 DEF Cancel, Ownership!Stop, Ownership!Move
      <4> QED
        BY <4>1, <4>2 DEF Ownership!Next
    <3> QED
      BY <3>1, <3>2, <3>3
  <2>6. ASSUME NEW r \in Reqs, DeleteRemove(r) PROVE Ownership!Next
    <3>1. PICK n \in Names : n = Name(r) /\ \A v \in table : used[v] # n
      BY <1>2, <2>6 DEF DeleteRemove, ReqInv, DeleteInv
    <3>2. Files' = Files \ {n}
      BY <1>2, <2>6, <3>1 DEF DeleteRemove
    <3>3. Ownership!Delete(n)
      <4>1. \A v \in Vms : Phase[v] = "listed" => used[v] # n
        BY <1>2, <3>1 DEF HandleState
      <4> QED
        BY <2>6, <3>2, <4>1 DEF DeleteRemove, Ownership!Delete
    <3> QED
      BY <3>1, <3>3 DEF Ownership!Next
  <2>7. ASSUME NEW r \in Reqs, NEW res, NEW left, Mkdir(r) \/ Rmdir(r) \/ Write(r, res, left)
        PROVE  UNCHANGED Ownership!vars
    <3>1. Files' = Files
      BY <1>2, <2>7 DEF Mkdir, Rmdir, Write, Dirs
    <3> QED
      BY <2>7, <3>1 DEF Mkdir, Rmdir, Write, Ownership!vars
  <2>8. ASSUME NEW n \in Names, Upload(n) PROVE Ownership!Next
    <3>1. Files' = Files \cup {n}
      BY <1>2, <2>8 DEF Upload
    <3>2. Ownership!Publish(n)
      BY <2>8, <3>1 DEF Upload, Ownership!Publish
    <3> QED
      BY <3>2 DEF Ownership!Next
  <2> HIDE DEF RegistryInv, TypeOK, Phase, Files
  <2>9. ASSUME NEW r \in Reqs,
               \/ LaunchFail(r) \/ Lookup(r) \/ Check(r) \/ Admit(r) \/ Mark(r) \/ Settle(r)
               \/ \E res \in {"ok", "err"} : Drive(r, res)
               \/ Readback(r) \/ DestroyLookup(r) \/ TeardownMark(r) \/ TeardownLock(r)
               \/ ShutdownList(r) \/ ShutdownNext(r) \/ DeleteScan(r)
        PROVE  UNCHANGED <<handle, table, used, store>>
    BY <2>9
    DEF LaunchFail, Lookup, Check, Admit, Drive, Mark, Settle, Readback, DestroyLookup,
        TeardownMark, TeardownLock, ShutdownList, ShutdownNext, DeleteScan
  <2>10. ASSUME NEW r \in Reqs, Step(r) PROVE [Ownership!Next]_(Ownership!vars)
    BY <2>0, <2>1, <2>2, <2>3, <2>4, <2>6, <2>7, <2>9, <2>10 DEF Step
  <2>11. ASSUME NEW r \in Reqs, NEW o, NEW v, NEW n, Arrive(r, o, v, n)
         PROVE  UNCHANGED <<handle, table, used, store>>
    BY <2>11 DEF Arrive
  <2>12. UNCHANGED vars => UNCHANGED <<handle, table, used, store>>
    BY DEF vars
  <2> QED
    BY <1>2, <2>0, <2>5, <2>8, <2>10, <2>11, <2>12 DEF Next, Quiescent
<1>3. RegistryInv /\ [Next]_vars => [Ownership!Next]_(Ownership!vars)
  BY <1>2
<1> QED
  BY <1>1, <1>3, RegistryInvariant, PTL DEF Spec, ImplementsVmOwnership, Ownership!Spec

-----------------------------------------------------------------------------
(* What a one-shot create leaves *)

\* The create that has to take its VM away: a one-shot, or one whose command failed.
TakesAway(r) == Op(r) = "run" \/ (Op(r) = "create_exec" /\ req[r].res = "err")

\* Where a request of each kind is, when it has an outcome, and that one that had to
\* take its VM away and has returned left a VM whose handle was taken: a handle never
\* comes back, which is why the VM cannot return to the table either.
OneShot(r) ==
  /\ pc[r] \in Pinning => Op(r) = "snapshot"
  /\ pc[r] \in {"scan", "remove"} => Op(r) = "delete"
  /\ pc[r] \in {"list", "next"} => Op(r) = "shutdown_all"
  /\ pc[r] = "launch" => Vm(r) = None
  /\ pc[r] \in {"launch", "insert", "lookup", "check", "wait", "drive"} => req[r].res = "none"
  /\ pc[r] = "done" /\ Vm(r) # None /\ TakesAway(r) => handle[Vm(r)] \in {"stopping", "gone"}

OneShotInv == \A r \in Reqs : OneShot(r)

\* A handle that was taken stays taken.
TakenStays ==
  \A v \in Vms : handle[v] \in {"stopping", "gone"} => handle'[v] \in {"stopping", "gone"}

\* The other requests are not concerned.
OthersStay(r) == \A s \in Reqs : s # r => pc'[s] = pc[s] /\ req'[s] = req[s]

LEMMA OneShotFrame ==
  ASSUME TypeOK, OneShotInv, NEW r \in Reqs, OthersStay(r), TakenStays, OneShot(r)'
  PROVE  OneShotInv'
<1> SUFFICES ASSUME NEW s \in Reqs, s # r PROVE OneShot(s)'
  BY DEF OneShotInv
<1>1. pc'[s] = pc[s] /\ req'[s] = req[s] /\ OneShot(s)
  BY DEF OthersStay, OneShotInv
<1>2. Vm(s) \in Vms \cup {None}
  BY DEF TypeOK, Vm
<1> QED BY <1>1, <1>2 DEF OneShot, TakesAway, TakenStays, Op, Vm

\* The same for a step after which the request is at a point where nothing is said of it
\* but its operation and its outcome.
LEMMA OneShotMove ==
  ASSUME TypeOK, OneShotInv, NEW r \in Reqs, NEW p \in Pcs, Goto(r, p), TakenStays,
         UNCHANGED req,
         p \in Pinning => Op(r) = "snapshot",
         p \in {"list", "next"} => pc[r] = "list",
         p \in {"scan", "remove"} => Op(r) = "delete",
         p \in {"insert", "lookup", "check", "wait", "drive"} =>
           pc[r] \in {"insert", "lookup", "check", "wait"},
         p = "done" => Op(r) \in {"create", "shutdown_all"},
         p # "launch"
  PROVE  OneShotInv'
<1>1. pc'[r] = p /\ OthersStay(r) /\ req'[r] = req[r]
  BY DEF TypeOK, Goto, OthersStay
<1>2. OneShot(r) BY DEF OneShotInv
<1>3. OneShot(r)'
  BY <1>1, <1>2 DEF OneShot, TakesAway, Op, Vm
<1> QED BY <1>1, <1>3, OneShotFrame

\* And for one that returns: a create that has to take its VM away goes on to do so from
\* the command, and returns from the teardown only with the handle taken.
LEMMA OneShotReturn ==
  ASSUME TypeOK, OneShotInv, NEW r \in Reqs, NEW res \in {"ok", "err"}, Return(r, res),
         TakenStays,
         \/ pc[r] \in {"lookup", "check", "wait", "drive"} \cup Pinning
                     \cup {"launch", "scan", "remove"}
         \/ Vm(r) \in Vms /\ handle'[Vm(r)] \in {"stopping", "gone"}
            /\ pc[r] \in {"dlookup", "dremove", "dshutdown"}
  PROVE  OneShotInv'
<1>1. /\ pc'[r] = AfterOp(r, res) /\ OthersStay(r)
      /\ req'[r].op = Op(r) /\ req'[r].vm = Vm(r)
      /\ req'[r].res = IF req[r].res = "none" THEN res ELSE req[r].res
  BY DEF TypeOK, Return, Goto, OthersStay, Op, Vm
<1>2. OneShot(r) BY DEF OneShotInv
<1>3. AfterOp(r, res) \in {"dlookup", "next", "done"}
  BY DEF AfterOp
<1>4. AfterOp(r, res) = "next" => Op(r) = "shutdown_all"
  BY DEF AfterOp
<1>5. AfterOp(r, res) = "done" /\ Vm(r) # None /\ TakesAway(r)' =>
        handle'[Vm(r)] \in {"stopping", "gone"}
  <2>1. CASE pc[r] \in {"lookup", "check", "wait", "drive"}
    <3>1. req[r].res = "none" BY <1>2, <2>1 DEF OneShot
    <3> QED BY <1>1, <2>1, <3>1 DEF AfterOp, TakesAway, Op
  <2>2. CASE pc[r] \in Pinning \cup {"scan", "remove"}
    BY <1>1, <1>2, <2>2 DEF OneShot, TakesAway, Op
  <2>3. CASE pc[r] = "launch" BY <1>2, <2>3 DEF OneShot
  <2> QED BY <2>1, <2>2, <2>3
<1>6. OneShot(r)'
  BY <1>1, <1>3, <1>4, <1>5 DEF OneShot, Op, Vm, Pinning
<1> QED BY <1>1, <1>6, OneShotFrame

\* Every step keeps OneShotInv.
LEMMA NextOneShotInv == RegistryInv /\ OneShotInv /\ [Next]_vars => OneShotInv'
<1> SUFFICES ASSUME RegistryInv, OneShotInv, [Next]_vars PROVE OneShotInv'
  OBVIOUS
<1> USE DEF RegistryInv
<1>0. UNCHANGED handle => TakenStays BY DEF TakenStays
<1>1. ASSUME NEW r \in Reqs, NEW o \in Ops, NEW v \in Vms \cup {None}, NEW n \in Names \cup {None},
             Arrive(r, o, v, n)
      PROVE  OneShotInv'
  <2>1. /\ OthersStay(r) /\ TakenStays
        /\ req'[r] = [op |-> o, vm |-> v, name |-> n, res |-> "none"]
        /\ o \in Creates => v = None
        /\ pc'[r] \in {"launch", "done"} \/ (o \notin Creates /\ pc'[r] = EntryPoint(o))
        /\ pc'[r] \in {"launch", "done"} => o \in Creates
    BY <1>0, <1>1 DEF Arrive, Goto, TypeOK, OthersStay, slotVars, EntryPoint
  <2>2. /\ EntryPoint(o) \in {"dlookup", "scan", "list", "lookup"}
        /\ EntryPoint(o) = "scan" => o = "delete"
        /\ EntryPoint(o) = "list" => o = "shutdown_all"
    BY DEF EntryPoint
  <2>3. Op(r)' = o /\ Vm(r)' = v /\ req'[r].res = "none"
    BY <2>1 DEF Op, Vm
  <2>4. pc'[r] \in {"launch", "done", "dlookup", "scan", "list", "lookup"}
    BY <2>1, <2>2
  <2>5. /\ pc'[r] = "scan" => o = "delete"
        /\ pc'[r] = "list" => o = "shutdown_all"
        /\ pc'[r] \in {"launch", "done"} => v = None
    BY <2>1, <2>2
  <2>6. OneShot(r)'
    BY <2>3, <2>4, <2>5 DEF OneShot, Pinning
  <2> QED BY <2>1, <2>6, OneShotFrame
<1>2. ASSUME NEW r \in Reqs, NEW v \in Vms, LaunchOk(r, v) PROVE OneShotInv'
  <2>1. /\ pc'[r] = "insert" /\ OthersStay(r) /\ req'[r].res = req[r].res /\ TakenStays
    BY <1>2 DEF LaunchOk, Goto, TypeOK, OthersStay, TakenStays
  <2>2. OneShot(r)'
    BY <1>2, <2>1 DEF OneShotInv, OneShot, LaunchOk, Pinning
  <2> QED BY <2>1, <2>2, OneShotFrame
<1>3. ASSUME NEW r \in Reqs, LaunchFail(r) PROVE OneShotInv'
  BY <1>0, <1>3, OneShotReturn DEF LaunchFail, slotVars
<1>4. ASSUME NEW r \in Reqs, Insert(r) PROVE OneShotInv'
  <2>1. CASE Op(r) = "create"
    BY <1>0, <1>4, <2>1, OneShotMove DEF Insert, Pcs, Pinning
  <2>2. CASE Op(r) # "create"
    BY <1>0, <1>4, <2>2, OneShotMove DEF Insert, Pcs, Pinning
  <2> QED BY <2>1, <2>2
<1>5. ASSUME NEW r \in Reqs, Lookup(r) PROVE OneShotInv'
  <2>1. CASE Goto(r, "check") /\ UNCHANGED req
    BY <1>0, <1>5, <2>1, OneShotMove DEF Lookup, slotVars, Pcs, Pinning
  <2> QED BY <1>0, <1>5, <2>1, OneShotReturn DEF Lookup, slotVars
<1>6. ASSUME NEW r \in Reqs, Check(r) PROVE OneShotInv'
  <2>1. CASE Goto(r, "wait") /\ UNCHANGED req
    BY <1>0, <1>6, <2>1, OneShotMove DEF Check, slotVars, Pcs, Pinning
  <2> QED BY <1>0, <1>6, <2>1, OneShotReturn DEF Check, slotVars
<1>7. ASSUME NEW r \in Reqs, Admit(r) PROVE OneShotInv'
  <2>1. CASE Op(r) = "snapshot" /\ Goto(r, "mkdir") /\ UNCHANGED req
    BY <1>0, <1>7, <2>1, OneShotMove DEF Admit, Pcs
  <2>2. CASE Goto(r, "drive") /\ UNCHANGED req
    BY <1>0, <1>7, <2>2, OneShotMove DEF Admit, Pcs, Pinning
  <2>3. CASE Return(r, "err")
    BY <1>0, <1>7, <2>3, OneShotReturn DEF Admit
  <2> QED BY <1>7, <2>1, <2>2, <2>3 DEF Admit
<1>8. ASSUME NEW r \in Reqs, NEW res \in {"ok", "err"}, Drive(r, res) PROVE OneShotInv'
  BY <1>0, <1>8, OneShotReturn DEF Drive
<1>9. ASSUME NEW r \in Reqs, Mkdir(r) PROVE OneShotInv'
  <2>0. pc[r] = "mkdir" /\ TakenStays /\ Op(r) = "snapshot" /\ pc[r] \in Pinning
    BY <1>0, <1>9 DEF Mkdir, OneShotInv, OneShot, Pinning
  <2>1. CASE Goto(r, "mark") /\ UNCHANGED req
    BY <2>0, <2>1, OneShotMove DEF Pcs
  <2>2. CASE EndSnapshot(r, "err")
    BY <2>0, <2>2, OneShotReturn DEF EndSnapshot
  <2> QED BY <1>9, <2>1, <2>2 DEF Mkdir
<1>10. ASSUME NEW r \in Reqs, Mark(r) PROVE OneShotInv'
  <2>0. TakenStays /\ Op(r) = "snapshot"
    BY <1>0, <1>10 DEF Mark, OneShotInv, OneShot, Pinning
  <2> QED BY <1>10, <2>0, OneShotMove DEF Mark, Pcs
<1>11. ASSUME NEW r \in Reqs, NEW res \in {"ok", "err"}, NEW left \in Dirs, Write(r, res, left)
       PROVE  OneShotInv'
  <2>1. /\ pc'[r] = "settle" /\ OthersStay(r) /\ TakenStays
        /\ req'[r].op = req[r].op /\ Op(r) = "snapshot"
    BY <1>0, <1>11 DEF Write, Goto, slotVars, TypeOK, OthersStay, OneShotInv, OneShot, Pinning
  <2>2. OneShot(r)' BY <2>1 DEF OneShot, Op
  <2> QED BY <2>1, <2>2, OneShotFrame
<1>12. ASSUME NEW r \in Reqs, Settle(r) PROVE OneShotInv'
  <2>0. TakenStays /\ Op(r) = "snapshot"
    BY <1>0, <1>12 DEF Settle, OneShotInv, OneShot, Pinning
  <2>1. CASE Goto(r, "readback") /\ UNCHANGED req BY <2>0, <2>1, OneShotMove DEF Pcs
  <2>2. CASE Goto(r, "rmdir") /\ UNCHANGED req BY <2>0, <2>2, OneShotMove DEF Pcs
  <2> QED BY <1>12, <2>1, <2>2 DEF Settle
<1>13. ASSUME NEW r \in Reqs, Rmdir(r) PROVE OneShotInv'
  BY <1>0, <1>13, OneShotReturn DEF Rmdir, EndSnapshot, Pinning
<1>14. ASSUME NEW r \in Reqs, Readback(r) PROVE OneShotInv'
  <2>1. /\ pc'[r] = "done" /\ OthersStay(r) /\ TakenStays
        /\ req'[r].op = req[r].op /\ Op(r) = "snapshot"
    BY <1>0, <1>14 DEF Readback, Goto, TypeOK, OthersStay, OneShotInv, OneShot, Pinning
  <2>2. OneShot(r)' BY <2>1 DEF OneShot, TakesAway, Op, Pinning
  <2> QED BY <2>1, <2>2, OneShotFrame
<1>15. ASSUME NEW r \in Reqs, DestroyLookup(r) PROVE OneShotInv'
  <2>0. TakenStays /\ pc[r] = "dlookup" /\ pc[r] \in OnSlot
    BY <1>0, <1>15 DEF DestroyLookup, slotVars, OnSlot
  <2>1. CASE Goto(r, "dmark") /\ UNCHANGED req
    BY <2>0, <2>1, OneShotMove DEF Pcs, Pinning
  <2>2. CASE Vm(r) \notin table /\ Return(r, "err") /\ UNCHANGED handle
    <3>1. Vm(r) \in Vms /\ handle[Vm(r)] # "unborn"
      BY <2>0 DEF ReqInv, HandleInv, Born
    <3>2. \A t \in Reqs : pc[t] = "insert" => Vm(t) # Vm(r)
      BY <2>0 DEF HandleInv, Fresh
    <3>3. handle[Vm(r)] # "live" BY <2>2, <3>1, <3>2 DEF HandleInv, LiveOwned
    <3>4. handle'[Vm(r)] \in {"stopping", "gone"}
      BY <2>2, <3>1, <3>3 DEF TypeOK, HandleState
    <3> QED BY <2>0, <2>2, <3>1, <3>4, OneShotReturn
  <2> QED BY <1>15, <2>1, <2>2 DEF DestroyLookup, slotVars
<1>16. ASSUME NEW r \in Reqs, TeardownMark(r) \/ TeardownLock(r) PROVE OneShotInv'
  <2>1. CASE TeardownMark(r) BY <1>0, <2>1, OneShotMove DEF TeardownMark, Pcs, Pinning
  <2>2. CASE TeardownLock(r) BY <1>0, <2>2, OneShotMove DEF TeardownLock, Pcs, Pinning
  <2> QED BY <1>16, <2>1, <2>2
<1>17. ASSUME NEW r \in Reqs, TeardownRemove(r) PROVE OneShotInv'
  <2>0. pc[r] = "dremove" /\ Vm(r) \in Vms /\ handle[Vm(r)] # "unborn"
    BY <1>17 DEF TeardownRemove, ReqInv, HandleInv, Born, OnSlot, Holding
  <2>1. CASE /\ handle' = [handle EXCEPT ![Vm(r)] = "stopping"]
             /\ Goto(r, "dshutdown") /\ UNCHANGED req
    <3>1. TakenStays BY <2>1 DEF TakenStays, TypeOK
    <3> QED BY <2>0, <2>1, <3>1, OneShotMove DEF Pcs, Pinning
  <2>2. CASE handle[Vm(r)] # "live" /\ Return(r, "ok") /\ UNCHANGED handle
    <3>1. handle'[Vm(r)] \in {"stopping", "gone"}
      BY <2>0, <2>2 DEF TypeOK, HandleState
    <3> QED BY <1>0, <2>0, <2>2, <3>1, OneShotReturn
  <2> QED BY <1>17, <2>1, <2>2 DEF TeardownRemove
<1>18. ASSUME NEW r \in Reqs, NEW res \in {"ok", "err"}, TeardownShutdown(r, res) PROVE OneShotInv'
  <2>1. pc[r] = "dshutdown" /\ Vm(r) \in Vms
    BY <1>18 DEF TeardownShutdown, ReqInv, OnSlot, Holding
  <2>2. TakenStays /\ handle'[Vm(r)] = "gone"
    BY <1>18, <2>1 DEF TeardownShutdown, TakenStays, TypeOK
  <2> QED BY <1>18, <2>1, <2>2, OneShotReturn DEF TeardownShutdown
<1>19. ASSUME NEW r \in Reqs, ShutdownList(r) PROVE OneShotInv'
  BY <1>0, <1>19, OneShotMove DEF ShutdownList, slotVars, Pcs, Pinning
<1>20. ASSUME NEW r \in Reqs, ShutdownNext(r) PROVE OneShotInv'
  <2>0. TakenStays /\ Op(r) = "shutdown_all"
    BY <1>0, <1>20 DEF ShutdownNext, slotVars, OneShotInv, OneShot
  <2>1. CASE Goto(r, "done") /\ UNCHANGED req
    BY <2>0, <2>1, OneShotMove DEF Pcs, Pinning
  <2>2. ASSUME NEW v \in todo[r], Goto(r, "dmark"), req' = [req EXCEPT ![r].vm = v]
        PROVE  OneShotInv'
    <3>1. pc'[r] = "dmark" /\ OthersStay(r) BY <2>2 DEF Goto, TypeOK, OthersStay
    <3>2. OneShot(r)' BY <3>1 DEF OneShot, Pinning
    <3> QED BY <2>0, <3>1, <3>2, OneShotFrame
  <2> QED BY <1>20, <2>1, <2>2 DEF ShutdownNext
<1>21. ASSUME NEW r \in Reqs, DeleteScan(r) PROVE OneShotInv'
  <2>0. TakenStays /\ pc[r] = "scan" /\ Op(r) = "delete"
    BY <1>0, <1>21 DEF DeleteScan, slotVars, OneShotInv, OneShot
  <2>1. CASE Goto(r, "remove") /\ UNCHANGED req
    BY <2>0, <2>1, OneShotMove DEF Pcs, Pinning
  <2>2. CASE Return(r, "err") BY <2>0, <2>2, OneShotReturn
  <2> QED BY <1>21, <2>1, <2>2 DEF DeleteScan
<1>22. ASSUME NEW r \in Reqs, DeleteRemove(r) PROVE OneShotInv'
  <2>1. TakenStays /\ pc[r] = "remove" BY <1>0, <1>22 DEF DeleteRemove, slotVars
  <2>2. PICK res \in {"ok", "err"} : Return(r, res) BY <1>22 DEF DeleteRemove
  <2> QED BY <2>1, <2>2, OneShotReturn
<1>23. ASSUME NEW r \in Reqs, Cancel(r) PROVE OneShotInv'
  <2>1. TakenStays BY <1>23 DEF Cancel, TakenStays, TypeOK
  <2> QED BY <1>23, <2>1, OneShotMove DEF Cancel, Pcs, Pinning
<1>24. ASSUME NEW n \in Names, Upload(n) PROVE OneShotInv'
  BY <1>24 DEF Upload, slotVars, OneShotInv, OneShot, TakesAway, Op, Vm
<1>25. CASE UNCHANGED vars
  BY <1>25 DEF vars, slotVars, OneShotInv, OneShot, TakesAway, Op, Vm
<1>26. ASSUME NEW r \in Reqs, Step(r) PROVE OneShotInv'
  BY <1>2, <1>3, <1>4, <1>5, <1>6, <1>7, <1>8, <1>9, <1>10, <1>11, <1>12, <1>13, <1>14, <1>15,
     <1>16, <1>17, <1>18, <1>19, <1>20, <1>21, <1>22, <1>26 DEF Step
<1> QED
  BY <1>1, <1>23, <1>24, <1>25, <1>26 DEF Next, Quiescent

\* A one-shot VM, and a VM whose inline command could not be run, is out of the table
\* when its create returns (registry.rs, create and destroy), whoever else destroys it.
THEOREM EphemeralIsGone == Spec => []EphemeralLeavesNoVm
<1>1. Init => OneShotInv
  BY DEF Init, OneShotInv, OneShot, Pinning
<1>2. RegistryInv /\ OneShotInv => EphemeralLeavesNoVm
  <2> SUFFICES ASSUME RegistryInv, OneShotInv, NEW r \in Reqs, pc[r] = "done", Vm(r) # None,
                      TakesAway(r)
               PROVE  Vm(r) \notin table
    BY DEF EphemeralLeavesNoVm, TakesAway
  <2>1. handle[Vm(r)] \in {"stopping", "gone"} BY DEF OneShotInv, OneShot
  <2> QED BY <2>1 DEF RegistryInv, HandleInv, TableLive
<1> QED BY <1>1, <1>2, RegistryInvariant, NextOneShotInv, PTL DEF Spec
=============================================================================
