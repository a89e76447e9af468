------------------------------ MODULE IdClaim -------------------------------
(***************************************************************************)
(* The cross-process claim of vmids and segids (orchestrator.rs, FsIdClaim *)
(* under VmidAllocator and SegmentIdAllocator): any number of processes    *)
(* share a directory with, for each id, a lock file that names the pid of  *)
(* its owner and a coordination file on which claimers take an flock.      *)
(*                                                                         *)
(* An allocator is the mutex-protected set `active` of one process.  Every *)
(* call holds that mutex throughout, so an allocator runs one call at a    *)
(* time; calls of different allocators interleave at every system call.    *)
(* The search order (rotated by a clock) is left open.                     *)
(***************************************************************************)
EXTENDS FiniteSets

CONSTANTS
  Pids,
  Allocs,
  PidOf,   \* [Allocs -> Pids]: two allocators may live in one process
  Ids,     \* 1..MAX_VMID or 1..MAX_SEGMENT_ID
  None

ASSUME IdClaimConstants ==
  /\ PidOf \in [Allocs -> Pids]
  /\ None \notin Pids \cup Allocs \cup Ids

VARIABLES
  alive,     \* the pids with a /proc entry
  lockfile,  \* [Ids -> the pid in <id>.lock, None when there is no such file]
  coord,     \* [Ids -> the allocator that holds the flock on <id>.coord]
  active,    \* [Allocs -> the ids it has handed out]
  pc,        \* [Allocs -> the next system call of the allocator's call]
  search,    \* [Allocs -> the ids the call has still to try]
  cand       \* [Allocs -> the id it is trying]

vars == <<alive, lockfile, coord, active, pc, search, cand>>

Pcs == {"idle", "search", "flock", "read", "unlink", "link"}

\* Where a call holds the flock on its candidate.
Flocked == {"read", "unlink", "link"}

TypeOK ==
  /\ alive \in SUBSET Pids
  /\ lockfile \in [Ids -> Pids \cup {None}]
  /\ coord \in [Ids -> Allocs \cup {None}]
  /\ active \in [Allocs -> SUBSET Ids]
  /\ pc \in [Allocs -> Pcs]
  /\ search \in [Allocs -> SUBSET Ids]
  /\ cand \in [Allocs -> Ids \cup {None}]

Init ==
  /\ alive = Pids
  /\ lockfile = [id \in Ids |-> None]
  /\ coord = [id \in Ids |-> None]
  /\ active = [a \in Allocs |-> {}]
  /\ pc = [a \in Allocs |-> "idle"]
  /\ search = [a \in Allocs |-> {}]
  /\ cand = [a \in Allocs |-> None]

Up(a) == PidOf[a] \in alive

\* owner_is_live: a missing, empty or stale lock file has no live owner.
OwnerIsLive(id) == lockfile[id] \in alive

-----------------------------------------------------------------------------
(* allocate and reserve *)

\* allocate() searches the whole range, reserve(id) the one id.
Begin(a, ids) ==
  /\ Up(a) /\ pc[a] = "idle"
  /\ pc' = [pc EXCEPT ![a] = "search"]
  /\ search' = [search EXCEPT ![a] = ids]
  /\ UNCHANGED <<alive, lockfile, coord, active, cand>>

\* The next id of the search; one this allocator has out already is passed over.
Try(a, id) ==
  /\ Up(a) /\ pc[a] = "search"
  /\ id \in search[a]
  /\ search' = [search EXCEPT ![a] = search[a] \ {id}]
  /\ cand' = [cand EXCEPT ![a] = id]
  /\ pc' = [pc EXCEPT ![a] = IF id \in active[a] THEN "search" ELSE "flock"]
  /\ UNCHANGED <<alive, lockfile, coord, active>>

\* Exhaustion.
GiveUp(a) ==
  /\ Up(a) /\ pc[a] = "search"
  /\ search[a] = {}
  /\ pc' = [pc EXCEPT ![a] = "idle"]
  /\ UNCHANGED <<alive, lockfile, coord, active, search, cand>>

\* Mutant: the coordination lock is not waited for.
FlockShared(a) ==
  /\ Up(a) /\ pc[a] = "flock"
  /\ coord' = [coord EXCEPT ![cand[a]] = a]
  /\ pc' = [pc EXCEPT ![a] = "read"]
  /\ UNCHANGED <<alive, lockfile, active, search, cand>>

\* try_claim: flock(LOCK_EX) on <id>.coord.
Flock(a) ==
  /\ Up(a) /\ pc[a] = "flock"
  /\ coord[cand[a]] = None
  /\ coord' = [coord EXCEPT ![cand[a]] = a]
  /\ pc' = [pc EXCEPT ![a] = "read"]
  /\ UNCHANGED <<alive, lockfile, active, search, cand>>

\* The coordination file is closed and try_claim returns: taken, so the search
\* goes on.
Taken(a) ==
  /\ coord' = [coord EXCEPT ![cand[a]] = None]
  /\ pc' = [pc EXCEPT ![a] = "search"]

ReadOwner(a) ==
  /\ Up(a) /\ pc[a] = "read"
  /\ IF OwnerIsLive(cand[a])
     THEN Taken(a)
     ELSE pc' = [pc EXCEPT ![a] = "unlink"] /\ UNCHANGED coord
  /\ UNCHANGED <<alive, lockfile, active, search, cand>>

\* remove_file of the stale lock; one that is not there is no error.
Unlink(a) ==
  /\ Up(a) /\ pc[a] = "unlink"
  /\ lockfile' = [lockfile EXCEPT ![cand[a]] = None]
  /\ pc' = [pc EXCEPT ![a] = "link"]
  /\ UNCHANGED <<alive, coord, active, search, cand>>

\* atomic_claim: hard_link of a file that carries the pid already, then
\* active.insert; a lock file that is there is someone else's claim.
Link(a) ==
  /\ Up(a) /\ pc[a] = "link"
  /\ IF lockfile[cand[a]] = None
     THEN /\ lockfile' = [lockfile EXCEPT ![cand[a]] = PidOf[a]]
          /\ active' = [active EXCEPT ![a] = active[a] \cup {cand[a]}]
          /\ coord' = [coord EXCEPT ![cand[a]] = None]
          /\ pc' = [pc EXCEPT ![a] = "idle"]
     ELSE Taken(a) /\ UNCHANGED <<lockfile, active>>
  /\ UNCHANGED <<alive, search, cand>>

\* Any system call of try_claim fails: claim_io_error ends the whole call.
ClaimIoError(a) ==
  /\ Up(a) /\ pc[a] \in Flocked \cup {"flock"}
  /\ coord' = IF pc[a] \in Flocked THEN [coord EXCEPT ![cand[a]] = None] ELSE coord
  /\ pc' = [pc EXCEPT ![a] = "idle"]
  /\ UNCHANGED <<alive, lockfile, active, search, cand>>

-----------------------------------------------------------------------------
(* release *)

\* Mutant: the lock file goes first, and the id stays in `active`.
ReleaseKeepsActive(a, id) ==
  /\ Up(a) /\ pc[a] = "idle"
  /\ id \in active[a]
  /\ lockfile' = [lockfile EXCEPT ![id] = None]
  /\ UNCHANGED <<alive, coord, active, pc, search, cand>>

\* active.remove, then remove_file with no flock held and no look at the pid.
Release(a, id) ==
  /\ Up(a) /\ pc[a] = "idle"
  /\ id \in active[a]
  /\ active' = [active EXCEPT ![a] = active[a] \ {id}]
  /\ lockfile' = [lockfile EXCEPT ![id] = None]
  /\ UNCHANGED <<alive, coord, pc, search, cand>>

\* The removal fails and is only logged: the lock file stays, with this pid.
ReleaseFails(a, id) ==
  /\ Up(a) /\ pc[a] = "idle"
  /\ id \in active[a]
  /\ active' = [active EXCEPT ![a] = active[a] \ {id}]
  /\ UNCHANGED <<alive, lockfile, coord, pc, search, cand>>

-----------------------------------------------------------------------------
(* The host *)

\* A process dies at any point: the kernel drops its flocks, its files stay.
Crash(p) ==
  /\ p \in alive
  /\ alive' = alive \ {p}
  /\ coord' = [id \in Ids |-> IF coord[id] # None /\ PidOf[coord[id]] = p
                              THEN None ELSE coord[id]]
  /\ active' = [a \in Allocs |-> IF PidOf[a] = p THEN {} ELSE active[a]]
  /\ pc' = [a \in Allocs |-> IF PidOf[a] = p THEN "idle" ELSE pc[a]]
  /\ UNCHANGED <<lockfile, search, cand>>

\* The pid is used again, by a process that knows nothing of the first one.
PidReused(p) ==
  /\ p \notin alive
  /\ alive' = alive \cup {p}
  /\ UNCHANGED <<lockfile, coord, active, pc, search, cand>>

Step(a) ==
  \/ \E id \in Ids : Try(a, id)
  \/ GiveUp(a) \/ Flock(a) \/ ReadOwner(a) \/ Unlink(a) \/ Link(a)

Next ==
  \/ \E a \in Allocs : \/ Begin(a, Ids)
                       \/ \E id \in Ids : Begin(a, {id})
                       \/ Step(a) \/ ClaimIoError(a)
                       \/ \E id \in Ids : Release(a, id) \/ ReleaseFails(a, id)
  \/ \E p \in Pids : Crash(p) \/ PidReused(p)

Spec == Init /\ [][Next]_vars

-----------------------------------------------------------------------------
(* Properties *)

\* No id is out from two allocators at once, in one process or in two.
ClaimExclusive ==
  \A a, b \in Allocs : a # b => active[a] \cap active[b] = {}

\* An id that is out has the lock file of a live process, so a sweep that asks
\* claim_state for it is told LiveOwner and retains what is named after it.
HeldIdHasLiveOwner ==
  \A a \in Allocs : \A id \in active[a] : OwnerIsLive(id)

\* A claimer that gets as far as the hard link has won: under the flock nobody
\* can have put a lock file back.
LinkFindsNoLock == \A a \in Allocs : pc[a] = "link" => lockfile[cand[a]] = None

Pool == INSTANCE IdPool WITH held <- active

\* The allocators of all processes implement one pool of ids.
ImplementsIdPool == Pool!Spec

=============================================================================
