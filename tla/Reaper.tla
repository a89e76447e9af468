------------------------------- MODULE Reaper -------------------------------
(***************************************************************************)
(* The steward as reaper of the guest (vmcell-steward/src/lib.rs, run.rs): *)
(* the ReaperCoordinator that hands every exit status to the one thread    *)
(* waiting for it, the threads that spawn, wait for and kill a command     *)
(* (exec.rs, session.rs, serve.rs), and the kernel's pids, which it hands  *)
(* out again once nobody uses them as a pid or as a process group.         *)
(*                                                                         *)
(* A job is one exec or session; its child goes by the job's name.  An     *)
(* orphan is a process a child leaves behind.  An exit code is the name of *)
(* the process it belongs to, so that a mixed-up code shows.               *)
(***************************************************************************)
EXTENDS Naturals, FiniteSets

CONSTANTS
  Jobs,
  SessionJobs,   \* the jobs that are sessions
  Orphans,
  GuestPids,
  MaxStatuses,   \* max_statuses
  MaxKills,      \* bound: kills aimed at one job
  ShortWindows,  \* pids do not wrap, nor statuses age out, within a few instructions
  NoOne

ASSUME ReaperConstants ==
  /\ SessionJobs \subseteq Jobs
  /\ Jobs \cap Orphans = {}
  /\ MaxStatuses \in Nat \ {0}
  /\ MaxKills \in Nat
  /\ ShortWindows \in BOOLEAN
  /\ NoOne \notin Jobs \cup Orphans \cup GuestPids

Procs == Jobs \cup Orphans

VARIABLES
  proc,          \* the kernel's process table
  statuses,      \* [GuestPids -> the status recorded for the pid, or NoOne]
  waiting,       \* pids a waiter is blocked on
  reservations,  \* [GuestPids -> the epoch a spawner reserved the pid with, or NoOne]
  generation,    \* statuses recorded so far
  jobPc,         \* where a job's spawner, then its waiter, is
  epoch,         \* the job's pre_spawn_epoch
  code,          \* the code the job's waiter got
  fire,          \* a thread about to signal the job's process group
  kills,         \* kills aimed at the job
  stray          \* kinds of kill that hit a process of another job

coordinatorVars == <<statuses, waiting, reservations, generation>>
killerVars == <<fire, kills, stray>>
reaperVars == <<proc, coordinatorVars, jobPc, epoch, code, killerVars>>

\* The child is not reaped, or its waiter has not stored has_exited.
Unexited == {"spawned", "reserved", "wait", "claimed"}

ReaperTypeOK ==
  /\ proc \in [Procs -> [st : {"none", "run", "zombie", "gone"}, pid : GuestPids \cup {NoOne},
                         pgid : GuestPids \cup {NoOne}, root : Jobs \cup {NoOne}, pipe : BOOLEAN]]
  /\ statuses \in [GuestPids -> [who : Procs, at : Nat \ {0}] \cup {NoOne}]
  /\ waiting \subseteq GuestPids
  /\ reservations \in [GuestPids -> Nat \cup {NoOne}]
  /\ generation \in Nat
  /\ jobPc \in [Jobs -> Unexited \cup {"new", "epoch", "exited", "done", "failed", "abandoned"}]
  /\ epoch \in [Jobs -> Nat]
  /\ code \in [Jobs -> Procs \cup {NoOne}]
  /\ fire \in [Jobs -> {NoOne, "guarded", "plain"}]
  /\ kills \in [Jobs -> 0..MaxKills]
  /\ stray \subseteq {"guarded", "plain"}

ReaperInit ==
  /\ proc = [x \in Procs |->
               [st |-> "none", pid |-> NoOne, pgid |-> NoOne, root |-> NoOne, pipe |-> FALSE]]
  /\ statuses = [p \in GuestPids |-> NoOne]
  /\ waiting = {}
  /\ reservations = [p \in GuestPids |-> NoOne]
  /\ generation = 0
  /\ jobPc = [j \in Jobs |-> "new"]
  /\ epoch = [j \in Jobs |-> 0]
  /\ code = [j \in Jobs |-> NoOne]
  /\ fire = [j \in Jobs |-> NoOne]
  /\ kills = [j \in Jobs |-> 0]
  /\ stray = {}

JobGoto(j, state) == jobPc' = [jobPc EXCEPT ![j] = state]
Pid(j) == proc[j].pid
InTable(x) == proc[x].st \in {"run", "zombie"}
Recorded(p, since) == statuses[p] # NoOne /\ statuses[p].at > since

-----------------------------------------------------------------------------
(* The kernel *)

\* Some job is a few instructions away from naming p in a call of its own.
InWindow(p) ==
  \E j \in Jobs : Pid(j) = p /\ (jobPc[j] \in Unexited \/ fire[j] # NoOne)

FreePid(p) ==
  /\ \A x \in Procs : InTable(x) => p \notin {proc[x].pid, proc[x].pgid}
  /\ ShortWindows => ~InWindow(p)

\* A process leaves a child behind, in its own process group or in a new one
\* (setsid), with or without the standard output it inherited.
Daemonize(o) ==
  /\ proc[o].st = "none"
  /\ \E j \in Jobs, p \in GuestPids, setsid, pipe \in BOOLEAN :
       /\ proc[j].st = "run" /\ FreePid(p)
       /\ proc' = [proc EXCEPT ![o] =
                     [st |-> "run", pid |-> p, root |-> j, pipe |-> pipe,
                      pgid |-> IF setsid THEN p ELSE proc[j].pgid]]
  /\ UNCHANGED <<coordinatorVars, jobPc, epoch, code, killerVars>>

ProcExit(x) ==
  /\ proc[x].st = "run"
  /\ proc' = [proc EXCEPT ![x].st = "zombie"]
  /\ UNCHANGED <<coordinatorVars, jobPc, epoch, code, killerVars>>

-----------------------------------------------------------------------------
(* The reaper thread: drain_zombies *)

Pruned(s, gen) ==
  IF Cardinality({p \in GuestPids : s[p] # NoOne}) > MaxStatuses
  THEN [p \in GuestPids |-> IF s[p] # NoOne /\ (p \in waiting \/ gen - s[p].at < MaxStatuses)
                       THEN s[p] ELSE NoOne]
  ELSE s

Stamp == generation + 1

\* One waitpid(WNOHANG) and its record, under the coordinator's lock.  An
\* orphan is the steward's to reap once the process that left it is gone.
Reap(x) ==
  LET p == proc[x].pid
      gen == Stamp
      recorded == [statuses EXCEPT ![p] = [who |-> x, at |-> gen]] IN
  /\ proc[x].st = "zombie"
  /\ x \in Orphans => proc[proc[x].root].st # "run"
  /\ ShortWindows => \A j \in Jobs :
       jobPc[j] \in {"spawned", "reserved"} /\ Recorded(Pid(j), epoch[j])
         => Pruned(recorded, gen)[Pid(j)] # NoOne
  /\ proc' = [proc EXCEPT ![x].st = "gone"]
  /\ statuses' = Pruned(recorded, gen)
  /\ generation' = generation + 1
  /\ UNCHANGED <<waiting, reservations, jobPc, epoch, code, killerVars>>

-----------------------------------------------------------------------------
(* The thread that runs a command, and the waiter it starts *)

PreSpawnEpoch(j) ==
  /\ jobPc[j] = "new"
  /\ epoch' = [epoch EXCEPT ![j] = generation]
  /\ JobGoto(j, "epoch")
  /\ UNCHANGED <<proc, coordinatorVars, code, killerVars>>

\* The child leads a process group of its own.
Spawn(j) ==
  /\ jobPc[j] = "epoch"
  /\ \/ \E p \in GuestPids :
          /\ FreePid(p)
          /\ ShortWindows => ~Recorded(p, epoch[j])
          /\ proc' = [proc EXCEPT ![j] =
                        [st |-> "run", pid |-> p, pgid |-> p, root |-> j, pipe |-> TRUE]]
          /\ JobGoto(j, "spawned")
     \/ JobGoto(j, "failed") /\ UNCHANGED proc
  /\ UNCHANGED <<coordinatorVars, epoch, code, killerVars>>

\* Mutant: the last status before the epoch counts as after it.
RecordedSince(status, since) == status.at >= since

RecordedAfter(status, since) == status.at > since

\* Mutant: whatever status the pid has is thrown away.
StaleAlways(p, since) == statuses[p] # NoOne

Stale(p, since) == statuses[p] # NoOne /\ ~RecordedAfter(statuses[p], since)

Reserve(j) ==
  /\ jobPc[j] = "spawned"
  /\ statuses' = IF Stale(Pid(j), epoch[j]) THEN [statuses EXCEPT ![Pid(j)] = NoOne] ELSE statuses
  /\ reservations' = [reservations EXCEPT ![Pid(j)] = epoch[j]]
  /\ JobGoto(j, "reserved")
  /\ UNCHANGED <<proc, waiting, generation, epoch, code, killerVars>>

CancelReservation(p) == [reservations EXCEPT ![p] = NoOne]

\* kill(-pgid): every process of the group dies.
Hit(p) == {x \in Procs : proc[x].st = "run" /\ proc[x].pgid = p}

KillGroup(j, kind) ==
  /\ proc' = [x \in Procs |-> IF x \in Hit(Pid(j)) THEN [proc[x] EXCEPT !.st = "zombie"] ELSE proc[x]]
  /\ stray' = stray \cup {k \in {kind} : \E x \in Hit(Pid(j)) : proc[x].root # j}

\* A session whose id is taken, or whose terminal cannot be cloned: the child
\* is killed and no waiter is started for it.
Abandon(j) ==
  /\ j \in SessionJobs /\ jobPc[j] = "reserved"
  /\ KillGroup(j, "guarded")
  /\ reservations' = CancelReservation(Pid(j))
  /\ JobGoto(j, "abandoned")
  /\ UNCHANGED <<statuses, waiting, generation, epoch, code, fire, kills>>

\* wait_for, on entry and whenever the condition variable wakes it.
WaitFor(j) ==
  LET p == Pid(j)
      status == statuses[p]
      accept == status # NoOne /\ RecordedAfter(status, epoch[j]) IN
  /\ jobPc[j] \in {"reserved", "wait"}
  /\ statuses' = [statuses EXCEPT ![p] = NoOne]
  /\ IF accept
     THEN /\ code' = [code EXCEPT ![j] = status.who]
          /\ waiting' = waiting \ {p}
          /\ reservations' = CancelReservation(p)
          /\ JobGoto(j, "claimed")
     ELSE /\ waiting' = waiting \cup {p}
          /\ JobGoto(j, "wait")
          /\ UNCHANGED <<code, reservations>>
  /\ UNCHANGED <<proc, generation, epoch, killerVars>>

HasExited(j) ==
  /\ jobPc[j] = "claimed"
  /\ JobGoto(j, "exited")
  /\ UNCHANGED <<proc, coordinatorVars, epoch, code, killerVars>>

\* The pumps end when nobody holds the command's output any more; then the
\* exit is sent and the job leaves its connection's table.
Finish(j) ==
  /\ jobPc[j] = "exited"
  /\ \A x \in Procs : proc[x].root = j /\ proc[x].pipe => proc[x].st # "run"
  /\ JobGoto(j, "done")
  /\ UNCHANGED <<proc, coordinatorVars, epoch, code, killerVars>>

-----------------------------------------------------------------------------
(* The threads that kill: timeouts, CloseSession, the end of a connection *)

\* kill_unexited and the timeout threads look at has_exited first.
KillUnexited(j) == jobPc[j] \in {"reserved", "wait", "claimed"}

Aim(j) ==
  /\ fire[j] = NoOne /\ kills[j] < MaxKills
  /\ \/ KillUnexited(j) /\ fire' = [fire EXCEPT ![j] = "guarded"]
     \/ j \in SessionJobs /\ jobPc[j] = "exited" /\ fire' = [fire EXCEPT ![j] = "plain"]
  /\ kills' = [kills EXCEPT ![j] = @ + 1]
  /\ UNCHANGED <<proc, coordinatorVars, jobPc, epoch, code, stray>>

Fire(j) ==
  /\ fire[j] # NoOne
  /\ KillGroup(j, fire[j])
  /\ fire' = [fire EXCEPT ![j] = NoOne]
  /\ UNCHANGED <<coordinatorVars, jobPc, epoch, code, kills>>

-----------------------------------------------------------------------------
ReaperJobStep(j) ==
  \/ PreSpawnEpoch(j) \/ Spawn(j) \/ Reserve(j) \/ Abandon(j)
  \/ WaitFor(j) \/ HasExited(j) \/ Finish(j)

ReaperNext ==
  \/ \E x \in Procs : ProcExit(x) \/ Reap(x)
  \/ \E o \in Orphans : Daemonize(o)
  \/ \E j \in Jobs : ReaperJobStep(j) \/ Aim(j) \/ Fire(j)

\* SIGCHLD wakes the reaper for every zombie, and a woken thread runs.
ReaperFairness ==
  /\ \A x \in Procs : WF_reaperVars(Reap(x))
  /\ \A j \in Jobs : WF_reaperVars(Reserve(j)) /\ WF_reaperVars(WaitFor(j))

ReaperSpec == ReaperInit /\ [][ReaperNext]_reaperVars /\ ReaperFairness

-----------------------------------------------------------------------------
(* What the coordinator promises *)

\* A waiter gets the exit code of its own child, never that of a process that
\* had the same pid before (ReaperCoordinator::reserve and wait_for).
OwnExitCode == \A j \in Jobs : code[j] \in {NoOne, j}

\* Nothing reserves a pid but a spawner that will claim its status, so that no
\* reservation outlives its job (reservations are never pruned).
ReservationIsClaimed ==
  \A p \in GuestPids : reservations[p] # NoOne =>
    \E j \in Jobs : Pid(j) = p /\ jobPc[j] \in {"reserved", "wait"}

\* Orphans nobody waits for cannot fill the status map (record's prune).
StatusesBounded ==
  Cardinality({p \in GuestPids : statuses[p] # NoOne}) <= MaxStatuses + Cardinality(waiting)

\* A kill that has seen has_exited unset hits processes of its own job only.
GuardedKillHitsOwnGroup == "guarded" \notin stray

\* A waiter whose child has exited gets a code: its status is neither thrown
\* away by a reservation nor pruned from under it.
ExitReachesWaiter ==
  \A j \in Jobs : (jobPc[j] = "wait" /\ proc[j].st \in {"zombie", "gone"}) ~> (jobPc[j] # "wait")

\* What the coordinator owes its waiters: their own child's code, no reservation
\* that stays, a bounded status map and no guarded kill that goes astray.
ReaperSafe ==
  /\ ReaperTypeOK
  /\ OwnExitCode
  /\ ReservationIsClaimed
  /\ StatusesBounded
  /\ GuardedKillHitsOwnGroup
=============================================================================
