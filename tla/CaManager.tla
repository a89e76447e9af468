------------------------------ MODULE CaManager ------------------------------
(***************************************************************************)
(* The proxy's certificate authority in the shared artifacts directory     *)
(* (proxy/tls.rs).                                                         *)
(*                                                                         *)
(* The threads of several processes ask for the authority of one           *)
(* directory.  A process keeps it in a cache under a mutex; the directory  *)
(* keeps it as the pair ca.pem and ca.key, published by two renames under  *)
(* an flock.  A process may be killed anywhere, a write or a rename may    *)
(* fail, and one file of the pair may be lost.  The images that rootfs     *)
(* builds bake ca.pem into outlive all of this.                            *)
(***************************************************************************)
EXTENDS Naturals, FiniteSets

CONSTANTS
    CaProcs, CaThreads,     \* bound: the processes, the threads of each
    MaxMints,               \* bound: authorities minted
    MaxHurts,               \* bound: processes killed, operations failed
    NoCa

Callers == CaProcs \X CaThreads
Cas == 1 .. MaxMints

ASSUME CaConstants == MaxMints \in Nat /\ MaxHurts \in Nat /\ NoCa \notin Cas \cup Callers

ProcOf(t) == t[1]

VARIABLES
    caPc,       \* where a call of new_in is
    caCache,    \* CA_CACHE's entry of the directory, in each process
    caMutex,    \* its holder, in each process
    caLock,     \* the holder of .ca.lock
    caDisk,     \* ca.pem and ca.key
    caTmp,      \* ca.pem.tmp and ca.key.tmp
    caHas,      \* the authority a call has read or minted
    caMinted,   \* history: authorities minted
    caShown,    \* history: authorities presented to a guest or baked
    caRefused,  \* history: a call found half a pair
    caHurts, caLost

caVars == <<caPc, caCache, caMutex, caLock, caDisk, caTmp, caHas, caMinted, caShown,
            caRefused, caHurts, caLost>>

CaTypeOK ==
    /\ caPc \in [Callers -> {"idle", "cache", "flock", "look", "load", "tmp", "key", "cert",
                             "publish", "ok", "failed"}]
    /\ caCache \in [CaProcs -> Cas \cup {NoCa}]
    /\ caMutex \in [CaProcs -> Callers \cup {NoCa}]
    /\ caLock \in Callers \cup {NoCa}
    /\ {caDisk, caTmp} \subseteq [pem : Cas \cup {NoCa}, key : Cas \cup {NoCa}]
    /\ caHas \in [Callers -> Cas \cup {NoCa}]
    /\ caMinted \in 0 .. MaxMints /\ caShown \subseteq Cas
    /\ caHurts \in 0 .. MaxHurts /\ {caLost, caRefused} \subseteq BOOLEAN

CaInit ==
    /\ caPc = [t \in Callers |-> "idle"]
    /\ caCache = [p \in CaProcs |-> NoCa] /\ caMutex = [p \in CaProcs |-> NoCa]
    /\ caLock = NoCa
    /\ caDisk = [pem |-> NoCa, key |-> NoCa] /\ caTmp = [pem |-> NoCa, key |-> NoCa]
    /\ caHas = [t \in Callers |-> NoCa]
    /\ caMinted = 0 /\ caShown = {} /\ caRefused = FALSE /\ caHurts = 0 /\ caLost = FALSE

-----------------------------------------------------------------------------
(* new_in *)

caWorld == <<caShown, caRefused, caHurts, caLost>>

GoTo(t, s) == caPc' = [caPc EXCEPT ![t] = s]

\* The guards of the cache and of the flock are dropped where new_in returns.
Unlocked(t) ==
    /\ caMutex' = [caMutex EXCEPT ![ProcOf(t)] = NoCa]
    /\ caLock' = IF caLock = t THEN NoCa ELSE caLock

TakeMutex(t) ==
    /\ caPc[t] = "idle" /\ caMutex[ProcOf(t)] = NoCa
    /\ caMutex' = [caMutex EXCEPT ![ProcOf(t)] = t]
    /\ GoTo(t, "cache")
    /\ UNCHANGED <<caCache, caLock, caDisk, caTmp, caHas, caMinted, caWorld>>

\* The fast path.
LookInCache(t) ==
    LET has == caCache[ProcOf(t)] IN
    /\ caPc[t] = "cache"
    /\ IF has # NoCa
       THEN /\ GoTo(t, "ok") /\ Unlocked(t) /\ caHas' = [caHas EXCEPT ![t] = has]
       ELSE /\ GoTo(t, "flock") /\ UNCHANGED <<caMutex, caLock, caHas>>
    /\ UNCHANGED <<caCache, caDisk, caTmp, caMinted, caWorld>>

\* flock(LOCK_EX)
Lockable == caLock = NoCa

TakeCaLock(t) ==
    /\ caPc[t] = "flock" /\ Lockable
    /\ caLock' = t /\ GoTo(t, "look")
    /\ UNCHANGED <<caCache, caMutex, caDisk, caTmp, caHas, caMinted, caWorld>>

\* Mutant: half a pair is minted anew.
HalfNever == FALSE
\* cert_exists != key_exists
Half == (caDisk.pem = NoCa) # (caDisk.key = NoCa)

LookAtPair(t) ==
    /\ caPc[t] = "look"
    /\ IF Half
       THEN /\ GoTo(t, "failed") /\ Unlocked(t)
            /\ caRefused' = TRUE /\ UNCHANGED <<caMinted, caHas>>
       ELSE IF caDisk.pem # NoCa /\ caDisk.key # NoCa
       THEN /\ GoTo(t, "load") /\ UNCHANGED <<caMutex, caLock, caMinted, caHas, caRefused>>
       ELSE /\ caMinted < MaxMints /\ caMinted' = caMinted + 1
            /\ caHas' = [caHas EXCEPT ![t] = caMinted + 1]
            /\ GoTo(t, "tmp") /\ UNCHANGED <<caMutex, caLock, caRefused>>
    /\ UNCHANGED <<caCache, caDisk, caTmp, caShown, caHurts, caLost>>

\* Both files are read, and Issuer::from_ca_cert_pem takes them as they are; a file
\* that was lost meanwhile fails the call.
LoadPair(t) ==
    /\ caPc[t] = "load"
    /\ IF NoCa \in {caDisk.pem, caDisk.key}
       THEN GoTo(t, "failed") /\ Unlocked(t) /\ UNCHANGED caHas
       ELSE /\ caHas' = [caHas EXCEPT ![t] = caDisk.pem]
            /\ GoTo(t, "publish") /\ UNCHANGED <<caMutex, caLock>>
    /\ UNCHANGED <<caCache, caDisk, caTmp, caMinted, caWorld>>

WriteTmp(t) ==
    /\ caPc[t] = "tmp"
    /\ caTmp' = [pem |-> caHas[t], key |-> caHas[t]] /\ GoTo(t, "key")
    /\ UNCHANGED <<caCache, caMutex, caLock, caDisk, caHas, caMinted, caWorld>>

\* rename takes the file that bears the name.
RenameKey(t) ==
    /\ caPc[t] = "key" /\ caTmp.key # NoCa
    /\ caDisk' = [caDisk EXCEPT !.key = caTmp.key] /\ caTmp' = [caTmp EXCEPT !.key = NoCa]
    /\ GoTo(t, "cert")
    /\ UNCHANGED <<caCache, caMutex, caLock, caHas, caMinted, caWorld>>

RenameCert(t) ==
    /\ caPc[t] = "cert" /\ caTmp.pem # NoCa
    /\ caDisk' = [caDisk EXCEPT !.pem = caTmp.pem] /\ caTmp' = [caTmp EXCEPT !.pem = NoCa]
    /\ GoTo(t, "publish")
    /\ UNCHANGED <<caCache, caMutex, caLock, caHas, caMinted, caWorld>>

\* The cache, then both guards.
PublishCa(t) ==
    /\ caPc[t] = "publish"
    /\ caCache' = [caCache EXCEPT ![ProcOf(t)] = caHas[t]]
    /\ GoTo(t, "ok") /\ Unlocked(t)
    /\ UNCHANGED <<caDisk, caTmp, caHas, caMinted, caWorld>>

\* `?`: the guards are dropped.
FailedFrees(t) == Unlocked(t)

\* Creating, writing or renaming fails.
FailCaCall(t) ==
    /\ caPc[t] \in {"flock", "tmp", "key", "cert"} /\ caHurts < MaxHurts
    /\ caHurts' = caHurts + 1
    /\ \/ UNCHANGED caTmp
       \/ caPc[t] = "tmp" /\ caTmp' = [caTmp EXCEPT !.pem = caHas[t]]
    /\ GoTo(t, "failed") /\ FailedFrees(t)
    /\ UNCHANGED <<caCache, caDisk, caHas, caMinted, caShown, caRefused, caLost>>

-----------------------------------------------------------------------------
(* What the callers do with it, and the environment. *)

\* The proxy's worker presents the cache's authority.
Present(t) ==
    /\ caPc[t] = "ok" /\ caCache[ProcOf(t)] # NoCa
    /\ caShown' = caShown \cup {caCache[ProcOf(t)]}
    /\ UNCHANGED <<caPc, caCache, caMutex, caLock, caDisk, caTmp, caHas, caMinted,
                   caRefused, caHurts, caLost>>

\* A pack reads the published file, and fails when it is gone.
Bake(t) ==
    /\ caPc[t] = "ok" /\ caDisk.pem # NoCa
    /\ caShown' = caShown \cup {caDisk.pem}
    /\ UNCHANGED <<caPc, caCache, caMutex, caLock, caDisk, caTmp, caHas, caMinted,
                   caRefused, caHurts, caLost>>

\* The kernel drops the flock with the process.
FreedByDeath(p) == IF caLock # NoCa /\ ProcOf(caLock) = p THEN NoCa ELSE caLock

\* A process is killed and another one takes its place: its memory and its locks
\* are gone, its files are not.
KillProcess(p) ==
    /\ caHurts < MaxHurts /\ caHurts' = caHurts + 1
    /\ \E t \in Callers : ProcOf(t) = p /\ caPc[t] # "idle"
    /\ caPc' = [t \in Callers |-> IF ProcOf(t) = p THEN "idle" ELSE caPc[t]]
    /\ caHas' = [t \in Callers |-> IF ProcOf(t) = p THEN NoCa ELSE caHas[t]]
    /\ caCache' = [caCache EXCEPT ![p] = NoCa] /\ caMutex' = [caMutex EXCEPT ![p] = NoCa]
    /\ caLock' = FreedByDeath(p)
    /\ UNCHANGED <<caDisk, caTmp, caMinted, caShown, caRefused, caLost>>

\* One file of the pair is lost.
LoseFile(f) ==
    /\ ~caLost /\ caLost' = TRUE
    /\ NoCa \notin {caDisk.pem, caDisk.key}
    /\ caDisk' = [caDisk EXCEPT ![f] = NoCa]
    /\ UNCHANGED <<caPc, caCache, caMutex, caLock, caTmp, caHas, caMinted, caShown,
                   caRefused, caHurts>>

CaStep(t) ==
    \/ TakeMutex(t) \/ LookInCache(t) \/ TakeCaLock(t) \/ LookAtPair(t) \/ LoadPair(t)
    \/ WriteTmp(t) \/ RenameKey(t) \/ RenameCert(t) \/ PublishCa(t)

CaNext ==
    \/ \E t \in Callers : CaStep(t) \/ FailCaCall(t) \/ Present(t) \/ Bake(t)
    \/ \E p \in CaProcs : KillProcess(p)
    \/ \E f \in {"pem", "key"} : LoseFile(f)

CaSpec == CaInit /\ [][CaNext]_caVars

-----------------------------------------------------------------------------
(* Properties. *)

\* Whatever is killed, fails or is lost, the authority that every proxy of every
\* process presents and that every image was baked with is one and the same.
OneAuthority == Cardinality(caShown) <= 1

\* A key is never beside the certificate of another one, though the two are renamed
\* one after the other and what is renamed may be left from a call that failed: "the
\* CA is an atomic (ca.pem, ca.key) pair".
PairIsOne == NoCa \notin {caDisk.pem, caDisk.key} => caDisk.pem = caDisk.key

\* A pair that is merely being published is never refused as half of one: without a
\* crash, a failure or a loss no call is.
RefusedForCause == caRefused => caHurts > 0 \/ caLost

\* The mutex and the flock are held by calls that are under way and by no other: a `?`
\* that returns early, and a process that dies, give back what they held.
LocksComeBack ==
    /\ \A t \in Callers : caMutex[ProcOf(t)] = t <=> caPc[t] \notin {"idle", "ok", "failed"}
    /\ caLock # NoCa => caPc[caLock] \notin {"idle", "cache", "flock", "ok", "failed"}

\* new_in, whatever is killed, fails or is lost in it: one authority, a pair that
\* is one, no refusal without a cause and no lock that stays.
CaSafe ==
  /\ CaTypeOK
  /\ OneAuthority
  /\ PairIsOne
  /\ RefusedForCause
  /\ LocksComeBack
=============================================================================
