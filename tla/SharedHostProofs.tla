-------------------------- MODULE SharedHostProofs --------------------------
(***************************************************************************)
(* What processes share through the host's files, for any number of them:  *)
(* the frequency knobs that benchmarks pin and put back (CpuPin) and the   *)
(* proxy's certificate authority (CaManager).                              *)
(***************************************************************************)
EXTENDS CpuPin, CaManager, FiniteSetTheorems, TLAPS

-----------------------------------------------------------------------------
(* CpuFreqPin *)

PinShape ==
  /\ restore \in [Benches -> SUBSET (KnobIds \X Values)]
  /\ skipped \in [Benches -> 0 .. Knobs]

\* Engaging, a benchmark is at a knob, and has skipped none but earlier ones.
AtKnob ==
  \A b \in Benches : bench[b] \in {"none", "read", "write"} =>
    nextKnob[b] <= Knobs /\ skipped[b] < nextKnob[b]

\* A knob says what it said at first, or it is pinned.
KnobsKnown == \A k \in KnobIds : knob[k] \in {found[k], "pinned"}

\* What a benchmark has read and is about to replace is what the knob said at first,
\* though others may have pinned the knob since.
ReadIsFound == \A b \in Benches : bench[b] = "write" => current[b] = found[nextKnob[b]]

\* What a guard will write back is what the knob said at first.
RecordIsFound == \A b \in Benches : \A x \in restore[b] : x[2] = found[x[1]]

\* A knob that was changed is in some guard's record.
ChangeIsRecorded ==
  pinKills = 0 /\ ~restoreFailed =>
    \A k \in KnobIds : knob[k] # found[k] => \E b \in Benches : <<k, found[k]>> \in restore[b]

PinInv == PinTypeOK /\ PinShape /\ AtKnob /\ KnobsKnown /\ ReadIsFound /\ RecordIsFound
          /\ ChangeIsRecorded

\* The initial states satisfy the invariant.
LEMMA PinInitInv == PinInit => PinInv
<1> SUFFICES ASSUME PinInit PROVE PinInv
  OBVIOUS
<1>0. PinShape BY PinConstants DEF PinInit, PinShape
<1>1. PinTypeOK /\ PinShape
  <2>1. "scaling" \in Values BY DEF Values
  <2>2. 1 \in 1 .. Knobs + 1 /\ 0 \in 0 .. MaxKills BY PinConstants
  <2> QED BY <1>0, <2>1, <2>2 DEF PinInit, PinTypeOK, PinShape
<1>2. AtKnob BY PinConstants DEF PinInit, AtKnob
<1>3. KnobsKnown /\ ReadIsFound /\ RecordIsFound /\ ChangeIsRecorded
  BY DEF PinInit, KnobsKnown, ReadIsFound, RecordIsFound, ChangeIsRecorded
<1> QED BY <1>1, <1>2, <1>3 DEF PinInv

\* A step that writes no knob and no record.
LEMMA PinFrame ==
  ASSUME PinInv, UNCHANGED <<knob, found, restore, pinKills, restoreFailed>>
  PROVE  KnobsKnown' /\ RecordIsFound' /\ ChangeIsRecorded'
BY DEF PinInv, KnobsKnown, RecordIsFound, ChangeIsRecorded

\* Going on to the next knob stays within the knobs.
LEMMA OnwardStep ==
  ASSUME PinInv, NEW b \in Benches, bench[b] \in {"read", "write"}, Onward(b)
  PROVE  /\ nextKnob' \in [Benches -> 1 .. Knobs + 1]
         /\ bench' \in [Benches -> {"none", "read", "write", "running", "restoring", "over"}]
         /\ bench'[b] \in {"read", "running"}
         /\ bench'[b] = "read" => nextKnob'[b] <= Knobs
         /\ nextKnob'[b] = nextKnob[b] + 1 /\ nextKnob[b] \in KnobIds
         /\ \A c \in Benches : c # b => bench'[c] = bench[c] /\ nextKnob'[c] = nextKnob[c]
BY PinConstants DEF PinInv, PinTypeOK, AtKnob, Onward, PinGo, KnobIds

\* It skips at most the knob it leaves.
LEMMA OnwardAtKnob ==
  ASSUME PinInv, NEW b \in Benches, bench[b] \in {"read", "write"}, Onward(b),
         skipped' \in [Benches -> 0 .. Knobs], skipped'[b] <= skipped[b] + 1,
         \A c \in Benches : c # b => skipped'[c] = skipped[c]
  PROVE  AtKnob'
<1>1. skipped[b] < nextKnob[b] /\ skipped[b] \in Nat /\ skipped'[b] \in Nat /\ nextKnob[b] \in Nat
  BY PinConstants DEF PinInv, PinTypeOK, PinShape, AtKnob
<1>2. skipped'[b] < nextKnob'[b] BY <1>1, OnwardStep
<1>3. bench'[b] \in {"read", "running"} /\ (bench'[b] = "read" => nextKnob'[b] <= Knobs)
  BY OnwardStep
<1>4. \A c \in Benches : c # b =>
        bench'[c] = bench[c] /\ nextKnob'[c] = nextKnob[c] /\ skipped'[c] = skipped[c]
  BY OnwardStep
<1> QED BY <1>2, <1>3, <1>4 DEF PinInv, AtKnob

\* Every step preserves the invariant.
LEMMA PinNextInv == PinInv /\ [PinNext]_pinVars => PinInv'
<1> SUFFICES ASSUME PinInv, [PinNext]_pinVars PROVE PinInv'
  OBVIOUS
<1>1. ASSUME NEW b \in Benches, Engage(b) PROVE PinInv'
  <2>1. KnobsKnown' /\ RecordIsFound' /\ ChangeIsRecorded'
    BY <1>1, PinFrame DEF Engage, PinRest
  <2>2. PinTypeOK' /\ PinShape'
    BY <1>1, PinConstants DEF Engage, PinGo, PinRest, PinInv, PinTypeOK, PinShape
  <2>3. AtKnob' BY <1>1 DEF Engage, PinGo, PinRest, PinInv, PinTypeOK, PinShape, AtKnob
  <2>4. ReadIsFound' BY <1>1 DEF Engage, PinGo, PinRest, PinInv, PinTypeOK, ReadIsFound
  <2> QED BY <2>1, <2>2, <2>3, <2>4 DEF PinInv
<1>2. ASSUME NEW b \in Benches, ReadKnob(b) PROVE PinInv'
  <2>1. KnobsKnown' /\ RecordIsFound' /\ ChangeIsRecorded'
    BY <1>2, PinFrame DEF ReadKnob, PinRest
  <2>2. UNCHANGED <<knob, found, restore, pinKills, restoreFailed>> /\ bench[b] = "read"
    BY <1>2 DEF ReadKnob, PinRest
  <2>3. nextKnob[b] \in KnobIds /\ skipped[b] < nextKnob[b] /\ skipped[b] \in 0 .. Knobs
    BY <2>2, PinConstants DEF PinInv, PinTypeOK, PinShape, AtKnob, KnobIds
  <2>4. CASE knob[nextKnob[b]] # "pinned" /\ PinGo(b, "write")
             /\ current' = [current EXCEPT ![b] = knob[nextKnob[b]]]
             /\ UNCHANGED <<nextKnob, skipped>>
    <3>1. PinTypeOK' /\ PinShape'
      BY <2>2, <2>3, <2>4 DEF PinGo, PinInv, PinTypeOK, PinShape
    <3>2. AtKnob' BY <2>2, <2>3, <2>4 DEF PinGo, PinInv, PinTypeOK, AtKnob, KnobIds
    <3>3. ReadIsFound'
      BY <2>2, <2>3, <2>4 DEF PinGo, PinInv, PinTypeOK, KnobsKnown, ReadIsFound
    <3> QED BY <2>1, <3>1, <3>2, <3>3 DEF PinInv
  <2>5. CASE Onward(b) /\ UNCHANGED current
             /\ skipped' \in {skipped, [skipped EXCEPT ![b] = @ + 1]}
    <3>1. /\ skipped' \in [Benches -> 0 .. Knobs]
          /\ skipped'[b] <= skipped[b] + 1
          /\ \A c \in Benches : c # b => skipped'[c] = skipped[c]
      BY <2>3, <2>5, PinConstants DEF PinInv, PinShape, KnobIds
    <3>2. PinTypeOK' /\ PinShape'
      BY <2>2, <2>5, <3>1, OnwardStep DEF PinInv, PinTypeOK, PinShape
    <3>3. AtKnob'
      BY <2>2, <2>5, <3>1, OnwardAtKnob
    <3>4. ReadIsFound' BY <2>2, <2>5, OnwardStep DEF PinInv, ReadIsFound
    <3> QED BY <2>1, <3>2, <3>3, <3>4 DEF PinInv
  <2> QED BY <1>2, <2>4, <2>5 DEF ReadKnob
<1>3. ASSUME NEW b \in Benches, NEW ok \in BOOLEAN, WriteKnob(b, ok) PROVE PinInv'
  <2>1. /\ bench[b] = "write" /\ Onward(b)
        /\ UNCHANGED <<current, found, pinKills, restoreFailed>>
    BY <1>3 DEF WriteKnob, PinRest
  <2> DEFINE k == nextKnob[b]
  <2>2. k \in KnobIds /\ skipped[b] < k /\ skipped[b] \in 0 .. Knobs /\ current[b] = found[k]
    BY <2>1, PinConstants DEF PinInv, PinTypeOK, PinShape, AtKnob, ReadIsFound, KnobIds
  <2>3. ReadIsFound' BY <2>1, OnwardStep DEF PinInv, ReadIsFound
  <2>4. CASE ok
    <3>1. /\ restore' = [restore EXCEPT ![b] = @ \cup {<<k, found[k]>>}]
          /\ knob' = [knob EXCEPT ![k] = "pinned"] /\ UNCHANGED skipped
      BY <1>3, <2>2, <2>4 DEF WriteKnob, Recorded
    <3>2. found[k] \in Values BY <2>2 DEF PinInv, PinTypeOK
    <3>3. restore' \in [Benches -> SUBSET (KnobIds \X Values)]
      BY <2>2, <3>1, <3>2 DEF PinInv, PinShape
    <3>4. \A c \in Benches : c # b => restore'[c] = restore[c]
      BY <3>1 DEF PinInv, PinShape
    <3>5. PinTypeOK' /\ PinShape'
      BY <2>1, <2>2, <3>1, <3>3, <3>4, OnwardStep DEF PinInv, PinTypeOK, PinShape, Values
    <3>6. AtKnob'
      <4>1. skipped'[b] <= skipped[b] + 1 /\ skipped' \in [Benches -> 0 .. Knobs]
        BY <2>2, <3>1, PinConstants DEF PinInv, PinShape
      <4> QED BY <2>1, <3>1, <4>1, OnwardAtKnob
    <3>7. KnobsKnown' BY <2>1, <3>1 DEF PinInv, PinTypeOK, KnobsKnown
    <3>8. RecordIsFound' BY <2>1, <3>1 DEF PinInv, PinShape, RecordIsFound
    <3>9. \A c \in Benches : restore[c] \subseteq restore'[c] BY <3>1 DEF PinInv, PinShape
    <3>10. <<k, found[k]>> \in restore'[b] BY <3>1 DEF PinInv, PinShape
    <3>11. \A j \in KnobIds : j # k => knob'[j] = knob[j] BY <3>1 DEF PinInv, PinTypeOK
    <3>12. ChangeIsRecorded' BY <2>1, <3>9, <3>10, <3>11 DEF PinInv, ChangeIsRecorded
    <3> QED BY <2>3, <3>5, <3>6, <3>7, <3>8, <3>12 DEF PinInv
  <2>5. CASE ~ok
    <3>1. UNCHANGED <<restore, knob>> /\ skipped' = [skipped EXCEPT ![b] = @ + 1]
      BY <1>3, <2>5 DEF WriteKnob, Recorded, PinInv, PinShape
    <3>2. /\ skipped' \in [Benches -> 0 .. Knobs] /\ skipped'[b] = skipped[b] + 1
          /\ \A c \in Benches : c # b => skipped'[c] = skipped[c]
      BY <2>2, <3>1, PinConstants DEF PinInv, PinShape, KnobIds
    <3>3. PinTypeOK' /\ PinShape'
      BY <2>1, <3>1, <3>2, OnwardStep DEF PinInv, PinTypeOK, PinShape
    <3>4. AtKnob'
      <4>1. skipped'[b] <= skipped[b] + 1 BY <2>2, <3>2
      <4> QED BY <2>1, <3>2, <4>1, OnwardAtKnob
    <3> QED BY <2>1, <2>3, <3>1, <3>3, <3>4, PinFrame DEF PinInv
  <2> QED BY <2>4, <2>5
<1>4. ASSUME NEW b \in Benches, DropPin(b) \/ DropDone(b) PROVE PinInv'
  <2>1. KnobsKnown' /\ RecordIsFound' /\ ChangeIsRecorded'
    BY <1>4, PinFrame DEF DropPin, DropDone, PinRest
  <2>2. PinTypeOK' /\ PinShape'
    BY <1>4 DEF DropPin, DropDone, Restored, PinGo, PinRest, PinInv, PinTypeOK, PinShape
  <2>3. AtKnob' /\ ReadIsFound'
    BY <1>4 DEF DropPin, DropDone, PinGo, PinRest, PinInv, PinTypeOK, AtKnob, ReadIsFound
  <2> QED BY <2>1, <2>2, <2>3 DEF PinInv
<1>5. ASSUME NEW b \in Benches, NEW ok \in BOOLEAN, RestoreKnob(b, ok) PROVE PinInv'
  <2>1. PICK r \in restore[b] : /\ restore' = [restore EXCEPT ![b] = @ \ {r}]
                                /\ knob' = IF ok THEN [knob EXCEPT ![r[1]] = r[2]] ELSE knob
    BY <1>5 DEF RestoreKnob
  <2>2. /\ bench[b] = "restoring" /\ restoreFailed' = (restoreFailed \/ ~ok)
        /\ UNCHANGED <<found, bench, nextKnob, current, skipped, pinKills>>
    BY <1>5 DEF RestoreKnob
  <2>3. r \in KnobIds \X Values /\ r[2] = found[r[1]] /\ r = <<r[1], found[r[1]]>>
    BY DEF PinInv, PinShape, RecordIsFound
  <2>4. restore' \in [Benches -> SUBSET (KnobIds \X Values)] BY <2>1 DEF PinInv, PinShape
  <2>5. knob' \in [KnobIds -> Values] BY <2>1, <2>3 DEF PinInv, PinTypeOK
  <2>6. restoreFailed' \in BOOLEAN BY <2>2
  <2>7. \A c \in Benches : restore'[c] \subseteq restore[c] BY <2>1 DEF PinInv, PinShape
  <2>8. PinTypeOK' /\ PinShape'
    BY <2>2, <2>4, <2>5, <2>6, <2>7 DEF PinInv, PinTypeOK, PinShape
  <2>9. AtKnob' /\ ReadIsFound' BY <2>2 DEF PinInv, AtKnob, ReadIsFound
  <2>10. KnobsKnown' BY <2>1, <2>2, <2>3 DEF PinInv, PinTypeOK, KnobsKnown
  <2>11. RecordIsFound' BY <2>2, <2>7 DEF PinInv, RecordIsFound
  <2>12. ChangeIsRecorded'
    <3> SUFFICES ASSUME pinKills' = 0, ~restoreFailed', NEW j \in KnobIds, knob'[j] # found'[j]
                 PROVE  \E c \in Benches : <<j, found'[j]>> \in restore'[c]
      BY DEF ChangeIsRecorded
    <3>1. ok /\ ~restoreFailed /\ pinKills = 0 BY <2>2
    <3>2. j # r[1] /\ knob[j] # found[j] BY <2>1, <2>2, <2>3, <3>1 DEF PinInv, PinTypeOK
    <3>3. PICK c \in Benches : <<j, found[j]>> \in restore[c]
      BY <3>1, <3>2 DEF PinInv, ChangeIsRecorded
    <3>4. <<j, found[j]>> # r BY <3>2
    <3> QED BY <2>1, <2>2, <3>3, <3>4 DEF PinInv, PinShape
  <2> QED BY <2>8, <2>9, <2>10, <2>11, <2>12 DEF PinInv
<1>6. ASSUME NEW b \in Benches, KillBench(b) PROVE PinInv'
  <2>1. PinTypeOK' /\ PinShape'
    BY <1>6, PinConstants DEF KillBench, PinGo, PinInv, PinTypeOK, PinShape
  <2>2. AtKnob' /\ ReadIsFound'
    BY <1>6 DEF KillBench, PinGo, PinInv, PinTypeOK, AtKnob, ReadIsFound
  <2>3. KnobsKnown' BY <1>6 DEF KillBench, PinInv, KnobsKnown
  <2>4. RecordIsFound' BY <1>6 DEF KillBench, PinInv, PinShape, RecordIsFound
  <2>5. pinKills' # 0 BY <1>6, PinConstants DEF KillBench, PinInv, PinTypeOK
  <2> QED BY <2>1, <2>2, <2>3, <2>4, <2>5 DEF PinInv, ChangeIsRecorded
<1>7. CASE UNCHANGED pinVars
  BY <1>7 DEF pinVars, PinInv, PinTypeOK, PinShape, AtKnob, KnobsKnown, ReadIsFound,
              RecordIsFound, ChangeIsRecorded
<1> QED BY <1>1, <1>2, <1>3, <1>4, <1>5, <1>6, <1>7 DEF PinNext

\* The invariant implies the property.
LEMMA PinInvImplies == PinInv => CpuPinSafe
<1> SUFFICES ASSUME PinInv PROVE CpuPinSafe
  OBVIOUS
<1>1. ASSUME \A b \in Benches : bench[b] \in {"none", "over"}, pinKills = 0, ~restoreFailed
      PROVE  knob = found
  <2>1. \A b \in Benches : restore[b] = {} BY <1>1 DEF PinInv, PinTypeOK
  <2>2. \A k \in KnobIds : knob[k] = found[k]
    BY <1>1, <2>1 DEF PinInv, ChangeIsRecorded
  <2> QED BY <2>2 DEF PinInv, PinTypeOK
<1> QED BY <1>1 DEF PinInv, CpuPinSafe, EndsAsFound

\* Any number of benchmarks, overlapping in any way, leave every processor's governor
\* and the turbo knob as the first one found them (CpuFreqPin's Drop), as long as none
\* is killed and no write back fails.
THEOREM KnobsAreRestored == PinSpec => []CpuPinSafe
<1>1. PinSpec => []PinInv BY PinInitInv, PinNextInv, PTL DEF PinSpec
<1> QED BY <1>1, PinInvImplies, PTL
-----------------------------------------------------------------------------
(* CaManager *)

\* The parts of the type invariant.
CaShape ==
  /\ caPc \in [Callers -> {"idle", "cache", "flock", "look", "load", "tmp", "key", "cert",
                           "publish", "ok", "failed"}]
  /\ caCache \in [CaProcs -> Cas \cup {NoCa}]
  /\ caMutex \in [CaProcs -> Callers \cup {NoCa}]
  /\ caLock \in Callers \cup {NoCa}

CaFiles ==
  /\ caDisk \in [pem : Cas \cup {NoCa}, key : Cas \cup {NoCa}]
  /\ caTmp \in [pem : Cas \cup {NoCa}, key : Cas \cup {NoCa}]

CaCounts ==
  /\ caHas \in [Callers -> Cas \cup {NoCa}]
  /\ caMinted \in 0 .. MaxMints /\ caShown \subseteq Cas
  /\ caHurts \in 0 .. MaxHurts /\ caLost \in BOOLEAN /\ caRefused \in BOOLEAN

CaTypes == CaShape /\ CaFiles /\ CaCounts

\* The initial states have the types.
LEMMA CaTypesInit == CaInit => CaTypes
<1> SUFFICES ASSUME CaInit PROVE CaTypes
  OBVIOUS
<1>1. CaShape BY DEF CaInit, CaShape
<1>2. CaFiles BY DEF CaInit, CaFiles
<1>3. 0 \in 0 .. MaxMints /\ 0 \in 0 .. MaxHurts BY CaConstants
<1>4. CaCounts BY <1>3 DEF CaInit, CaCounts
<1> QED BY <1>1, <1>2, <1>4 DEF CaTypes

\* A caller is a thread of a process.
LEMMA CallerHasProc == \A t \in Callers : ProcOf(t) \in CaProcs
BY DEF Callers, ProcOf

\* Every step keeps the types of the calls and the locks.
LEMMA CaShapeNext ==
  ASSUME CaTypes, [CaNext]_caVars
  PROVE  CaShape'
<1>0. NoCa \in Callers \cup {NoCa} /\ NoCa \in Cas \cup {NoCa}
  OBVIOUS
<1>1. ASSUME NEW t \in Callers, TakeMutex(t) PROVE CaShape'
  BY <1>0, <1>1, CallerHasProc DEF TakeMutex, GoTo, caWorld, CaTypes, CaShape
<1>2. ASSUME NEW t \in Callers, LookInCache(t) PROVE CaShape'
  BY <1>0, <1>2, CallerHasProc DEF LookInCache, GoTo, Unlocked, caWorld, CaTypes, CaShape
<1>3. ASSUME NEW t \in Callers, TakeCaLock(t) PROVE CaShape'
  BY <1>0, <1>3, CallerHasProc DEF TakeCaLock, Lockable, GoTo, caWorld, CaTypes, CaShape
<1>4. ASSUME NEW t \in Callers, LookAtPair(t) PROVE CaShape'
  BY <1>0, <1>4, CallerHasProc DEF LookAtPair, GoTo, Unlocked, CaTypes, CaShape
<1>5. ASSUME NEW t \in Callers, LoadPair(t) PROVE CaShape'
  BY <1>0, <1>5, CallerHasProc DEF LoadPair, GoTo, Unlocked, caWorld, CaTypes, CaShape
<1>6. ASSUME NEW t \in Callers, WriteTmp(t) PROVE CaShape'
  BY <1>0, <1>6, CallerHasProc DEF WriteTmp, GoTo, caWorld, CaTypes, CaShape
<1>7. ASSUME NEW t \in Callers, RenameKey(t) PROVE CaShape'
  BY <1>0, <1>7, CallerHasProc DEF RenameKey, GoTo, caWorld, CaTypes, CaShape
<1>8. ASSUME NEW t \in Callers, RenameCert(t) PROVE CaShape'
  BY <1>0, <1>8, CallerHasProc DEF RenameCert, GoTo, caWorld, CaTypes, CaShape
<1>9. ASSUME NEW t \in Callers, PublishCa(t) PROVE CaShape'
  BY <1>0, <1>9, CallerHasProc DEF PublishCa, GoTo, Unlocked, caWorld, CaTypes, CaShape, CaCounts
<1>10. ASSUME NEW t \in Callers, FailCaCall(t) PROVE CaShape'
  BY <1>0, <1>10, CallerHasProc DEF FailCaCall, FailedFrees, GoTo, Unlocked, CaTypes, CaShape
<1>11. ASSUME NEW t \in Callers, Present(t) PROVE CaShape'
  BY <1>0, <1>11, CallerHasProc DEF Present, CaTypes, CaShape
<1>12. ASSUME NEW t \in Callers, Bake(t) PROVE CaShape'
  BY <1>0, <1>12, CallerHasProc DEF Bake, CaTypes, CaShape
<1>13. ASSUME NEW p \in CaProcs, KillProcess(p) PROVE CaShape'
  BY <1>0, <1>13, CallerHasProc DEF KillProcess, FreedByDeath, CaTypes, CaShape
<1>14. ASSUME NEW f \in {"pem", "key"}, LoseFile(f) PROVE CaShape'
  BY <1>0, <1>14, CallerHasProc DEF LoseFile, CaTypes, CaShape
<1>15. CASE UNCHANGED caVars
  BY <1>0, <1>15, CallerHasProc DEF caVars, CaTypes, CaShape
<1> QED BY <1>1, <1>2, <1>3, <1>4, <1>5, <1>6, <1>7, <1>8, <1>9,
           <1>10, <1>11, <1>12, <1>13, <1>14, <1>15 DEF CaNext, CaStep

\* Every step keeps the types of the files.
LEMMA CaFilesNext ==
  ASSUME CaTypes, [CaNext]_caVars
  PROVE  CaFiles'
<1>1. ASSUME NEW t \in Callers, TakeMutex(t) PROVE CaFiles'
  BY <1>1 DEF TakeMutex, caWorld, CaTypes, CaFiles
<1>2. ASSUME NEW t \in Callers, LookInCache(t) PROVE CaFiles'
  BY <1>2 DEF LookInCache, caWorld, CaTypes, CaFiles
<1>3. ASSUME NEW t \in Callers, TakeCaLock(t) PROVE CaFiles'
  BY <1>3 DEF TakeCaLock, caWorld, CaTypes, CaFiles
<1>4. ASSUME NEW t \in Callers, LookAtPair(t) PROVE CaFiles'
  BY <1>4 DEF LookAtPair, CaTypes, CaFiles
<1>5. ASSUME NEW t \in Callers, LoadPair(t) PROVE CaFiles'
  BY <1>5 DEF LoadPair, caWorld, CaTypes, CaFiles
<1>6. ASSUME NEW t \in Callers, WriteTmp(t) PROVE CaFiles'
  BY <1>6 DEF WriteTmp, caWorld, CaTypes, CaFiles, CaCounts
<1>7. ASSUME NEW t \in Callers, RenameKey(t) PROVE CaFiles'
  BY <1>7 DEF RenameKey, caWorld, CaTypes, CaFiles
<1>8. ASSUME NEW t \in Callers, RenameCert(t) PROVE CaFiles'
  BY <1>8 DEF RenameCert, caWorld, CaTypes, CaFiles
<1>9. ASSUME NEW t \in Callers, PublishCa(t) PROVE CaFiles'
  BY <1>9 DEF PublishCa, caWorld, CaTypes, CaFiles
<1>10. ASSUME NEW t \in Callers, FailCaCall(t) PROVE CaFiles'
  BY <1>10 DEF FailCaCall, CaTypes, CaFiles, CaCounts
<1>11. ASSUME NEW t \in Callers, Present(t) PROVE CaFiles'
  BY <1>11 DEF Present, CaTypes, CaFiles
<1>12. ASSUME NEW t \in Callers, Bake(t) PROVE CaFiles'
  BY <1>12 DEF Bake, CaTypes, CaFiles
<1>13. ASSUME NEW p \in CaProcs, KillProcess(p) PROVE CaFiles'
  BY <1>13 DEF KillProcess, CaTypes, CaFiles
<1>14. ASSUME NEW f \in {"pem", "key"}, LoseFile(f) PROVE CaFiles'
  BY <1>14 DEF LoseFile, CaTypes, CaFiles
<1>15. CASE UNCHANGED caVars
  BY <1>15 DEF caVars, CaTypes, CaFiles
<1> QED BY <1>1, <1>2, <1>3, <1>4, <1>5, <1>6, <1>7, <1>8, <1>9,
           <1>10, <1>11, <1>12, <1>13, <1>14, <1>15 DEF CaNext, CaStep

\* Every step keeps the types of what the calls have and of the history.
LEMMA CaCountsNext ==
  ASSUME CaTypes, [CaNext]_caVars
  PROVE  CaCounts'
<1>1. ASSUME NEW t \in Callers, TakeMutex(t) PROVE CaCounts'
  BY <1>1 DEF TakeMutex, caWorld, CaTypes, CaCounts
<1>2. ASSUME NEW t \in Callers, LookInCache(t) PROVE CaCounts'
  BY <1>2, CallerHasProc DEF LookInCache, caWorld, CaTypes, CaCounts, CaShape
<1>3. ASSUME NEW t \in Callers, TakeCaLock(t) PROVE CaCounts'
  BY <1>3 DEF TakeCaLock, caWorld, CaTypes, CaCounts
<1>4. ASSUME NEW t \in Callers, LookAtPair(t) PROVE CaCounts'
  <2>1. caMinted < MaxMints => caMinted + 1 \in Cas /\ caMinted + 1 \in 0 .. MaxMints
    BY CaConstants DEF CaTypes, CaCounts, Cas
  <2>2. caHas' \in [Callers -> Cas \cup {NoCa}] /\ caMinted' \in 0 .. MaxMints
    BY <1>4, <2>1 DEF LookAtPair, CaTypes, CaCounts
  <2>3. caRefused' \in BOOLEAN BY <1>4 DEF LookAtPair, CaTypes, CaCounts
  <2> QED BY <1>4, <2>2, <2>3 DEF LookAtPair, CaTypes, CaCounts
<1>5. ASSUME NEW t \in Callers, LoadPair(t) PROVE CaCounts'
  BY <1>5 DEF LoadPair, caWorld, CaTypes, CaCounts, CaFiles
<1>6. ASSUME NEW t \in Callers, WriteTmp(t) PROVE CaCounts'
  BY <1>6 DEF WriteTmp, caWorld, CaTypes, CaCounts
<1>7. ASSUME NEW t \in Callers, RenameKey(t) PROVE CaCounts'
  BY <1>7 DEF RenameKey, caWorld, CaTypes, CaCounts
<1>8. ASSUME NEW t \in Callers, RenameCert(t) PROVE CaCounts'
  BY <1>8 DEF RenameCert, caWorld, CaTypes, CaCounts
<1>9. ASSUME NEW t \in Callers, PublishCa(t) PROVE CaCounts'
  BY <1>9 DEF PublishCa, caWorld, CaTypes, CaCounts
<1>10. ASSUME NEW t \in Callers, FailCaCall(t) PROVE CaCounts'
  BY <1>10, CaConstants DEF FailCaCall, CaTypes, CaCounts
<1>11. ASSUME NEW t \in Callers, Present(t) PROVE CaCounts'
  BY <1>11, CallerHasProc DEF Present, CaTypes, CaCounts, CaShape
<1>12. ASSUME NEW t \in Callers, Bake(t) PROVE CaCounts'
  BY <1>12 DEF Bake, CaTypes, CaCounts, CaFiles
<1>13. ASSUME NEW p \in CaProcs, KillProcess(p) PROVE CaCounts'
  BY <1>13, CaConstants DEF KillProcess, CaTypes, CaCounts
<1>14. ASSUME NEW f \in {"pem", "key"}, LoseFile(f) PROVE CaCounts'
  BY <1>14 DEF LoseFile, CaTypes, CaCounts
<1>15. CASE UNCHANGED caVars
  BY <1>15 DEF caVars, CaTypes, CaCounts
<1> QED BY <1>1, <1>2, <1>3, <1>4, <1>5, <1>6, <1>7, <1>8, <1>9,
           <1>10, <1>11, <1>12, <1>13, <1>14, <1>15 DEF CaNext, CaStep

-----------------------------------------------------------------------------
(* The two locks *)

\* A call between the look at the pair and the publication holds the flock.
Inside == {"look", "load", "tmp", "key", "cert", "publish"}
LockHeld == \A t \in Callers : caPc[t] \in Inside => caLock = t

CaLocks == LockHeld /\ LocksComeBack

\* The initial states satisfy the invariant.
LEMMA CaLocksInit == CaInit => CaLocks
BY CaConstants, CallerHasProc DEF CaInit, CaLocks, LockHeld, LocksComeBack, Inside

\* Every step keeps the locks with the calls that are under way.
LEMMA CaLocksNext ==
  ASSUME CaTypes, CaLocks, [CaNext]_caVars
  PROVE  CaLocks'
<1>1. ASSUME NEW t \in Callers, TakeMutex(t) PROVE CaLocks'
  <2>1. LockHeld'
    BY <1>1, CaConstants, CallerHasProc
       DEF TakeMutex, GoTo, caWorld, CaTypes, CaShape, CaLocks, LockHeld,
           LocksComeBack, Inside
  <2>2. LocksComeBack'
    BY <1>1, CaConstants, CallerHasProc
       DEF TakeMutex, GoTo, caWorld, CaTypes, CaShape, CaLocks, LockHeld,
           LocksComeBack, Inside
  <2> QED BY <2>1, <2>2 DEF CaLocks
<1>2. ASSUME NEW t \in Callers, LookInCache(t) PROVE CaLocks'
  <2>1. LockHeld'
    BY <1>2, CaConstants, CallerHasProc
       DEF LookInCache, GoTo, Unlocked, caWorld, CaTypes, CaShape, CaLocks, LockHeld,
           LocksComeBack, Inside
  <2>2. LocksComeBack'
    BY <1>2, CaConstants, CallerHasProc
       DEF LookInCache, GoTo, Unlocked, caWorld, CaTypes, CaShape, CaLocks, LockHeld,
           LocksComeBack, Inside
  <2> QED BY <2>1, <2>2 DEF CaLocks
<1>3. ASSUME NEW t \in Callers, TakeCaLock(t) PROVE CaLocks'
  <2>1. LockHeld'
    BY <1>3, CaConstants, CallerHasProc
       DEF TakeCaLock, Lockable, GoTo, caWorld, CaTypes, CaShape, CaLocks, LockHeld,
           LocksComeBack, Inside
  <2>2. LocksComeBack'
    BY <1>3, CaConstants, CallerHasProc
       DEF TakeCaLock, Lockable, GoTo, caWorld, CaTypes, CaShape, CaLocks, LockHeld,
           LocksComeBack, Inside
  <2> QED BY <2>1, <2>2 DEF CaLocks
<1>4. ASSUME NEW t \in Callers, LookAtPair(t) PROVE CaLocks'
  <2>1. LockHeld'
    BY <1>4, CaConstants, CallerHasProc
       DEF LookAtPair, GoTo, Unlocked, CaTypes, CaShape, CaLocks, LockHeld,
           LocksComeBack, Inside
  <2>2. LocksComeBack'
    BY <1>4, CaConstants, CallerHasProc
       DEF LookAtPair, GoTo, Unlocked, CaTypes, CaShape, CaLocks, LockHeld,
           LocksComeBack, Inside
  <2> QED BY <2>1, <2>2 DEF CaLocks
<1>5. ASSUME NEW t \in Callers, LoadPair(t) PROVE CaLocks'
  <2>1. LockHeld'
    BY <1>5, CaConstants, CallerHasProc
       DEF LoadPair, GoTo, Unlocked, caWorld, CaTypes, CaShape, CaLocks, LockHeld,
           LocksComeBack, Inside
  <2>2. LocksComeBack'
    BY <1>5, CaConstants, CallerHasProc
       DEF LoadPair, GoTo, Unlocked, caWorld, CaTypes, CaShape, CaLocks, LockHeld,
           LocksComeBack, Inside
  <2> QED BY <2>1, <2>2 DEF CaLocks
<1>6. ASSUME NEW t \in Callers, WriteTmp(t) PROVE CaLocks'
  <2>1. LockHeld'
    BY <1>6, CaConstants, CallerHasProc
       DEF WriteTmp, GoTo, caWorld, CaTypes, CaShape, CaLocks, LockHeld,
           LocksComeBack, Inside
  <2>2. LocksComeBack'
    BY <1>6, CaConstants, CallerHasProc
       DEF WriteTmp, GoTo, caWorld, CaTypes, CaShape, CaLocks, LockHeld,
           LocksComeBack, Inside
  <2> QED BY <2>1, <2>2 DEF CaLocks
<1>7. ASSUME NEW t \in Callers, RenameKey(t) PROVE CaLocks'
  <2>1. LockHeld'
    BY <1>7, CaConstants, CallerHasProc
       DEF RenameKey, GoTo, caWorld, CaTypes, CaShape, CaLocks, LockHeld,
           LocksComeBack, Inside
  <2>2. LocksComeBack'
    BY <1>7, CaConstants, CallerHasProc
       DEF RenameKey, GoTo, caWorld, CaTypes, CaShape, CaLocks, LockHeld,
           LocksComeBack, Inside
  <2> QED BY <2>1, <2>2 DEF CaLocks
<1>8. ASSUME NEW t \in Callers, RenameCert(t) PROVE CaLocks'
  <2>1. LockHeld'
    BY <1>8, CaConstants, CallerHasProc
       DEF RenameCert, GoTo, caWorld, CaTypes, CaShape, CaLocks, LockHeld,
           LocksComeBack, Inside
  <2>2. LocksComeBack'
    BY <1>8, CaConstants, CallerHasProc
       DEF RenameCert, GoTo, caWorld, CaTypes, CaShape, CaLocks, LockHeld,
           LocksComeBack, Inside
  <2> QED BY <2>1, <2>2 DEF CaLocks
<1>9. ASSUME NEW t \in Callers, PublishCa(t) PROVE CaLocks'
  <2>1. LockHeld'
    BY <1>9, CaConstants, CallerHasProc
       DEF PublishCa, GoTo, Unlocked, caWorld, CaTypes, CaShape, CaLocks, LockHeld,
           LocksComeBack, Inside
  <2>2. LocksComeBack'
    BY <1>9, CaConstants, CallerHasProc
       DEF PublishCa, GoTo, Unlocked, caWorld, CaTypes, CaShape, CaLocks, LockHeld,
           LocksComeBack, Inside
  <2> QED BY <2>1, <2>2 DEF CaLocks
<1>10. ASSUME NEW t \in Callers, FailCaCall(t) PROVE CaLocks'
  <2>1. LockHeld'
    BY <1>10, CaConstants, CallerHasProc
       DEF FailCaCall, FailedFrees, GoTo, Unlocked, CaTypes, CaShape, CaLocks, LockHeld,
           LocksComeBack, Inside
  <2>2. LocksComeBack'
    BY <1>10, CaConstants, CallerHasProc
       DEF FailCaCall, FailedFrees, GoTo, Unlocked, CaTypes, CaShape, CaLocks, LockHeld,
           LocksComeBack, Inside
  <2> QED BY <2>1, <2>2 DEF CaLocks
<1>11. ASSUME NEW t \in Callers, Present(t) PROVE CaLocks'
  <2>1. LockHeld'
    BY <1>11, CaConstants, CallerHasProc
       DEF Present, CaTypes, CaShape, CaLocks, LockHeld,
           LocksComeBack, Inside
  <2>2. LocksComeBack'
    BY <1>11, CaConstants, CallerHasProc
       DEF Present, CaTypes, CaShape, CaLocks, LockHeld,
           LocksComeBack, Inside
  <2> QED BY <2>1, <2>2 DEF CaLocks
<1>12. ASSUME NEW t \in Callers, Bake(t) PROVE CaLocks'
  <2>1. LockHeld'
    BY <1>12, CaConstants, CallerHasProc
       DEF Bake, CaTypes, CaShape, CaLocks, LockHeld,
           LocksComeBack, Inside
  <2>2. LocksComeBack'
    BY <1>12, CaConstants, CallerHasProc
       DEF Bake, CaTypes, CaShape, CaLocks, LockHeld,
           LocksComeBack, Inside
  <2> QED BY <2>1, <2>2 DEF CaLocks
<1>13. ASSUME NEW p \in CaProcs, KillProcess(p) PROVE CaLocks'
  <2>1. LockHeld'
    BY <1>13, CaConstants, CallerHasProc
       DEF KillProcess, FreedByDeath, CaTypes, CaShape, CaLocks, LockHeld,
           LocksComeBack, Inside
  <2>2. LocksComeBack'
    BY <1>13, CaConstants, CallerHasProc
       DEF KillProcess, FreedByDeath, CaTypes, CaShape, CaLocks, LockHeld,
           LocksComeBack, Inside
  <2> QED BY <2>1, <2>2 DEF CaLocks
<1>14. ASSUME NEW f \in {"pem", "key"}, LoseFile(f) PROVE CaLocks'
  <2>1. LockHeld'
    BY <1>14, CaConstants, CallerHasProc
       DEF LoseFile, CaTypes, CaShape, CaLocks, LockHeld,
           LocksComeBack, Inside
  <2>2. LocksComeBack'
    BY <1>14, CaConstants, CallerHasProc
       DEF LoseFile, CaTypes, CaShape, CaLocks, LockHeld,
           LocksComeBack, Inside
  <2> QED BY <2>1, <2>2 DEF CaLocks
<1>15. CASE UNCHANGED caVars
  <2>1. LockHeld'
    BY <1>15, CaConstants, CallerHasProc
       DEF caVars, CaTypes, CaShape, CaLocks, LockHeld,
           LocksComeBack, Inside
  <2>2. LocksComeBack'
    BY <1>15, CaConstants, CallerHasProc
       DEF caVars, CaTypes, CaShape, CaLocks, LockHeld,
           LocksComeBack, Inside
  <2> QED BY <2>1, <2>2 DEF CaLocks
<1> QED BY <1>1, <1>2, <1>3, <1>4, <1>5, <1>6, <1>7, <1>8, <1>9,
           <1>10, <1>11, <1>12, <1>13, <1>14, <1>15 DEF CaNext, CaStep

-----------------------------------------------------------------------------
(* The pair *)

\* The authorities that some guest, image, cache or reader of ca.pem goes by.
Seen ==
  (caShown \cup {caCache[p] : p \in CaProcs} \cup {caDisk.pem}
   \cup {caHas[t] : t \in {u \in Callers : caPc[u] = "publish"}}) \ {NoCa}

\* They are one and the same.
OneSeen == \A x, y \in Seen : x = y

\* Once there is one, the directory is never empty again, so that none is minted, ...
SeenStays == Seen # {} => caDisk.pem # NoCa \/ caDisk.key # NoCa

\* ... and the key beside it is its key.
KeyIsSeen == Seen # {} /\ caDisk.key # NoCa => caDisk.key \in Seen

SeenInv == OneSeen /\ SeenStays /\ KeyIsSeen

\* What a call that mints finds in the directory at each of its steps.
Minting ==
  \A t \in Callers :
    /\ caPc[t] \in {"tmp", "key"} => caDisk.pem = NoCa /\ caDisk.key = NoCa
    /\ caPc[t] = "key" => caTmp.key = caHas[t] /\ caTmp.pem = caHas[t]
    /\ caPc[t] = "cert" => /\ caDisk.key = caHas[t] /\ caDisk.pem = NoCa
                           /\ caTmp.pem = caHas[t] /\ Seen = {}
    /\ caPc[t] \in {"tmp", "key", "cert", "publish"} => caHas[t] # NoCa

\* The initial states satisfy the invariant.
LEMMA SeenInit == CaInit => SeenInv /\ Minting
<1> SUFFICES ASSUME CaInit PROVE SeenInv /\ Minting
  OBVIOUS
<1>1. Seen = {} BY DEF CaInit, Seen
<1>2. SeenInv BY <1>1 DEF SeenInv, OneSeen, SeenStays, KeyIsSeen
<1>3. Minting BY DEF CaInit, Minting
<1> QED BY <1>2, <1>3

\* A step after which no more is seen, and the directory has what it had or one of its
\* two files.
LEMMA SeenShrinks ==
  ASSUME SeenInv, Seen' \subseteq Seen,
         \/ UNCHANGED caDisk
         \/ /\ caDisk.key # NoCa /\ caDisk.pem # NoCa /\ caDisk.pem \in Seen
            /\ \/ caDisk'.pem = NoCa /\ caDisk'.key = caDisk.key
               \/ caDisk'.key = NoCa /\ caDisk'.pem = caDisk.pem
  PROVE  SeenInv'
<1>1. OneSeen' BY DEF SeenInv, OneSeen
<1>2. SeenStays' BY DEF SeenInv, SeenStays
<1>3. KeyIsSeen'
  <2> SUFFICES ASSUME Seen' # {}, caDisk'.key # NoCa PROVE caDisk'.key \in Seen'
    BY DEF KeyIsSeen
  <2>1. PICK x \in Seen' : TRUE OBVIOUS
  <2>2. caDisk'.key = caDisk.key OBVIOUS
  <2>3. caDisk.key \in Seen BY <2>1, <2>2 DEF SeenInv, KeyIsSeen
  <2> QED BY <2>1, <2>2, <2>3 DEF SeenInv, OneSeen
<1> QED BY <1>1, <1>2, <1>3 DEF SeenInv

\* A step that leaves the files alone and starts no step of a mint.
LEMMA MintingStays ==
  ASSUME Minting, UNCHANGED <<caDisk, caTmp>>, Seen' \subseteq Seen,
         \A t \in Callers :
           caPc'[t] \in {"tmp", "key", "cert", "publish"} =>
             caPc'[t] = caPc[t] /\ caHas'[t] = caHas[t]
  PROVE  Minting'
BY DEF Minting

\* What is on disk under ca.pem is seen; so is what a process has cached.
LEMMA SeenHas ==
  /\ caDisk.pem # NoCa => caDisk.pem \in Seen
  /\ \A p \in CaProcs : caCache[p] # NoCa => caCache[p] \in Seen
  /\ \A t \in Callers : caPc[t] = "publish" /\ caHas[t] # NoCa => caHas[t] \in Seen
BY DEF Seen

\* Nothing more is seen after a step that shows nothing, caches nothing, publishes
\* nothing and starts no publication.
LEMMA SeenFrame ==
  ASSUME UNCHANGED <<caShown, caDisk>>,
         \A p \in CaProcs : caCache'[p] \in {caCache[p], NoCa},
         \A t \in Callers : caPc'[t] = "publish" => caPc[t] = "publish" /\ caHas'[t] = caHas[t]
  PROVE  Seen' \subseteq Seen
BY DEF Seen

\* Every step keeps the pair and what is seen of it.
LEMMA SeenNext ==
  ASSUME CaTypes, CaLocks, SeenInv, Minting, [CaNext]_caVars
  PROVE  SeenInv' /\ Minting'
<1>0. \A t, u \in Callers : caPc[t] \in Inside /\ caPc[u] \in Inside => t = u
  BY DEF CaLocks, LockHeld
<1>1. ASSUME NEW t \in Callers, TakeMutex(t) PROVE SeenInv' /\ Minting'
  <2>1. UNCHANGED <<caShown, caDisk, caTmp, caCache>> BY <1>1 DEF TakeMutex, GoTo, caWorld
  <2>2. \A u \in Callers : caPc'[u] \in {"tmp", "key", "cert", "publish"} =>
          caPc'[u] = caPc[u] /\ caHas'[u] = caHas[u]
    BY <1>1 DEF TakeMutex, GoTo, caWorld, CaTypes, CaShape, CaCounts
  <2>3. Seen' \subseteq Seen BY <2>1, <2>2, SeenFrame
  <2> QED BY <2>1, <2>2, <2>3, SeenShrinks, MintingStays
<1>2. ASSUME NEW t \in Callers, LookInCache(t) PROVE SeenInv' /\ Minting'
  <2>1. UNCHANGED <<caShown, caDisk, caTmp, caCache>>
    BY <1>2 DEF LookInCache, GoTo, Unlocked, caWorld
  <2>2. \A u \in Callers : caPc'[u] \in {"tmp", "key", "cert", "publish"} =>
          caPc'[u] = caPc[u] /\ caHas'[u] = caHas[u]
    BY <1>2 DEF LookInCache, GoTo, Unlocked, caWorld, CaTypes, CaShape, CaCounts
  <2>3. Seen' \subseteq Seen BY <2>1, <2>2, SeenFrame
  <2> QED BY <2>1, <2>2, <2>3, SeenShrinks, MintingStays
<1>3. ASSUME NEW t \in Callers, TakeCaLock(t) PROVE SeenInv' /\ Minting'
  <2>1. UNCHANGED <<caShown, caDisk, caTmp, caCache>>
    BY <1>3 DEF TakeCaLock, Lockable, GoTo, caWorld
  <2>2. \A u \in Callers : caPc'[u] \in {"tmp", "key", "cert", "publish"} =>
          caPc'[u] = caPc[u] /\ caHas'[u] = caHas[u]
    BY <1>3 DEF TakeCaLock, Lockable, GoTo, caWorld, CaTypes, CaShape, CaCounts
  <2>3. Seen' \subseteq Seen BY <2>1, <2>2, SeenFrame
  <2> QED BY <2>1, <2>2, <2>3, SeenShrinks, MintingStays
<1>4. ASSUME NEW t \in Callers, LookAtPair(t) PROVE SeenInv' /\ Minting'
  <2>1. UNCHANGED <<caShown, caDisk, caTmp, caCache>> BY <1>4 DEF LookAtPair
  <2>2. CASE ~Half /\ (caDisk.pem = NoCa \/ caDisk.key = NoCa)
    <3>1. caDisk.pem = NoCa /\ caDisk.key = NoCa BY <2>2 DEF Half
    <3>2. /\ caPc'[t] = "tmp" /\ caHas'[t] # NoCa
          /\ \A u \in Callers : u # t => caPc'[u] = caPc[u] /\ caHas'[u] = caHas[u]
      <4>1. caMinted < MaxMints => caMinted + 1 \in Cas
        BY CaConstants DEF CaTypes, CaCounts, Cas
      <4> QED BY <1>4, <2>2, <4>1, CaConstants DEF LookAtPair, GoTo, CaTypes, CaShape, CaCounts
    <3>3. Seen' \subseteq Seen BY <2>1, <3>2, SeenFrame
    <3>4. Minting' BY <2>1, <3>1, <3>2, <3>3 DEF Minting
    <3> QED BY <2>1, <3>3, <3>4, SeenShrinks
  <2>3. CASE Half \/ (caDisk.pem # NoCa /\ caDisk.key # NoCa)
    <3>1. \A u \in Callers : caPc'[u] \in {"tmp", "key", "cert", "publish"} =>
            caPc'[u] = caPc[u] /\ caHas'[u] = caHas[u]
      BY <1>4, <2>3 DEF LookAtPair, GoTo, CaTypes, CaShape
    <3>2. Seen' \subseteq Seen BY <2>1, <3>1, SeenFrame
    <3> QED BY <2>1, <3>1, <3>2, SeenShrinks, MintingStays
  <2> QED BY <2>2, <2>3
<1>5. ASSUME NEW t \in Callers, LoadPair(t) PROVE SeenInv' /\ Minting'
  <2>1. UNCHANGED <<caShown, caDisk, caTmp, caCache>> BY <1>5 DEF LoadPair, caWorld
  <2>2. CASE NoCa \in {caDisk.pem, caDisk.key}
    <3>1. \A u \in Callers : caPc'[u] \in {"tmp", "key", "cert", "publish"} =>
            caPc'[u] = caPc[u] /\ caHas'[u] = caHas[u]
      BY <1>5, <2>2 DEF LoadPair, GoTo, CaTypes, CaShape
    <3>2. Seen' \subseteq Seen BY <2>1, <3>1, SeenFrame
    <3> QED BY <2>1, <3>1, <3>2, SeenShrinks, MintingStays
  <2>3. CASE NoCa \notin {caDisk.pem, caDisk.key}
    <3>1. /\ caPc'[t] = "publish" /\ caHas'[t] = caDisk.pem
          /\ \A u \in Callers : u # t => caPc'[u] = caPc[u] /\ caHas'[u] = caHas[u]
      BY <1>5, <2>3 DEF LoadPair, GoTo, CaTypes, CaShape, CaCounts
    <3>2. Seen' \subseteq Seen BY <2>1, <3>1 DEF Seen
    <3>3. Minting' BY <2>1, <2>3, <3>1, <3>2 DEF Minting
    <3> QED BY <2>1, <3>2, <3>3, SeenShrinks
  <2> QED BY <2>2, <2>3
<1>6. ASSUME NEW t \in Callers, WriteTmp(t) PROVE SeenInv' /\ Minting'
  <2>1. UNCHANGED <<caShown, caDisk, caCache, caHas>> BY <1>6 DEF WriteTmp, caWorld
  <2>2. /\ caPc[t] = "tmp" /\ caPc'[t] = "key"
        /\ \A u \in Callers : u # t => caPc'[u] = caPc[u] /\ caPc[u] \notin Inside
        /\ caTmp'.pem = caHas[t] /\ caTmp'.key = caHas[t]
    BY <1>0, <1>6 DEF WriteTmp, GoTo, CaTypes, CaShape, Inside
  <2>3. Seen' \subseteq Seen BY <2>1, <2>2, SeenFrame
  <2>4. Minting' BY <2>1, <2>2 DEF Minting, Inside
  <2> QED BY <2>1, <2>3, <2>4, SeenShrinks
<1>7. ASSUME NEW t \in Callers, RenameKey(t) PROVE SeenInv' /\ Minting'
  <2>1. UNCHANGED <<caShown, caCache, caHas>> BY <1>7 DEF RenameKey, caWorld
  <2>2. /\ caPc[t] = "key" /\ caPc'[t] = "cert"
        /\ \A u \in Callers : u # t => caPc'[u] = caPc[u] /\ caPc[u] \notin Inside
    BY <1>0, <1>7 DEF RenameKey, GoTo, CaTypes, CaShape, Inside
  <2>3. caDisk.pem = NoCa /\ caDisk.key = NoCa /\ caTmp.key = caHas[t] /\ caTmp.pem = caHas[t]
        /\ caHas[t] # NoCa
    BY <2>2 DEF Minting
  <2>4. caDisk'.key = caHas[t] /\ caDisk'.pem = NoCa /\ caTmp'.pem = caHas[t]
    BY <1>7, <2>3 DEF RenameKey, CaTypes, CaFiles
  <2>5. Seen = {} BY <2>3 DEF SeenInv, SeenStays
  <2>6. Seen' = {} BY <2>1, <2>2, <2>3, <2>4, <2>5 DEF Seen, Inside
  <2>7. Minting' BY <2>1, <2>2, <2>3, <2>4, <2>6 DEF Minting, Inside
  <2> QED BY <2>6, <2>7 DEF SeenInv, OneSeen, SeenStays, KeyIsSeen
<1>8. ASSUME NEW t \in Callers, RenameCert(t) PROVE SeenInv' /\ Minting'
  <2>1. UNCHANGED <<caShown, caCache, caHas>> BY <1>8 DEF RenameCert, caWorld
  <2>2. /\ caPc[t] = "cert" /\ caPc'[t] = "publish"
        /\ \A u \in Callers : u # t => caPc'[u] = caPc[u] /\ caPc[u] \notin Inside
    BY <1>0, <1>8 DEF RenameCert, GoTo, CaTypes, CaShape, Inside
  <2>3. caDisk.key = caHas[t] /\ caTmp.pem = caHas[t] /\ Seen = {} /\ caHas[t] # NoCa
    BY <2>2 DEF Minting
  <2>4. caDisk'.key = caHas[t] /\ caDisk'.pem = caHas[t]
    BY <1>8, <2>3 DEF RenameCert, CaTypes, CaFiles
  <2>5. Seen' = {caHas[t]} BY <2>1, <2>2, <2>3, <2>4 DEF Seen, Inside
  <2>6. Minting' BY <2>1, <2>2, <2>3 DEF Minting, Inside
  <2> QED BY <2>3, <2>4, <2>5, <2>6 DEF SeenInv, OneSeen, SeenStays, KeyIsSeen
<1>9. ASSUME NEW t \in Callers, PublishCa(t) PROVE SeenInv' /\ Minting'
  <2>1. UNCHANGED <<caShown, caDisk, caTmp, caHas>> BY <1>9 DEF PublishCa, caWorld
  <2>2. caPc[t] = "publish" /\ caHas[t] \in Seen BY <1>9, SeenHas DEF PublishCa, Minting
  <2>3. \A p \in CaProcs : caCache'[p] \in {caCache[p], caHas[t]}
    BY <1>9 DEF PublishCa, CaTypes, CaShape
  <2>4. \A u \in Callers : caPc'[u] \in {"tmp", "key", "cert", "publish"} => caPc'[u] = caPc[u]
    BY <1>9 DEF PublishCa, GoTo, CaTypes, CaShape
  <2>5. Seen' \subseteq Seen BY <2>1, <2>2, <2>3, <2>4 DEF Seen
  <2> QED BY <2>1, <2>4, <2>5, SeenShrinks, MintingStays
<1>10. ASSUME NEW t \in Callers, FailCaCall(t) PROVE SeenInv' /\ Minting'
  <2>1. UNCHANGED <<caShown, caDisk, caCache, caHas>> BY <1>10 DEF FailCaCall
  <2>2. \A u \in Callers : caPc'[u] \in {"tmp", "key", "cert", "publish"} => caPc'[u] = caPc[u]
    BY <1>10 DEF FailCaCall, GoTo, CaTypes, CaShape
  <2>3. Seen' \subseteq Seen BY <2>1, <2>2, SeenFrame
  <2>4. CASE UNCHANGED caTmp BY <2>1, <2>2, <2>3, <2>4, SeenShrinks, MintingStays
  <2>5. CASE caPc[t] = "tmp"
    <3>1. \A u \in Callers : caPc'[u] \notin {"tmp", "key", "cert", "publish"}
      BY <1>0, <1>10, <2>2, <2>5 DEF FailCaCall, GoTo, CaTypes, CaShape, Inside
    <3>2. Minting' BY <3>1 DEF Minting
    <3> QED BY <2>1, <2>3, <3>2, SeenShrinks
  <2> QED BY <1>10, <2>4, <2>5 DEF FailCaCall
<1>11. ASSUME NEW t \in Callers, Present(t) PROVE SeenInv' /\ Minting'
  <2>1. UNCHANGED <<caPc, caDisk, caTmp, caCache, caHas>> BY <1>11 DEF Present
  <2>2. caCache[ProcOf(t)] \in Seen BY <1>11, SeenHas, CallerHasProc DEF Present
  <2>3. Seen' \subseteq Seen BY <1>11, <2>1, <2>2 DEF Present, Seen
  <2> QED BY <2>1, <2>3, SeenShrinks, MintingStays
<1>12. ASSUME NEW t \in Callers, Bake(t) PROVE SeenInv' /\ Minting'
  <2>1. UNCHANGED <<caPc, caDisk, caTmp, caCache, caHas>> BY <1>12 DEF Bake
  <2>2. caDisk.pem \in Seen BY <1>12, SeenHas, CallerHasProc DEF Bake
  <2>3. Seen' \subseteq Seen BY <1>12, <2>1, <2>2 DEF Bake, Seen
  <2> QED BY <2>1, <2>3, SeenShrinks, MintingStays
<1>13. ASSUME NEW p \in CaProcs, KillProcess(p) PROVE SeenInv' /\ Minting'
  <2>1. UNCHANGED <<caShown, caDisk, caTmp>> BY <1>13 DEF KillProcess
  <2>2. \A q \in CaProcs : caCache'[q] \in {caCache[q], NoCa}
    BY <1>13 DEF KillProcess, CaTypes, CaShape
  <2>3. \A u \in Callers : caPc'[u] \in {"tmp", "key", "cert", "publish"} =>
          caPc'[u] = caPc[u] /\ caHas'[u] = caHas[u]
    BY <1>13 DEF KillProcess, CaTypes, CaShape
  <2>4. Seen' \subseteq Seen BY <2>1, <2>2, <2>3, SeenFrame
  <2> QED BY <2>1, <2>3, <2>4, SeenShrinks, MintingStays
<1>14. ASSUME NEW f \in {"pem", "key"}, LoseFile(f) PROVE SeenInv' /\ Minting'
  <2>1. UNCHANGED <<caPc, caShown, caTmp, caCache, caHas>> BY <1>14 DEF LoseFile
  <2>2. caDisk.key # NoCa /\ caDisk.pem # NoCa BY <1>14 DEF LoseFile
  <2>3. \/ caDisk'.pem = NoCa /\ caDisk'.key = caDisk.key
        \/ caDisk'.key = NoCa /\ caDisk'.pem = caDisk.pem
    BY <1>14 DEF LoseFile, CaTypes, CaFiles
  <2>4. Seen' \subseteq Seen BY <2>1, <2>3 DEF Seen
  <2>5. caDisk.pem \in Seen BY <2>2, SeenHas
  <2>6. \A u \in Callers : caPc[u] \notin {"tmp", "key", "cert"} BY <2>2 DEF Minting
  <2>7. Minting' BY <2>1, <2>6 DEF Minting
  <2> QED BY <2>2, <2>3, <2>4, <2>5, <2>7, SeenShrinks
<1>15. CASE UNCHANGED caVars
  <2>1. UNCHANGED <<caPc, caShown, caDisk, caTmp, caCache, caHas>> BY <1>15 DEF caVars
  <2>2. Seen' \subseteq Seen BY <2>1 DEF Seen
  <2> QED BY <2>1, <2>2, SeenShrinks, MintingStays
<1> QED BY <1>1, <1>2, <1>3, <1>4, <1>5, <1>6, <1>7, <1>8, <1>9,
           <1>10, <1>11, <1>12, <1>13, <1>14, <1>15 DEF CaNext, CaStep

-----------------------------------------------------------------------------
(* Refusals *)

\* Half a pair is one that is being published, or was left by a crash, a failure or a
\* loss.
HalfHasCause == Half => (\E t \in Callers : caPc[t] = "cert") \/ caHurts > 0 \/ caLost

CauseInv == HalfHasCause /\ RefusedForCause

\* The initial states satisfy the invariant.
LEMMA CauseInit == CaInit => CauseInv
BY DEF CaInit, CauseInv, HalfHasCause, RefusedForCause, Half

\* A step that leaves the pair alone and refuses nothing.
LEMMA CauseStays ==
  ASSUME CauseInv, UNCHANGED <<caDisk, caRefused, caHurts, caLost>>,
         \A t \in Callers : caPc[t] = "cert" => caPc'[t] = "cert"
  PROVE  CauseInv'
BY DEF CauseInv, HalfHasCause, RefusedForCause, Half

\* Every step has a cause for what it refuses.
LEMMA CauseNext ==
  ASSUME CaTypes, CaLocks, Minting, CauseInv, [CaNext]_caVars
  PROVE  CauseInv'
<1>1. ASSUME NEW t \in Callers, TakeMutex(t) PROVE CauseInv'
  BY <1>1, CauseStays DEF TakeMutex, GoTo, caWorld, CaTypes, CaShape
<1>2. ASSUME NEW t \in Callers, LookInCache(t) PROVE CauseInv'
  BY <1>2, CauseStays DEF LookInCache, GoTo, caWorld, CaTypes, CaShape
<1>3. ASSUME NEW t \in Callers, TakeCaLock(t) PROVE CauseInv'
  BY <1>3, CauseStays DEF TakeCaLock, GoTo, caWorld, CaTypes, CaShape
<1>4. ASSUME NEW t \in Callers, LookAtPair(t) PROVE CauseInv'
  <2>1. \A u \in Callers : caPc[u] # "cert"
    BY <1>4 DEF LookAtPair, CaLocks, LockHeld, Inside
  <2>2. UNCHANGED <<caDisk, caHurts, caLost>> BY <1>4 DEF LookAtPair
  <2>3. CASE Half
    BY <2>1, <2>2, <2>3 DEF CauseInv, HalfHasCause, RefusedForCause
  <2>4. CASE ~Half
    BY <1>4, <2>1, <2>2, <2>4, CauseStays DEF LookAtPair
  <2> QED BY <2>3, <2>4
<1>5. ASSUME NEW t \in Callers, LoadPair(t) PROVE CauseInv'
  BY <1>5, CauseStays DEF LoadPair, GoTo, caWorld, CaTypes, CaShape
<1>6. ASSUME NEW t \in Callers, WriteTmp(t) PROVE CauseInv'
  BY <1>6, CauseStays DEF WriteTmp, GoTo, caWorld, CaTypes, CaShape
<1>7. ASSUME NEW t \in Callers, RenameKey(t) PROVE CauseInv'
  <2>1. caPc'[t] = "cert" BY <1>7 DEF RenameKey, GoTo, CaTypes, CaShape
  <2>2. UNCHANGED <<caRefused, caHurts, caLost>> BY <1>7 DEF RenameKey, caWorld
  <2> QED BY <2>1, <2>2 DEF CauseInv, HalfHasCause, RefusedForCause
<1>8. ASSUME NEW t \in Callers, RenameCert(t) PROVE CauseInv'
  <2>1. caDisk'.key # NoCa /\ caDisk'.pem # NoCa
    BY <1>8 DEF RenameCert, CaTypes, CaFiles, Minting
  <2>2. UNCHANGED <<caRefused, caHurts, caLost>> BY <1>8 DEF RenameCert, caWorld
  <2> QED BY <2>1, <2>2 DEF CauseInv, HalfHasCause, RefusedForCause, Half
<1>9. ASSUME NEW t \in Callers, PublishCa(t) PROVE CauseInv'
  BY <1>9, CauseStays DEF PublishCa, GoTo, caWorld, CaTypes, CaShape
<1>10. ASSUME NEW t \in Callers, FailCaCall(t) PROVE CauseInv'
  <2>1. caHurts' = caHurts + 1 BY <1>10 DEF FailCaCall
  <2>2. caHurts' > 0 BY <2>1, CaConstants DEF CaTypes, CaCounts
  <2> QED BY <2>2 DEF CauseInv, HalfHasCause, RefusedForCause
<1>11. ASSUME NEW t \in Callers, Present(t) PROVE CauseInv'
  BY <1>11, CauseStays DEF Present, CaTypes, CaShape
<1>12. ASSUME NEW t \in Callers, Bake(t) PROVE CauseInv'
  BY <1>12, CauseStays DEF Bake, CaTypes, CaShape
<1>13. ASSUME NEW p \in CaProcs, KillProcess(p) PROVE CauseInv'
  <2>1. caHurts' = caHurts + 1 BY <1>13 DEF KillProcess
  <2>2. caHurts' > 0 BY <2>1, CaConstants DEF CaTypes, CaCounts
  <2> QED BY <2>2 DEF CauseInv, HalfHasCause, RefusedForCause
<1>14. ASSUME NEW f \in {"pem", "key"}, LoseFile(f) PROVE CauseInv'
  BY <1>14 DEF LoseFile, CauseInv, HalfHasCause, RefusedForCause
<1>15. CASE UNCHANGED caVars
  BY <1>15, CauseStays DEF caVars
<1> QED BY <1>1, <1>2, <1>3, <1>4, <1>5, <1>6, <1>7, <1>8, <1>9,
           <1>10, <1>11, <1>12, <1>13, <1>14, <1>15 DEF CaNext, CaStep

-----------------------------------------------------------------------------

CaInv == CaTypes /\ CaLocks /\ SeenInv /\ Minting /\ CauseInv

\* The invariant implies the property.
LEMMA CaInvImplies == CaInv => CaSafe
<1> SUFFICES ASSUME CaInv PROVE CaSafe
  OBVIOUS
<1>1. CaTypeOK BY DEF CaInv, CaTypes, CaShape, CaFiles, CaCounts, CaTypeOK
<1>2. OneAuthority
  <2>1. caShown \subseteq Seen BY CaConstants DEF CaInv, CaTypes, CaCounts, Seen
  <2>2. CASE caShown = {} BY <2>2, FS_EmptySet DEF OneAuthority
  <2>3. ASSUME NEW x \in caShown PROVE OneAuthority
    <3>1. caShown = {x} BY <2>1 DEF CaInv, SeenInv, OneSeen
    <3>2. Cardinality({x}) = 1 BY FS_Singleton, Zenon
    <3>3. Cardinality(caShown) = 1 BY <3>1, <3>2
    <3> QED BY <3>3 DEF OneAuthority
  <2> QED BY <2>2, <2>3
<1>3. PairIsOne
  <2> SUFFICES ASSUME caDisk.pem # NoCa, caDisk.key # NoCa PROVE caDisk.pem = caDisk.key
    BY DEF PairIsOne
  <2>1. caDisk.pem \in Seen BY SeenHas
  <2>2. caDisk.key \in Seen BY <2>1 DEF CaInv, SeenInv, KeyIsSeen
  <2> QED BY <2>1, <2>2 DEF CaInv, SeenInv, OneSeen
<1> QED BY <1>1, <1>2, <1>3 DEF CaInv, CaLocks, CauseInv, CaSafe

\* However many processes and threads ask for the authority of one directory, and
\* whichever of them are killed or fail anywhere in new_in: guests and images see one
\* authority, ca.key belongs to ca.pem, and no lock outlives its call.
THEOREM AuthorityIsOne == CaSpec => []CaSafe
<1>1. CaInit => CaInv BY CaTypesInit, CaLocksInit, SeenInit, CauseInit DEF CaInv
<1>2. CaInv /\ [CaNext]_caVars => CaInv'
  BY CaShapeNext, CaFilesNext, CaCountsNext, CaLocksNext, SeenNext, CauseNext DEF CaInv, CaTypes
<1> QED BY <1>1, <1>2, CaInvImplies, PTL DEF CaSpec
=============================================================================
