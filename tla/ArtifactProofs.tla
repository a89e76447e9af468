--------------------------- MODULE ArtifactProofs ---------------------------
(***************************************************************************)
(* What is under a name of the artifact store, for any number of uploads,  *)
(* deletes, crashes and failing file operations, where the bytes (the      *)
(* quota, a sum over the uploads) are not part of the argument; and which  *)
(* sources a kernel is built from, for any number of pins, bumps and       *)
(* builds that are cut short.                                              *)
(***************************************************************************)
EXTENDS ArtifactStore, KernelBuild, FiniteSetTheorems, TLAPS

-----------------------------------------------------------------------------
(* The artifact store *)

StoreShape ==
  /\ up \in [Uploads -> {"new", "stream", "persisted", "done", "err", "kept", "dead"}]
  /\ temp \subseteq Uploads
  /\ file \in [Names -> Uploads \cup {NoUpload}]
  /\ side \in [Names -> Uploads \cup {NoUpload}]
  /\ del \in [Deletes -> {"new", "unlinked", "done", "dead"}]

\* A name has the bytes of an upload of that name which was persisted.
FileIsOwn ==
  \A n \in Names : file[n] # NoUpload =>
    NameOf[file[n]] = n /\ up[file[n]] \in {"persisted", "done", "kept", "dead"}

\* A temp file is of an upload under way, or of one that a crash cut off, and its bytes
\* are under no name.
TempIsOpen ==
  \A u \in temp : up[u] \in {"stream", "dead"} /\ file[NameOf[u]] # u

\* A sidecar is of an upload of that name which was completed.
SideIsOwn ==
  \A n \in Names : side[n] # NoUpload => NameOf[side[n]] = n /\ up[side[n]] = "done"

Untouched(n) == \A d \in Deletes : TargetOf[d] = n => del[d] = "new"

\* An upload that has the name keeps it until a delete of the name.
WinnerStays ==
  \A u \in Uploads :
    up[u] \in {"persisted", "done", "kept"} /\ Untouched(NameOf[u]) => file[NameOf[u]] = u

StoreInv == StoreShape /\ FileIsOwn /\ TempIsOpen /\ SideIsOwn /\ WinnerStays

-----------------------------------------------------------------------------

\* The initial states satisfy the invariant.
LEMMA StoreInitInv == StoreInit => StoreInv
BY DEF StoreInit, StoreInv, StoreShape, FileIsOwn, TempIsOpen, SideIsOwn, WinnerStays

\* A step of one upload that moves no file under a name and makes no sidecar.
LEMMA UploadStep ==
  ASSUME StoreInv, NEW u \in Uploads, NEW state \in {"stream", "err", "kept"},
         up' = [up EXCEPT ![u] = state], UNCHANGED <<file, side, del>>,
         \/ up[u] = "new" /\ state = "stream" /\ temp' = temp \cup {u}
         \/ up[u] = "new" /\ state = "err" /\ UNCHANGED temp
         \/ up[u] = "stream" /\ state = "err" /\ temp' = temp \ {u}
         \/ up[u] = "persisted" /\ state = "kept" /\ UNCHANGED temp
  PROVE  StoreInv'
<1>1. StoreShape' BY DEF StoreInv, StoreShape
<1>2. up'[u] = state /\ \A w \in Uploads : w # u => up'[w] = up[w] BY DEF StoreInv, StoreShape
<1>3. FileIsOwn' BY <1>2, ArtifactStoreConstants DEF StoreInv, StoreShape, FileIsOwn
<1>4. TempIsOpen'
  <2>1. up[u] = "new" => file[NameOf[u]] # u
    BY ArtifactStoreConstants DEF StoreInv, FileIsOwn
  <2>2. u \in temp => up[u] \in {"stream", "dead"} BY DEF StoreInv, TempIsOpen
  <2>3. ASSUME NEW w \in temp' PROVE up'[w] \in {"stream", "dead"} /\ file'[NameOf[w]] # w
    <3>1. CASE w = u BY <1>2, <2>1, <2>2, <2>3, <3>1
    <3>2. CASE w # u
      <4>1. w \in temp BY <2>3, <3>2
      <4> QED BY <1>2, <3>2, <4>1 DEF StoreInv, StoreShape, TempIsOpen
    <3> QED BY <3>1, <3>2
  <2> QED BY <2>3 DEF TempIsOpen
<1>5. SideIsOwn' BY <1>2 DEF StoreInv, StoreShape, SideIsOwn
<1>6. WinnerStays' BY <1>2 DEF StoreInv, WinnerStays, Untouched
<1> QED BY <1>1, <1>3, <1>4, <1>5, <1>6 DEF StoreInv

\* Every step preserves the invariant.
LEMMA StoreNextInv == StoreInv /\ [StoreNext]_storeVars => StoreInv'
<1> SUFFICES ASSUME StoreInv, [StoreNext]_storeVars PROVE StoreInv'
  OBVIOUS
<1>1. ASSUME NEW u \in Uploads, Open(u) PROVE StoreInv'
  <2>1. CASE UploadGoto(u, "stream") /\ temp' = temp \cup {u}
    BY <1>1, <2>1, UploadStep DEF Open, UploadGoto
  <2>2. CASE UploadGoto(u, "err") /\ UNCHANGED temp
    BY <1>1, <2>2, UploadStep DEF Open, UploadGoto
  <2> QED BY <1>1, <2>1, <2>2 DEF Open
<1>2. ASSUME NEW u \in Uploads, OpenFails(u) PROVE StoreInv'
  BY <1>2, UploadStep DEF OpenFails, UploadGoto, store
<1>3. ASSUME NEW u \in Uploads, WriteChunk(u) PROVE StoreInv'
  <2>1. CASE DropWriter(u)
    BY <1>3, <2>1, UploadStep DEF WriteChunk, DropWriter, UploadGoto
  <2>2. CASE UNCHANGED <<up, temp>>
    BY <1>3, <2>2 DEF WriteChunk, StoreInv, StoreShape, FileIsOwn, TempIsOpen, SideIsOwn,
                      WinnerStays, Untouched
  <2> QED BY <1>3, <2>1, <2>2 DEF WriteChunk
<1>4. ASSUME NEW u \in Uploads, Abandon(u) PROVE StoreInv'
  BY <1>4, UploadStep DEF Abandon, DropWriter, UploadGoto
<1>5. ASSUME NEW u \in Uploads, Persist(u) PROVE StoreInv'
  <2>1. CASE file[NameOf[u]] # NoUpload
    BY <1>5, <2>1, UploadStep DEF Persist, DropWriter, UploadGoto
  <2>2. CASE file[NameOf[u]] = NoUpload
    <3>1. /\ up[u] = "stream" /\ up' = [up EXCEPT ![u] = "persisted"] /\ temp' = temp \ {u}
          /\ file' = [file EXCEPT ![NameOf[u]] = u] /\ UNCHANGED <<side, del>>
      BY <1>5, <2>2 DEF Persist, UploadGoto
    <3>2. NameOf[u] \in Names /\ u # NoUpload BY ArtifactStoreConstants
    <3>3. /\ up'[u] = "persisted" /\ \A w \in Uploads : w # u => up'[w] = up[w]
          /\ file'[NameOf[u]] = u /\ \A n \in Names : n # NameOf[u] => file'[n] = file[n]
      BY <3>1, <3>2 DEF StoreInv, StoreShape
    <3>4. StoreShape' BY <3>1 DEF StoreInv, StoreShape
    <3>5. FileIsOwn' BY <3>1, <3>3 DEF StoreInv, StoreShape, FileIsOwn
    <3>6. TempIsOpen'
      BY <3>1, <3>3, ArtifactStoreConstants DEF StoreInv, StoreShape, TempIsOpen
    <3>7. SideIsOwn' BY <3>1, <3>3 DEF StoreInv, StoreShape, SideIsOwn
    <3>8. WinnerStays'
      BY <2>2, <3>1, <3>2, <3>3, ArtifactStoreConstants
         DEF StoreInv, StoreShape, WinnerStays, Untouched
    <3> QED BY <3>4, <3>5, <3>6, <3>7, <3>8 DEF StoreInv
  <2> QED BY <2>1, <2>2
<1>6. ASSUME NEW u \in Uploads, WriteSidecar(u) PROVE StoreInv'
  <2>1. /\ up[u] = "persisted" /\ up' = [up EXCEPT ![u] = "done"]
        /\ side' = [side EXCEPT ![NameOf[u]] = u] /\ UNCHANGED <<temp, file, del>>
    BY <1>6 DEF WriteSidecar, SidecarPath, UploadGoto
  <2>2. /\ up'[u] = "done" /\ \A w \in Uploads : w # u => up'[w] = up[w]
        /\ \A n \in Names : side'[n] = side[n] \/ (n = NameOf[u] /\ side'[n] = u)
    BY <2>1 DEF StoreInv, StoreShape
  <2>3. StoreShape' BY <2>1 DEF StoreInv, StoreShape
  <2>4. FileIsOwn' BY <2>1, <2>2 DEF StoreInv, StoreShape, FileIsOwn
  <2>5. TempIsOpen' BY <2>1, <2>2 DEF StoreInv, StoreShape, TempIsOpen
  <2>6. SideIsOwn' BY <2>1, <2>2 DEF StoreInv, StoreShape, SideIsOwn
  <2>7. WinnerStays' BY <2>1, <2>2 DEF StoreInv, WinnerStays, Untouched
  <2> QED BY <2>3, <2>4, <2>5, <2>6, <2>7 DEF StoreInv
<1>7. ASSUME NEW u \in Uploads, SidecarFails(u) PROVE StoreInv'
  <2>1. /\ up[u] = "persisted" /\ up' = [up EXCEPT ![u] = "err"]
        /\ file' = [file EXCEPT ![NameOf[u]] = NoUpload] /\ UNCHANGED <<temp, side, del>>
    BY <1>7 DEF SidecarFails, UploadGoto
  <2>2. /\ up'[u] = "err" /\ \A w \in Uploads : w # u => up'[w] = up[w]
        /\ file'[NameOf[u]] = NoUpload /\ \A n \in Names : n # NameOf[u] => file'[n] = file[n]
    BY <2>1, ArtifactStoreConstants DEF StoreInv, StoreShape
  <2>3. StoreShape' BY <2>1 DEF StoreInv, StoreShape
  <2>4. FileIsOwn' BY <2>1, <2>2, ArtifactStoreConstants DEF StoreInv, StoreShape, FileIsOwn
  <2>5. TempIsOpen'
    BY <2>1, <2>2, ArtifactStoreConstants DEF StoreInv, StoreShape, TempIsOpen
  <2>6. SideIsOwn' BY <2>1, <2>2 DEF StoreInv, StoreShape, SideIsOwn
  <2>7. WinnerStays'
    BY <2>1, <2>2, ArtifactStoreConstants DEF StoreInv, WinnerStays, Untouched
  <2> QED BY <2>3, <2>4, <2>5, <2>6, <2>7 DEF StoreInv
<1>8. ASSUME NEW u \in Uploads, RollbackFails(u) PROVE StoreInv'
  BY <1>8, UploadStep DEF RollbackFails, UploadGoto, store
<1>9. ASSUME NEW d \in Deletes, DeleteFile(d) PROVE StoreInv'
  <2>1. /\ UNCHANGED <<up, temp, side>> /\ del[d] = "new"
        /\ file' = [file EXCEPT ![TargetOf[d]] = NoUpload]
    BY <1>9 DEF DeleteFile
  <2>2. /\ del' \in [Deletes -> {"new", "unlinked", "done", "dead"}] /\ del'[d] # "new"
        /\ \A e \in Deletes : e # d => del'[e] = del[e]
    BY <1>9 DEF DeleteFile, StoreInv, StoreShape
  <2>3. \A n \in Names : /\ n # TargetOf[d] => file'[n] = file[n]
                         /\ file'[n] \in {file[n], NoUpload}
    BY <2>1 DEF StoreInv, StoreShape
  <2>4. StoreShape' BY <2>1, <2>2 DEF StoreInv, StoreShape
  <2>5. FileIsOwn' BY <2>1, <2>3 DEF StoreInv, FileIsOwn
  <2>6. TempIsOpen'
    BY <2>1, <2>3, ArtifactStoreConstants DEF StoreInv, StoreShape, TempIsOpen
  <2>7. SideIsOwn' BY <2>1 DEF StoreInv, SideIsOwn
  <2>8. WinnerStays'
    BY <2>1, <2>2, <2>3, ArtifactStoreConstants DEF StoreInv, WinnerStays, Untouched
  <2> QED BY <2>4, <2>5, <2>6, <2>7, <2>8 DEF StoreInv
<1>10. ASSUME NEW d \in Deletes, DeleteSidecar(d) \/ DeleteSidecarFails(d) PROVE StoreInv'
  <2>1. UNCHANGED <<up, temp, file>> /\ del[d] = "unlinked" /\ del' = [del EXCEPT ![d] = "done"]
    BY <1>10 DEF DeleteSidecar, DeleteSidecarFails, store
  <2>2. side' \in [Names -> Uploads \cup {NoUpload}]
        /\ \A n \in Names : side'[n] \in {side[n], NoUpload}
    BY <1>10 DEF DeleteSidecar, DeleteSidecarFails, store, StoreInv, StoreShape
  <2>3. StoreShape' BY <2>1, <2>2 DEF StoreInv, StoreShape
  <2>4. FileIsOwn' /\ TempIsOpen' BY <2>1 DEF StoreInv, FileIsOwn, TempIsOpen
  <2>5. SideIsOwn' BY <2>1, <2>2 DEF StoreInv, SideIsOwn
  <2>6. \A e \in Deletes : del'[e] = "new" => del[e] = "new" BY <2>1 DEF StoreInv, StoreShape
  <2>7. WinnerStays' BY <2>1, <2>6 DEF StoreInv, WinnerStays, Untouched
  <2> QED BY <2>3, <2>4, <2>5, <2>7 DEF StoreInv
<1>11. CASE StoreCrash
  <2>1. UNCHANGED <<temp, file, side>> BY <1>11 DEF StoreCrash, store
  <2>2. /\ up' \in [Uploads -> {"new", "stream", "persisted", "done", "err", "kept", "dead"}]
        /\ \A u \in Uploads : up'[u] = IF up[u] \in {"stream", "persisted"} THEN "dead" ELSE up[u]
    BY <1>11 DEF StoreCrash, StoreInv, StoreShape
  <2>3. /\ del' \in [Deletes -> {"new", "unlinked", "done", "dead"}]
        /\ \A d \in Deletes : del'[d] = "new" => del[d] = "new"
    BY <1>11 DEF StoreCrash, StoreInv, StoreShape
  <2>4. StoreShape' BY <2>1, <2>2, <2>3 DEF StoreInv, StoreShape
  <2>5. FileIsOwn' BY <2>1, <2>2 DEF StoreInv, StoreShape, FileIsOwn
  <2>6. TempIsOpen' BY <2>1, <2>2 DEF StoreInv, StoreShape, TempIsOpen
  <2>7. SideIsOwn' BY <2>1, <2>2 DEF StoreInv, StoreShape, SideIsOwn
  <2>8. WinnerStays' BY <2>1, <2>2, <2>3 DEF StoreInv, WinnerStays, Untouched
  <2> QED BY <2>4, <2>5, <2>6, <2>7, <2>8 DEF StoreInv
<1>12. ASSUME NEW temps \in SUBSET Uploads, NEW sides \in SUBSET Names,
              CollectResidue(temps, sides)
       PROVE  StoreInv'
  <2>1. UNCHANGED <<up, file, del>> /\ temp' \subseteq temp BY <1>12 DEF CollectResidue
  <2>2. side' \in [Names -> Uploads \cup {NoUpload}]
        /\ \A n \in Names : side'[n] \in {side[n], NoUpload}
    BY <1>12 DEF CollectResidue, StoreInv, StoreShape
  <2>3. StoreShape' BY <2>1, <2>2 DEF StoreInv, StoreShape
  <2>4. FileIsOwn' /\ TempIsOpen' BY <2>1 DEF StoreInv, FileIsOwn, TempIsOpen
  <2>5. SideIsOwn' BY <2>1, <2>2 DEF StoreInv, SideIsOwn
  <2>6. WinnerStays' BY <2>1 DEF StoreInv, WinnerStays, Untouched
  <2> QED BY <2>3, <2>4, <2>5, <2>6 DEF StoreInv
<1>13. CASE UNCHANGED storeVars
  BY <1>13 DEF storeVars, StoreInv, StoreShape, FileIsOwn, TempIsOpen, SideIsOwn, WinnerStays,
               Untouched
<1> QED BY <1>1, <1>2, <1>3, <1>4, <1>5, <1>6, <1>7, <1>8, <1>9, <1>10, <1>11, <1>12, <1>13
        DEF StoreNext

-----------------------------------------------------------------------------

\* At most one element: at most one in number.
LEMMA AtMostOne ==
  ASSUME NEW S, \A x, y \in S : x = y
  PROVE  Cardinality(S) <= 1
<1>1. CASE S = {} BY <1>1, FS_EmptySet
<1>2. ASSUME NEW x \in S PROVE Cardinality(S) <= 1
  <2>1. S = {x} OBVIOUS
  <2> QED BY <2>1, FS_Singleton
<1> QED BY <1>1, <1>2

\* The invariant implies the properties.
LEMMA StoreInvImplies == StoreInv => OneCreatorWins /\ AllOrNothing /\ PublishedOnceKeepsDigest
<1> SUFFICES ASSUME StoreInv PROVE OneCreatorWins /\ AllOrNothing /\ PublishedOnceKeepsDigest
  OBVIOUS
<1>1. OneCreatorWins
  <2> SUFFICES ASSUME NEW n \in Names, Untouched(n)
               PROVE  ~(Cardinality({u \in Uploads : NameOf[u] = n
                                       /\ up[u] \in {"persisted", "done", "kept"}}) > 1)
    BY DEF OneCreatorWins, Untouched
  <2> DEFINE S == {u \in Uploads : NameOf[u] = n /\ up[u] \in {"persisted", "done", "kept"}}
  <2>1. \A x, y \in S : x = y BY DEF StoreInv, WinnerStays
  <2>2. Cardinality(S) <= 1 BY <2>1, AtMostOne
  <2>3. IsFiniteSet(S) BY ArtifactStoreConstants, FS_Subset
  <2>4. Cardinality(S) \in Nat BY <2>3, FS_CardinalityType
  <2> QED BY <2>2, <2>4
<1>2. AllOrNothing
  BY ArtifactStoreConstants DEF AllOrNothing, StoreInv, StoreShape, FileIsOwn, TempIsOpen
<1>3. PublishedOnceKeepsDigest
  <2> SUFFICES ASSUME NEW n \in Names, file[n] # NoUpload, side[n] # NoUpload,
                      Cardinality({u \in Uploads : NameOf[u] = n /\ Published(u)}) = 1
               PROVE  side[n] = file[n]
    BY DEF PublishedOnceKeepsDigest, ReportedDigest, SidecarPath
  <2> DEFINE S == {u \in Uploads : NameOf[u] = n /\ Published(u)}
  <2>1. file[n] \in S
    BY DEF StoreInv, StoreShape, FileIsOwn, TempIsOpen, Published
  <2>2. side[n] \in S BY DEF StoreInv, StoreShape, SideIsOwn, Published
  <2>3. IsFiniteSet(S) BY ArtifactStoreConstants, FS_Subset
  <2>4. \E x : S = {x} BY <2>3, FS_Singleton
  <2> QED BY <2>1, <2>2, <2>4
<1> QED BY <1>1, <1>2, <1>3

\* Through any race of uploads and deletes, any crash and any file operation that fails:
\* of the uploads that race for a name one gets it (persist_noclobber), an upload that
\* failed left nothing, and a name that was published once has the digest of its bytes.
THEOREM NamesAreConsistent ==
  StoreSpec => [](OneCreatorWins /\ AllOrNothing /\ PublishedOnceKeepsDigest)
<1>1. StoreSpec => []StoreInv BY StoreInitInv, StoreNextInv, PTL DEF StoreSpec
<1> QED BY <1>1, StoreInvImplies, PTL

-----------------------------------------------------------------------------
(* The kernel build *)

\* What was unpacked is of the tarball it lies beside.
SourcesAgree ==
  tarball # NoFile => /\ tar # NoFile => tar.of = tarball.of
                      /\ tree # NoFile => tree.of = tarball.of

\* A download follows only a purge that left nothing.
PurgedIsEmpty == step = "purged" => tar = NoFile /\ tree = NoFile

\* From the check of the hash on, the tarball is the pinned one.
TarballIsOfPin ==
  step \in {"unpack", "untar", "cleanup", "make", "config"} => tarball = Whole(want)

TreeIsThere == step \in {"cleanup", "make", "config"} => tree # NoFile

\* What is published while the build is about to say so.
KernelIsOut ==
  /\ step = "config" => vmlinux = [by |-> "make", of |-> tree.of]
  /\ step \in {"clear", "built"} => vmlinux.of = want

BuildInv ==
  /\ KernelTypeOK /\ SourcesAgree /\ PurgedIsEmpty /\ TarballIsOfPin /\ TreeIsThere
  /\ KernelIsOut /\ ConfigIsOfKernel

\* The initial states satisfy the invariant.
LEMMA BuildInitInv == KernelInit => BuildInv
BY KernelConstants
   DEF KernelInit, BuildInv, KernelTypeOK, SourcesAgree, PurgedIsEmpty, TarballIsOfPin,
       TreeIsThere, KernelIsOut, ConfigIsOfKernel, Files, KernelFiles

\* A file is none, or of a pin.
LEMMA FileOfPin ==
  /\ \A f \in Files : f # NoFile => f.of \in Pins /\ Cut(f.of) \in Files /\ Cut(f.of) # NoFile
  /\ \A p \in Pins : /\ Whole(p) \in Files /\ Whole(p) # NoFile /\ Whole(p).of = p
                     /\ Cut(p) \in Files /\ Cut(p) # NoFile /\ Cut(p).of = p
  /\ NoFile \in Files
BY KernelConstants DEF Files, NoFile, Whole, Cut

\* A failed purge leaves a part of what there was.
LEMMA LeavingsOf ==
  ASSUME NEW f \in Files, NEW g \in Leavings(f)
  PROVE  g \in Files /\ (g # NoFile => f # NoFile /\ g.of = f.of)
<1>1. CASE f = NoFile BY <1>1, FileOfPin DEF Leavings
<1>2. CASE f # NoFile
  <2>1. f.of \in Pins /\ Cut(f.of) \in Files /\ Cut(f.of).of = f.of BY <1>2, FileOfPin
  <2> QED BY <1>2, <2>1, FileOfPin DEF Leavings
<1> QED BY <1>1, <1>2

\* Every step preserves the invariant.
LEMMA BuildNextInv == BuildInv /\ [KernelNext]_kbVars => BuildInv'
<1> SUFFICES ASSUME BuildInv, [KernelNext]_kbVars PROVE BuildInv'
  OBVIOUS
<1> USE DEF BuildInv
<1>1. CASE Start
  <2>1. KernelTypeOK' BY <1>1, KernelConstants DEF Start, NeedsFetch, KernelTypeOK, TreeIsThere
  <2>2. SourcesAgree' /\ PurgedIsEmpty'
    BY <1>1 DEF Start, NeedsFetch, KernelTypeOK, SourcesAgree, PurgedIsEmpty
  <2>3. TarballIsOfPin' /\ TreeIsThere'
    BY <1>1 DEF Start, NeedsFetch, KernelTypeOK, TarballIsOfPin, TreeIsThere
  <2>4. KernelIsOut' /\ ConfigIsOfKernel'
    BY <1>1 DEF Start, NeedsFetch, KernelTypeOK, SourcesAgree, TarballIsOfPin, TreeIsThere,
       KernelIsOut,
                ConfigIsOfKernel
  <2> QED BY <2>1, <2>2, <2>3, <2>4
<1>2. CASE PurgeWorkdir
  <2>0. step = "fetch" /\ UNCHANGED <<pin, vmlinux, kconfig, bumps>> /\ want \in Pins
    BY <1>2 DEF PurgeWorkdir, KernelTypeOK
  <2>1. CASE tarball' = NoFile /\ tar' = NoFile /\ tree' = NoFile /\ step' = "purged"
             /\ UNCHANGED <<want, stops>>
    <3>1. KernelTypeOK' BY <2>0, <2>1, FileOfPin DEF KernelTypeOK
    <3> QED BY <2>0, <2>1, <3>1 DEF SourcesAgree, PurgedIsEmpty, TarballIsOfPin, TreeIsThere,
                                    KernelIsOut, ConfigIsOfKernel
  <2>2. CASE /\ stops < MaxStops /\ stops' = stops + 1
             /\ tarball' \in {tarball, NoFile} /\ tar' \in {tar, NoFile}
             /\ tree' \in Leavings(tree) /\ step' = "idle" /\ want' = 0
    <3>1. tree \in Files BY DEF KernelTypeOK
    <3>2. tree' \in Files /\ (tree' # NoFile => tree # NoFile /\ tree'.of = tree.of)
      BY <2>2, <3>1, LeavingsOf
    <3>3. KernelTypeOK' BY <2>0, <2>2, <3>2, FileOfPin, KernelConstants DEF KernelTypeOK
    <3>4. SourcesAgree' BY <2>2, <3>2 DEF SourcesAgree
    <3> QED BY <2>2, <3>3, <3>4 DEF PurgedIsEmpty, TarballIsOfPin, TreeIsThere, KernelIsOut,
                                    ConfigIsOfKernel
  <2> QED BY <1>2, <2>1, <2>2 DEF PurgeWorkdir, AfterPurge
<1>3. CASE Fetch
  <2>1. KernelTypeOK' BY <1>3, FileOfPin, KernelConstants DEF Fetch, KernelTypeOK, TreeIsThere
  <2>2. SourcesAgree' /\ PurgedIsEmpty'
    BY <1>3, FileOfPin DEF Fetch, KernelTypeOK, SourcesAgree, PurgedIsEmpty
  <2>3. TarballIsOfPin' /\ TreeIsThere'
    BY <1>3, FileOfPin DEF Fetch, KernelTypeOK, TarballIsOfPin, TreeIsThere
  <2>4. KernelIsOut' /\ ConfigIsOfKernel'
    BY <1>3, FileOfPin DEF Fetch, KernelTypeOK, SourcesAgree, TarballIsOfPin, TreeIsThere,
       KernelIsOut,
                ConfigIsOfKernel
  <2> QED BY <2>1, <2>2, <2>3, <2>4
<1>4. CASE Verify
  <2>1. KernelTypeOK' BY <1>4, KernelConstants DEF Verify, AfterVerify, KernelTypeOK, TreeIsThere
  <2>2. SourcesAgree' /\ PurgedIsEmpty'
    BY <1>4 DEF Verify, AfterVerify, KernelTypeOK, SourcesAgree, PurgedIsEmpty
  <2>3. TarballIsOfPin' /\ TreeIsThere'
    BY <1>4 DEF Verify, AfterVerify, KernelTypeOK, TarballIsOfPin, TreeIsThere
  <2>4. KernelIsOut' /\ ConfigIsOfKernel'
    BY <1>4 DEF Verify, AfterVerify, KernelTypeOK, SourcesAgree, TarballIsOfPin, TreeIsThere,
       KernelIsOut,
                ConfigIsOfKernel
  <2> QED BY <2>1, <2>2, <2>3, <2>4
<1>5. CASE Decompress
  <2>0. want \in Pins /\ tarball = Whole(want)
    BY <1>5 DEF Decompress, KernelTypeOK, TarballIsOfPin
  <2>1. KernelTypeOK' BY <1>5, <2>0, FileOfPin DEF Decompress, KernelTypeOK
  <2>2. SourcesAgree' /\ PurgedIsEmpty'
    BY <1>5, FileOfPin DEF Decompress, KernelTypeOK, SourcesAgree, PurgedIsEmpty
  <2>3. TarballIsOfPin' /\ TreeIsThere'
    BY <1>5, FileOfPin DEF Decompress, KernelTypeOK, TarballIsOfPin, TreeIsThere
  <2>4. KernelIsOut' /\ ConfigIsOfKernel'
    BY <1>5, FileOfPin DEF Decompress, KernelTypeOK, SourcesAgree, TarballIsOfPin, TreeIsThere,
       KernelIsOut,
                ConfigIsOfKernel
  <2> QED BY <2>1, <2>2, <2>3, <2>4
<1>6. CASE Unpack
  <2>1. KernelTypeOK' BY <1>6, KernelConstants DEF Unpack, KernelTypeOK, TreeIsThere
  <2>2. SourcesAgree' /\ PurgedIsEmpty'
    BY <1>6 DEF Unpack, KernelTypeOK, SourcesAgree, PurgedIsEmpty
  <2>3. TarballIsOfPin' /\ TreeIsThere'
    BY <1>6 DEF Unpack, KernelTypeOK, TarballIsOfPin, TreeIsThere
  <2>4. KernelIsOut' /\ ConfigIsOfKernel'
    BY <1>6 DEF Unpack, KernelTypeOK, SourcesAgree, TarballIsOfPin, TreeIsThere, KernelIsOut,
                ConfigIsOfKernel
  <2> QED BY <2>1, <2>2, <2>3, <2>4
<1>7. CASE RemoveTar
  <2>1. KernelTypeOK' BY <1>7, FileOfPin, KernelConstants DEF RemoveTar, KernelTypeOK, TreeIsThere
  <2>2. SourcesAgree' /\ PurgedIsEmpty'
    BY <1>7, FileOfPin DEF RemoveTar, KernelTypeOK, SourcesAgree, PurgedIsEmpty
  <2>3. TarballIsOfPin' /\ TreeIsThere'
    BY <1>7, FileOfPin DEF RemoveTar, KernelTypeOK, TarballIsOfPin, TreeIsThere
  <2>4. KernelIsOut' /\ ConfigIsOfKernel'
    BY <1>7, FileOfPin DEF RemoveTar, KernelTypeOK, SourcesAgree, TarballIsOfPin, TreeIsThere,
       KernelIsOut,
                ConfigIsOfKernel
  <2> QED BY <2>1, <2>2, <2>3, <2>4
<1>8. CASE Make
  <2>0. tree.of \in Pins BY <1>8, FileOfPin DEF Make, KernelTypeOK, TreeIsThere
  <2>1. KernelTypeOK' BY <1>8, <2>0 DEF Make, KernelFiles, KernelTypeOK
  <2>2. SourcesAgree' /\ PurgedIsEmpty'
    BY <1>8 DEF Make, KernelFiles, KernelTypeOK, SourcesAgree, PurgedIsEmpty
  <2>3. TarballIsOfPin' /\ TreeIsThere'
    BY <1>8 DEF Make, KernelFiles, KernelTypeOK, TarballIsOfPin, TreeIsThere
  <2>4. KernelIsOut' /\ ConfigIsOfKernel'
    BY <1>8 DEF Make, KernelFiles, KernelTypeOK, SourcesAgree, TarballIsOfPin, TreeIsThere,
       KernelIsOut,
                ConfigIsOfKernel
  <2> QED BY <2>1, <2>2, <2>3, <2>4
<1>9. CASE MakeFails
  <2>1. KernelTypeOK' BY <1>9, KernelConstants DEF MakeFails, KernelTypeOK, TreeIsThere
  <2>2. SourcesAgree' /\ PurgedIsEmpty'
    BY <1>9 DEF MakeFails, KernelTypeOK, SourcesAgree, PurgedIsEmpty
  <2>3. TarballIsOfPin' /\ TreeIsThere'
    BY <1>9 DEF MakeFails, KernelTypeOK, TarballIsOfPin, TreeIsThere
  <2>4. KernelIsOut' /\ ConfigIsOfKernel'
    BY <1>9 DEF MakeFails, KernelTypeOK, SourcesAgree, TarballIsOfPin, TreeIsThere, KernelIsOut,
                ConfigIsOfKernel
  <2> QED BY <2>1, <2>2, <2>3, <2>4
<1>10. CASE PublishKernelConfig
  <2>0. tree.of \in Pins BY <1>10, FileOfPin DEF PublishKernelConfig, KernelTypeOK, TreeIsThere
  <2>1. KernelTypeOK' BY <1>10, <2>0 DEF PublishKernelConfig, KernelFiles, KernelTypeOK
  <2>2. SourcesAgree' /\ PurgedIsEmpty'
    BY <1>10 DEF PublishKernelConfig, KernelFiles, KernelTypeOK, SourcesAgree, PurgedIsEmpty
  <2>3. TarballIsOfPin' /\ TreeIsThere'
    BY <1>10 DEF PublishKernelConfig, KernelFiles, KernelTypeOK, TarballIsOfPin, TreeIsThere
  <2>4. KernelIsOut' /\ ConfigIsOfKernel'
    BY <1>10, FileOfPin DEF PublishKernelConfig, KernelFiles, KernelTypeOK, SourcesAgree,
       TarballIsOfPin, TreeIsThere, KernelIsOut,
                ConfigIsOfKernel
  <2> QED BY <2>1, <2>2, <2>3, <2>4
<1>11. CASE Prebuilt
  <2>1. KernelTypeOK' BY <1>11, KernelConstants DEF Prebuilt, KernelFiles, KernelTypeOK, TreeIsThere
  <2>2. SourcesAgree' /\ PurgedIsEmpty'
    BY <1>11 DEF Prebuilt, KernelFiles, KernelTypeOK, SourcesAgree, PurgedIsEmpty
  <2>3. TarballIsOfPin' /\ TreeIsThere'
    BY <1>11 DEF Prebuilt, KernelFiles, KernelTypeOK, TarballIsOfPin, TreeIsThere
  <2>4. KernelIsOut' /\ ConfigIsOfKernel'
    BY <1>11 DEF Prebuilt, KernelFiles, KernelTypeOK, SourcesAgree, TarballIsOfPin, TreeIsThere,
       KernelIsOut,
                ConfigIsOfKernel
  <2> QED BY <2>1, <2>2, <2>3, <2>4
<1>12. CASE ClearConfig
  <2>1. KernelTypeOK'
    BY <1>12, KernelConstants DEF ClearConfig, Cleared, KernelFiles, KernelTypeOK, TreeIsThere
  <2>2. SourcesAgree' /\ PurgedIsEmpty'
    BY <1>12 DEF ClearConfig, Cleared, KernelFiles, KernelTypeOK, SourcesAgree, PurgedIsEmpty
  <2>3. TarballIsOfPin' /\ TreeIsThere'
    BY <1>12 DEF ClearConfig, Cleared, KernelFiles, KernelTypeOK, TarballIsOfPin, TreeIsThere
  <2>4. KernelIsOut' /\ ConfigIsOfKernel'
    BY <1>12 DEF ClearConfig, Cleared, KernelFiles, KernelTypeOK, SourcesAgree, TarballIsOfPin,
       TreeIsThere, KernelIsOut,
                ConfigIsOfKernel
  <2> QED BY <2>1, <2>2, <2>3, <2>4
<1>13. CASE Return
  <2>1. KernelTypeOK' BY <1>13, KernelConstants DEF Return, KernelTypeOK, TreeIsThere
  <2>2. SourcesAgree' /\ PurgedIsEmpty'
    BY <1>13 DEF Return, KernelTypeOK, SourcesAgree, PurgedIsEmpty
  <2>3. TarballIsOfPin' /\ TreeIsThere'
    BY <1>13 DEF Return, KernelTypeOK, TarballIsOfPin, TreeIsThere
  <2>4. KernelIsOut' /\ ConfigIsOfKernel'
    BY <1>13 DEF Return, KernelTypeOK, SourcesAgree, TarballIsOfPin, TreeIsThere, KernelIsOut,
                ConfigIsOfKernel
  <2> QED BY <2>1, <2>2, <2>3, <2>4
<1>14. CASE Bump
  <2>1. KernelTypeOK' BY <1>14, KernelConstants DEF Bump, KernelTypeOK, TreeIsThere
  <2>2. SourcesAgree' /\ PurgedIsEmpty'
    BY <1>14 DEF Bump, KernelTypeOK, SourcesAgree, PurgedIsEmpty
  <2>3. TarballIsOfPin' /\ TreeIsThere'
    BY <1>14 DEF Bump, KernelTypeOK, TarballIsOfPin, TreeIsThere
  <2>4. KernelIsOut' /\ ConfigIsOfKernel'
    BY <1>14 DEF Bump, KernelTypeOK, SourcesAgree, TarballIsOfPin, TreeIsThere, KernelIsOut,
                ConfigIsOfKernel
  <2> QED BY <2>1, <2>2, <2>3, <2>4
<1>15. CASE Stopped
  <2>0. /\ step # "idle" => want \in Pins
        /\ step = "unpack" => tarball.of \in Pins
        /\ step = "untar" => tar.of \in Pins
    BY FileOfPin DEF KernelTypeOK, TarballIsOfPin
  <2>5. tarball' \in Files /\ tar' \in Files /\ tree' \in Files
    BY <1>15, <2>0, FileOfPin DEF Stopped, KernelTypeOK
  <2>6. stops' \in 0 .. MaxStops /\ step' = "idle" /\ want' = 0
        /\ UNCHANGED <<pin, vmlinux, kconfig, bumps>>
    BY <1>15, KernelConstants DEF Stopped, KernelTypeOK
  <2>1. KernelTypeOK' BY <2>5, <2>6 DEF KernelTypeOK
  <2>2. SourcesAgree' /\ PurgedIsEmpty'
    BY <1>15, FileOfPin DEF Stopped, KernelTypeOK, SourcesAgree, PurgedIsEmpty
  <2>3. TarballIsOfPin' /\ TreeIsThere'
    BY <1>15, FileOfPin DEF Stopped, KernelTypeOK, TarballIsOfPin, TreeIsThere
  <2>4. KernelIsOut' /\ ConfigIsOfKernel'
    BY <1>15, FileOfPin DEF Stopped, KernelTypeOK, SourcesAgree, TarballIsOfPin, TreeIsThere,
       KernelIsOut,
                ConfigIsOfKernel
  <2> QED BY <2>1, <2>2, <2>3, <2>4
<1>16. CASE UNCHANGED kbVars
  BY <1>16 DEF kbVars, KernelTypeOK, SourcesAgree, PurgedIsEmpty, TarballIsOfPin, TreeIsThere,
               KernelIsOut, ConfigIsOfKernel
<1> QED BY <1>1, <1>2, <1>3, <1>4, <1>5, <1>6, <1>7, <1>8, <1>9, <1>10,
           <1>11, <1>12, <1>13, <1>14, <1>15, <1>16 DEF KernelNext

\* The invariant implies the property.
LEMMA BuildInvImplies == BuildInv => KernelBuildSafe
<1> SUFFICES ASSUME BuildInv PROVE KernelBuildSafe
  OBVIOUS
<1>1. ASSUME step = "config" PROVE vmlinux.of = want
  <2>1. want \in Pins BY <1>1 DEF BuildInv, KernelTypeOK
  <2>2. tarball = Whole(want) /\ tree # NoFile BY <1>1 DEF BuildInv, TarballIsOfPin, TreeIsThere
  <2>3. tree.of = want BY <2>1, <2>2, FileOfPin DEF BuildInv, SourcesAgree
  <2> QED BY <1>1, <2>3 DEF BuildInv, KernelIsOut
<1> QED BY <1>1 DEF BuildInv, KernelIsOut, KernelIsOfPin, KernelBuildSafe

\* For any set of pins, bumped and reverted any number of times, with builds killed
\* between any two steps, downloads of other bytes and purges that fail half-way: a
\* kernel is published only from the sources of its pin, and the resolved config beside
\* it is its own (kernel.rs: the purge before a fetch, the hash after it).
THEOREM KernelsAreOfTheirPin == KernelSpec => []KernelBuildSafe
<1>1. KernelSpec => []BuildInv BY BuildInitInv, BuildNextInv, PTL DEF KernelSpec
<1> QED BY <1>1, BuildInvImplies, PTL
=============================================================================
