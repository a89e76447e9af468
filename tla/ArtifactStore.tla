--------------------------- MODULE ArtifactStore ----------------------------
(***************************************************************************)
(* The daemon's flat artifact store (vmcell-daemon/src/artifact_store.rs)  *)
(* as the handlers of server.rs drive it: streaming uploads under a quota, *)
(* published by a no-clobber rename and then given a digest sidecar, next  *)
(* to deletes, crashes of the daemon and the residue collection at start.  *)
(*                                                                         *)
(* An upload stands for its own bytes and for their digest.  The sidecars' *)
(* 64 bytes are not counted.                                               *)
(***************************************************************************)
EXTENDS Naturals, FiniteSets, FiniteSetsExt

CONSTANTS
  Names,
  Uploads,
  NameOf,       \* [Uploads -> Names]
  Deletes,
  TargetOf,     \* [Deletes -> Names]
  MaxBytes,     \* --max-artifact-bytes
  Quota,        \* --max-store-bytes
  PrefixBytes,  \* what snapshot prefixes hold
  MaxStoreCrashes,  \* bound: crashes of the daemon
  Faults,       \* whether a file operation may fail
  NoUpload

ASSUME ArtifactStoreConstants ==
  /\ NameOf \in [Uploads -> Names]
  /\ TargetOf \in [Deletes -> Names]
  /\ IsFiniteSet(Uploads) /\ Faults \in BOOLEAN
  /\ {MaxBytes, Quota, PrefixBytes, MaxStoreCrashes} \subseteq Nat
  /\ NoUpload \notin Names \cup Uploads \cup Deletes

VARIABLES
  up,       \* [Uploads -> the state of the upload]
  limit,    \* [Uploads -> ArtifactWriter::limit]
  written,  \* [Uploads -> ArtifactWriter::written]
  temp,     \* the uploads whose temp file is on disk
  file,     \* [Names -> the upload whose bytes the file holds]
  side,     \* [Names -> the upload whose digest the sidecar holds]
  del,      \* [Deletes -> the state of the delete]
  serving,  \* FALSE from a crash to the end of the start-up collection
  storeCrashes,
  opened    \* history: the last upload let in and those then in flight

store == <<temp, file, side>>
storeVars == <<up, limit, written, temp, file, side, del, serving, storeCrashes, opened>>

StoreTypeOK ==
  /\ up \in [Uploads -> {"new", "stream", "persisted", "done", "err", "kept", "dead"}]
  /\ limit \in [Uploads -> 0..MaxBytes]
  /\ written \in [Uploads -> 0..MaxBytes]
  /\ temp \subseteq Uploads
  /\ file \in [Names -> Uploads \cup {NoUpload}]
  /\ side \in [Names -> Uploads \cup {NoUpload}]
  /\ del \in [Deletes -> {"new", "unlinked", "done", "dead"}]
  /\ serving \in BOOLEAN
  /\ storeCrashes \in 0..MaxStoreCrashes
  /\ opened \in [last : Uploads \cup {NoUpload}, beside : SUBSET Uploads]

StoreInit ==
  /\ up = [u \in Uploads |-> "new"]
  /\ limit = [u \in Uploads |-> 0]
  /\ written = [u \in Uploads |-> 0]
  /\ temp = {}
  /\ file = [n \in Names |-> NoUpload]
  /\ side = [n \in Names |-> NoUpload]
  /\ del = [d \in Deletes |-> "new"]
  /\ serving = TRUE
  /\ storeCrashes = 0
  /\ opened = [last |-> NoUpload, beside |-> {}]

-----------------------------------------------------------------------------

Bytes(us) == MapThenSumSet(LAMBDA u : written[u], us)

\* usage: everything in the directory, temp files included.
UsedBytes ==
  PrefixBytes + Bytes(temp) + Bytes({u \in Uploads : file[NameOf[u]] = u})

\* Mutant: with_extension in place of an append, so that names collide.
SidecarPathReplaces(n) == CHOOSE m \in Names : TRUE

\* sidecar_path: one sidecar for each name.
SidecarPath(n) == n

\* artifact_info: the sidecar's digest, or a fresh one of a file without any.
ReportedDigest(n) ==
  IF side[SidecarPath(n)] # NoUpload THEN side[SidecarPath(n)] ELSE file[n]

Streaming == {u \in Uploads : up[u] = "stream"}

UploadGoto(u, state) == up' = [up EXCEPT ![u] = state]

\* check_quota_headroom.
Headroom == IF UsedBytes >= Quota THEN 0 ELSE Quota - UsedBytes

\* create_streaming: the early existence check and the quota, before a byte.
Open(u) ==
  /\ serving /\ up[u] = "new"
  /\ IF file[NameOf[u]] = NoUpload /\ Headroom > 0
     THEN /\ UploadGoto(u, "stream")
          /\ limit' = [limit EXCEPT ![u] = Min({Headroom, MaxBytes})]
          /\ temp' = temp \cup {u}
          /\ opened' = [last |-> u, beside |-> Streaming]
     ELSE UploadGoto(u, "err") /\ UNCHANGED <<limit, temp, opened>>
  /\ UNCHANGED <<written, file, side, del, serving, storeCrashes>>

\* The directory cannot be measured, or the temp file not made.
OpenFails(u) ==
  /\ Faults /\ serving /\ up[u] = "new"
  /\ UploadGoto(u, "err")
  /\ UNCHANGED <<limit, written, store, del, serving, storeCrashes, opened>>

\* Dropping an ArtifactWriter removes its temp file.
DropWriter(u) == UploadGoto(u, "err") /\ temp' = temp \ {u}

\* write_chunk.
WriteChunk(u) ==
  /\ serving /\ up[u] = "stream"
  /\ IF written[u] + 1 > limit[u]
     THEN DropWriter(u) /\ UNCHANGED written
     ELSE written' = [written EXCEPT ![u] = @ + 1] /\ UNCHANGED <<up, temp>>
  /\ UNCHANGED <<limit, file, side, del, serving, storeCrashes, opened>>

\* The body fails in mid-stream, the client disconnects, or a write fails.
Abandon(u) ==
  /\ serving /\ up[u] = "stream"
  /\ DropWriter(u)
  /\ UNCHANGED <<limit, written, file, side, del, serving, storeCrashes, opened>>

\* finish: persist_noclobber claims the name.
Persist(u) ==
  /\ serving /\ up[u] = "stream"
  /\ IF file[NameOf[u]] = NoUpload
     THEN /\ UploadGoto(u, "persisted") /\ temp' = temp \ {u}
          /\ file' = [file EXCEPT ![NameOf[u]] = u]
     ELSE DropWriter(u) /\ UNCHANGED file
  /\ UNCHANGED <<limit, written, side, del, serving, storeCrashes, opened>>

\* write_sidecar replaces whatever sidecar is there.
WriteSidecar(u) ==
  /\ serving /\ up[u] = "persisted"
  /\ side' = [side EXCEPT ![SidecarPath(NameOf[u])] = u]
  /\ UploadGoto(u, "done")
  /\ UNCHANGED <<limit, written, temp, file, del, serving, storeCrashes, opened>>

\* The sidecar cannot be written: the file under the name is removed.
SidecarFails(u) ==
  /\ Faults /\ serving /\ up[u] = "persisted"
  /\ file' = [file EXCEPT ![NameOf[u]] = NoUpload]
  /\ UploadGoto(u, "err")
  /\ UNCHANGED <<limit, written, temp, side, del, serving, storeCrashes, opened>>

\* The removal fails too, and the name stays taken.
RollbackFails(u) ==
  /\ Faults /\ serving /\ up[u] = "persisted"
  /\ UploadGoto(u, "kept")
  /\ UNCHANGED <<limit, written, store, del, serving, storeCrashes, opened>>

\* delete: the file, then its sidecar.
DeleteFile(d) ==
  /\ serving /\ del[d] = "new"
  /\ LET n == TargetOf[d] IN
       /\ del' = [del EXCEPT ![d] = IF file[n] = NoUpload THEN "done" ELSE "unlinked"]
       /\ file' = [file EXCEPT ![n] = NoUpload]
  /\ UNCHANGED <<up, limit, written, temp, side, serving, storeCrashes, opened>>

DeleteSidecar(d) ==
  /\ serving /\ del[d] = "unlinked"
  /\ del' = [del EXCEPT ![d] = "done"]
  /\ side' = [side EXCEPT ![SidecarPath(TargetOf[d])] = NoUpload]
  /\ UNCHANGED <<up, limit, written, temp, file, serving, storeCrashes, opened>>

\* The sidecar cannot be removed; that is logged.
DeleteSidecarFails(d) ==
  /\ Faults /\ serving /\ del[d] = "unlinked"
  /\ del' = [del EXCEPT ![d] = "done"]
  /\ UNCHANGED <<up, limit, written, store, serving, storeCrashes, opened>>

StoreCrash ==
  /\ serving /\ storeCrashes < MaxStoreCrashes
  /\ storeCrashes' = storeCrashes + 1
  /\ serving' = FALSE
  /\ up' = [u \in Uploads |-> IF up[u] \in {"stream", "persisted"} THEN "dead" ELSE up[u]]
  /\ del' = [d \in Deletes |-> IF del[d] = "unlinked" THEN "dead" ELSE del[d]]
  /\ UNCHANGED <<limit, written, store, opened>>

\* collect_residue at start: what is older than the age floor, among the temp
\* files and the sidecars whose artifact is gone.
CollectResidue(temps, sides) ==
  /\ ~serving
  /\ temps \subseteq temp
  /\ \A n \in sides : side[n] # NoUpload /\ file[n] = NoUpload
  /\ temp' = temp \ temps
  /\ side' = [n \in Names |-> IF n \in sides THEN NoUpload ELSE side[n]]
  /\ serving' = TRUE
  /\ UNCHANGED <<up, limit, written, file, del, storeCrashes, opened>>

StoreNext ==
  \/ \E u \in Uploads :
       \/ Open(u) \/ OpenFails(u) \/ WriteChunk(u) \/ Abandon(u) \/ Persist(u)
       \/ WriteSidecar(u) \/ SidecarFails(u) \/ RollbackFails(u)
  \/ \E d \in Deletes : DeleteFile(d) \/ DeleteSidecar(d) \/ DeleteSidecarFails(d)
  \/ StoreCrash
  \/ \E temps \in SUBSET Uploads, sides \in SUBSET Names : CollectResidue(temps, sides)

StoreSpec == StoreInit /\ [][StoreNext]_storeVars

-----------------------------------------------------------------------------
(* Properties *)

Published(u) == up[u] \in {"persisted", "done", "kept"} \/ (up[u] = "dead" /\ u \notin temp)

\* Create only, no update: of the uploads that race for a name one gets it, and
\* another only after a delete of the name (persist_noclobber).
OneCreatorWins ==
  \A n \in Names :
    Cardinality({u \in Uploads : NameOf[u] = n /\ up[u] \in {"persisted", "done", "kept"}}) > 1
      => \E d \in Deletes : TargetOf[d] = n /\ del[d] # "new"

\* A create is all or nothing: an upload that returned an error left neither an
\* artifact nor a temp file, and one cut off by a crash no artifact that is not
\* whole (a temp file never carries a name).
AllOrNothing ==
  \A u \in Uploads : up[u] = "err" => file[NameOf[u]] # u /\ u \notin temp

\* The quota, asked once when an upload is let in, bounds the store by what the
\* uploads then in flight may still add: with none of them, by the quota.
QuotaOvershootIsBounded ==
  UsedBytes <= Max({Quota, PrefixBytes}) + Bytes(opened.beside)

\* The digest reported for an artifact is the digest of its contents, through
\* crashes and failures, for a name that was published once, whatever happens to
\* its neighbours in the directory.
PublishedOnceKeepsDigest ==
  \A n \in Names :
    (file[n] # NoUpload /\ Cardinality({u \in Uploads : NameOf[u] = n /\ Published(u)}) = 1)
    => ReportedDigest(n) = file[n]

\* What a create, a delete and a crash leave under a name, and how much of it.
StoreSafe ==
  /\ StoreTypeOK
  /\ OneCreatorWins
  /\ AllOrNothing
  /\ QuotaOvershootIsBounded
  /\ PublishedOnceKeepsDigest
=============================================================================
