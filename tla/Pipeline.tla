------------------------------ MODULE Pipeline ------------------------------
(***************************************************************************)
(* The artifact pipeline (artifact/mod.rs): stages that each leave a       *)
(* payload and a .cache_key sidecar [key, hash] in one directory, and the  *)
(* test bootstrap ensure_test_artifacts that puts a lock and a freshness   *)
(* stamp in front of it.                                                   *)
(*                                                                         *)
(* Builders are processes.  A "tester" calls ensure_test_artifacts and     *)
(* builds steward and rootfs under the flock; a "cli" runs `vmcell build`, *)
(* kernel, steward and rootfs, with no lock, or Pipeline::reset_to.  The   *)
(* sources are edited, and reverted, by people.  A builder may fail at any *)
(* write or be killed between two; files are written in place.             *)
(*                                                                         *)
(* Contents are named by the source version they were built from, and a    *)
(* hash is the content it is taken of.  Abstracted: the pins stage (a      *)
(* function of its key), guest_tools (as steward) and the feature manifest.*)
(***************************************************************************)
EXTENDS Naturals, Sequences

CONSTANTS
    Testers, Clis,      \* builder processes
    MaxEdits,           \* bound: edits of the sources
    MaxFaults           \* bound: builders killed and writes that fail

Builders == Testers \cup Clis
Versions == 1 .. 2
StageNames == {"kernel", "steward", "rootfs"}
Absent == [v |-> 0]         \* no such file
Partial == [v |-> 3]        \* a file its writer did not finish
Image(s, p) == [v |-> 4, steward |-> s, packer |-> p]
NoKey == [key |-> Absent, hash |-> Absent]
TornKey == [key |-> Partial, hash |-> Partial]
NoBuilder == "nobody"

Kernels == {[v |-> n] : n \in 0 .. 3}
Images == {Absent, Partial} \cup {Image(s, p) : s \in Kernels, p \in Versions}

VARIABLES
    src,        \* the sources: kernel pin, steward crate, rootfs packer
    payload,    \* a stage's output
    config,     \* the kernel's resolved-config sibling
    sidecar,    \* a stage's .cache_key
    stamp,      \* .build.stamp
    lock,       \* who holds the flock on .build.lock
    ppc,         \* where a builder is
    stage,      \* the stage it is at
    key,        \* the key it computed for that stage
    content,    \* what the run of the stage is about to write
    print,      \* a tester's fingerprint
    packer,     \* the packer compiled into a builder, 0 when it is not running
    edited,     \* the sources changed since the tester started
    raced,      \* a key and the run it names saw different sources or files
    edits, faults

plVars == <<src, payload, config, sidecar, stamp, lock, ppc, stage, key, content,
            print, packer, edited, raced, edits, faults>>

Sources == [kernel : Versions, steward : Versions, packer : Versions]
NoSources == [kernel |-> 0, steward |-> 0, packer |-> 0]
Busy == {"key", "run", "write", "sibling", "record", "purge", "unkey"}

PipelineTypeOK ==
    /\ src \in Sources
    /\ payload \in [StageNames -> Kernels \cup Images]
    /\ payload["rootfs"] \in Images /\ payload["kernel"] \in Kernels
    /\ payload["steward"] \in Kernels /\ config \in Kernels
    /\ sidecar \in [StageNames -> [key : Kernels \cup Images, hash : Kernels \cup Images]]
    /\ stamp \in Sources \cup {NoSources}
    /\ lock \in Testers \cup {NoBuilder}
    /\ ppc \in [Builders -> Busy \cup {"idle", "lock", "check", "stamp", "ok"}]
    /\ stage \in [Builders -> StageNames]
    /\ key \in [Builders -> Kernels] /\ content \in [Builders -> Kernels \cup Images]
    /\ print \in [Builders -> Sources \cup {NoSources}]
    /\ packer \in [Builders -> {0} \cup Versions]
    /\ edited \in [Builders -> BOOLEAN] /\ raced \in BOOLEAN
    /\ edits \in 0 .. MaxEdits /\ faults \in 0 .. MaxFaults
    /\ \A b \in Testers : (lock = b) <=> (ppc[b] \in Busy \cup {"check", "stamp"})

PipelineInit ==
    /\ src = [kernel |-> 1, steward |-> 1, packer |-> 1]
    /\ payload = [s \in StageNames |-> Absent] /\ config = Absent
    /\ sidecar = [s \in StageNames |-> NoKey]
    /\ stamp = NoSources /\ lock = NoBuilder
    /\ ppc = [b \in Builders |-> "idle"] /\ stage = [b \in Builders |-> "steward"]
    /\ key = [b \in Builders |-> Absent] /\ content = [b \in Builders |-> Absent]
    /\ print = [b \in Builders |-> NoSources] /\ packer = [b \in Builders |-> 0]
    /\ edited = [b \in Builders |-> FALSE]
    /\ raced = FALSE /\ edits = 0 /\ faults = 0

-----------------------------------------------------------------------------
(* What the stages compute. *)

\* The fast stages consume neither the kernel nor its pin.
Fingerprint == [src EXCEPT !.kernel = 1]

\* Stage::cache_key, over the sources or over the content of the upstream
\* artifact; an artifact that is not there folds a marker of its own.  The key
\* of the rootfs does not see the packer.
StageKey(s) == IF s = "rootfs" THEN payload["steward"] ELSE [v |-> src[s]]

\* What a run reads now; the packer is part of the builder itself.
StageContent(b, s) ==
    IF s = "rootfs" THEN Image(payload["steward"], packer[b]) ELSE [v |-> src[s]]

\* Mutant: the payload is not hashed on a hit.
VerifiedNot(s) == TRUE
\* hash_output of the payload against the sidecar.
Verified(s) == payload[s] = sidecar[s].hash

Known(s, k) ==
    /\ payload[s] # Absent /\ sidecar[s] \notin {NoKey, TornKey}
    /\ sidecar[s].key = k

\* The artifacts the sidecar registered are all still there.
RegisteredExist(s) == s = "kernel" => config # Absent

Hit(s, k) == Known(s, k) /\ Verified(s) /\ RegisteredExist(s)

NextStage(s) == CASE s = "kernel" -> "steward" [] s = "steward" -> "rootfs" [] OTHER -> "steward"

\* A builder without the lock and another are at work on one directory.
Overlaps(b) ==
    \E o \in Builders \ {b} : ppc[o] \in Busy \cup {"stamp"} /\ {b, o} \cap Clis # {}

-----------------------------------------------------------------------------
(* ensure_test_artifacts. *)

\* A session starts; it waits for the lock.
Session(t) ==
    /\ ppc[t] = "idle"
    /\ ppc' = [ppc EXCEPT ![t] = "lock"] /\ packer' = [packer EXCEPT ![t] = src.packer]
    /\ UNCHANGED <<src, payload, config, sidecar, stamp, lock, stage, key, content,
                   print, edited, raced, edits, faults>>

LockFree == lock = NoBuilder

TakeLock(t) ==
    /\ ppc[t] = "lock" /\ LockFree
    /\ lock' = t
    /\ ppc' = [ppc EXCEPT ![t] = "check"]
    /\ UNCHANGED <<src, payload, config, sidecar, stamp, stage, key, content, print,
                   packer, edited, raced, edits, faults>>

\* artifacts_stamp_fresh
StampFresh == payload["rootfs"] # Absent /\ stamp = Fingerprint

\* The rootfs sidecar is removed, to force a pack.
Unkeyed(s) == [s EXCEPT !["rootfs"] = NoKey]

\* The fingerprint is taken and compared with the stamp: a fresh directory is
\* served as it is; otherwise the rootfs loses its sidecar and the pipeline runs.
StampCheck(t) ==
    /\ ppc[t] = "check"
    /\ print' = [print EXCEPT ![t] = Fingerprint]
    /\ \/ /\ StampFresh
          /\ ppc' = [ppc EXCEPT ![t] = "ok"] /\ lock' = NoBuilder
          /\ UNCHANGED <<sidecar, stage, raced>>
       \/ /\ ~StampFresh
          /\ sidecar' = Unkeyed(sidecar)
          /\ ppc' = [ppc EXCEPT ![t] = "key"] /\ stage' = [stage EXCEPT ![t] = "steward"]
          /\ raced' = (raced \/ Overlaps(t)) /\ UNCHANGED lock
    /\ UNCHANGED <<src, payload, config, stamp, key, content, edited, packer, edits, faults>>

\* The pipeline returned Ok: the stamp records the fingerprint taken before it.
WriteStamp(t) ==
    /\ ppc[t] = "stamp"
    /\ stamp' = print[t] /\ lock' = NoBuilder
    /\ ppc' = [ppc EXCEPT ![t] = "ok"]
    /\ UNCHANGED <<src, payload, config, sidecar, stage, key, content, print, edited,
                   packer, raced, edits, faults>>

-----------------------------------------------------------------------------
(* Pipeline::build, a stage at a time. *)

\* `vmcell build` starts with the kernel.
CliBuild(c) ==
    /\ ppc[c] = "idle"
    /\ ppc' = [ppc EXCEPT ![c] = "key"] /\ stage' = [stage EXCEPT ![c] = "kernel"]
    /\ packer' = [packer EXCEPT ![c] = src.packer]
    /\ raced' = (raced \/ Overlaps(c))
    /\ UNCHANGED <<src, payload, config, sidecar, stamp, lock, key, content, print,
                   edited, edits, faults>>

\* What follows the last stage.
Finished(b) == IF b \in Testers THEN "stamp" ELSE "idle"

StageDone(b) ==
    /\ ppc' = [ppc EXCEPT ![b] = IF stage[b] = "rootfs" THEN Finished(b) ELSE "key"]
    /\ stage' = [stage EXCEPT ![b] = NextStage(@)]
    /\ packer' = [packer EXCEPT ![b] = IF ppc'[b] = "idle" THEN 0 ELSE @]
    /\ key' = [key EXCEPT ![b] = Absent] /\ content' = [content EXCEPT ![b] = Absent]

\* The process is through, or dead; its lock goes with it.
Over(b) ==
    /\ ppc' = [ppc EXCEPT ![b] = "idle"]
    /\ lock' = IF lock = b THEN NoBuilder ELSE lock
    /\ stage' = [stage EXCEPT ![b] = "steward"]
    /\ key' = [key EXCEPT ![b] = Absent] /\ content' = [content EXCEPT ![b] = Absent]
    /\ print' = [print EXCEPT ![b] = NoSources]
    /\ edited' = [edited EXCEPT ![b] = FALSE] /\ packer' = [packer EXCEPT ![b] = 0]

\* The stage is keyed and looked up: a hit, a tampered payload, or a run.
LookUp(b) ==
    LET s == stage[b]  k == StageKey(s) IN
    /\ ppc[b] = "key"
    /\ \/ Hit(s, k) /\ StageDone(b) /\ UNCHANGED <<lock, print, edited>>
       \/ Known(s, k) /\ ~Verified(s) /\ Over(b)
       \/ /\ ~Hit(s, k) /\ ~(Known(s, k) /\ ~Verified(s))
          /\ ppc' = [ppc EXCEPT ![b] = "run"] /\ key' = [key EXCEPT ![b] = k]
          /\ UNCHANGED <<stage, lock, content, print, packer, edited>>
    /\ UNCHANGED <<src, payload, config, sidecar, stamp, raced, edits, faults>>

\* Stage::run reads its inputs and opens its output for writing.
RunStage(b) ==
    /\ ppc[b] = "run"
    /\ content' = [content EXCEPT ![b] = StageContent(b, stage[b])]
    /\ payload' = [payload EXCEPT ![stage[b]] = Partial]
    /\ ppc' = [ppc EXCEPT ![b] = "write"]
    /\ UNCHANGED <<src, config, sidecar, stamp, lock, stage, key, print, edited, raced,
                   packer, edits, faults>>

\* The payload is complete; the kernel's config is published after it.
WritePayload(b) ==
    /\ ppc[b] = "write"
    /\ payload' = [payload EXCEPT ![stage[b]] = content[b]]
    /\ ppc' = [ppc EXCEPT ![b] = IF stage[b] = "kernel" THEN "sibling" ELSE "record"]
    /\ UNCHANGED <<src, config, sidecar, stamp, lock, stage, key, content, print,
                   packer, edited, raced, edits, faults>>

\* publish_resolved_config
PublishConfig(b) ==
    /\ ppc[b] = "sibling"
    /\ config' = content[b]
    /\ ppc' = [ppc EXCEPT ![b] = "record"]
    /\ UNCHANGED <<src, payload, sidecar, stamp, lock, stage, key, content, print,
                   packer, edited, raced, edits, faults>>

\* The output is hashed and the sidecar written; when that fails it is only
\* warned about, and the file keeps what it had or is torn.
Record(b) ==
    /\ ppc[b] = "record"
    /\ LET s == stage[b] IN
       \/ /\ sidecar' = [sidecar EXCEPT ![s] = [key |-> key[b], hash |-> payload[s]]]
          /\ UNCHANGED faults
       \/ /\ faults < MaxFaults /\ faults' = faults + 1
          /\ sidecar' \in {sidecar, [sidecar EXCEPT ![s] = TornKey]}
    /\ StageDone(b)
    /\ UNCHANGED <<src, payload, config, stamp, lock, print, edited, raced, edits>>

-----------------------------------------------------------------------------
(* Pipeline::reset_to. *)

ResetTo(c, s) ==
    /\ ppc[c] = "idle"
    /\ ppc' = [ppc EXCEPT ![c] = "purge"] /\ stage' = [stage EXCEPT ![c] = s]
    /\ raced' = (raced \/ Overlaps(c))
    /\ UNCHANGED <<src, payload, config, sidecar, stamp, lock, key, content, print,
                   edited, packer, edits, faults>>

\* The siblings a readable sidecar registers, then the payload.
Purge(c) ==
    /\ ppc[c] = "purge"
    /\ config' = IF stage[c] = "kernel" /\ sidecar["kernel"] \notin {NoKey, TornKey}
                 THEN Absent ELSE config
    /\ payload' = [payload EXCEPT ![stage[c]] = Absent]
    /\ ppc' = [ppc EXCEPT ![c] = "unkey"]
    /\ UNCHANGED <<src, sidecar, stamp, lock, stage, key, content, print, edited,
                   packer, raced, edits, faults>>

\* The sidecar goes last; the stages after the named one follow.
Unkey(c) ==
    /\ ppc[c] = "unkey"
    /\ sidecar' = [sidecar EXCEPT ![stage[c]] = NoKey]
    /\ ppc' = [ppc EXCEPT ![c] = IF stage[c] = "rootfs" THEN "idle" ELSE "purge"]
    /\ stage' = [stage EXCEPT ![c] = NextStage(@)]
    /\ UNCHANGED <<src, payload, config, stamp, lock, key, content, print, edited,
                   packer, raced, edits, faults>>

-----------------------------------------------------------------------------
(* The world. *)

\* Someone edits, or reverts, a source.
Edit(s) ==
    /\ edits < MaxEdits /\ edits' = edits + 1
    /\ src' = [src EXCEPT ![s] = 3 - @]
    /\ edited' = [b \in Builders |-> b \in Testers /\ ppc[b] # "idle"]
    /\ raced' = (raced \/ \E b \in Builders : ppc[b] = "run")
    /\ UNCHANGED <<packer, payload, config, sidecar, stamp, lock, ppc, stage, key, content,
                   print, faults>>

\* A build returns an error, or its process is killed where it stands.
Fail(b) ==
    /\ ppc[b] \in Busy \cup {"check", "stamp"} /\ faults < MaxFaults
    /\ faults' = faults + 1 /\ Over(b)
    /\ UNCHANGED <<src, payload, config, sidecar, stamp, raced, edits>>

\* The session that was served ends.
SessionEnds(t) ==
    /\ ppc[t] = "ok" /\ Over(t)
    /\ UNCHANGED <<src, payload, config, sidecar, stamp, raced, edits, faults>>

PipelineNext ==
    \/ \E t \in Testers : Session(t) \/ TakeLock(t) \/ StampCheck(t)
        \/ WriteStamp(t) \/ SessionEnds(t)
    \/ \E c \in Clis : CliBuild(c) \/ Purge(c) \/ Unkey(c)
    \/ \E c \in Clis, s \in StageNames : ResetTo(c, s)
    \/ \E b \in Builders :
        \/ LookUp(b) \/ RunStage(b) \/ WritePayload(b) \/ PublishConfig(b) \/ Record(b)
        \/ Fail(b)
    \/ \E s \in {"kernel", "steward", "packer"} : Edit(s)

PipelineSpec == PipelineInit /\ [][PipelineNext]_plVars

-----------------------------------------------------------------------------
(* Properties. *)

\* A stage that Pipeline::build would skip right now has, in its payload, what
\* a run would put there: whatever runs failed, were killed half-way through a
\* file or could not write their sidecar, and whatever was edited and reverted
\* or reset in between.
HitIsCurrent ==
    ~raced => \A s \in StageNames : Hit(s, StageKey(s)) =>
        /\ s # "rootfs" => payload[s] = [v |-> src[s]]
        /\ s = "rootfs" => payload[s].steward = payload["steward"]

\* The resolved config served beside a cached kernel is that kernel's, not one
\* an interrupted or later build left there, although only the payload is hashed.
ConfigDescribesKernel ==
    ~raced => (Hit("kernel", StageKey("kernel")) => config = payload["kernel"])

\* A session that went through the pipeline serves the steward and the packing
\* of the sources it took its fingerprint of, unless they were edited while it
\* built: the packer included, which no stage's key sees.
BuiltIsCurrent ==
    \A t \in Testers : ppc[t] = "stamp" /\ ~edited[t] /\ ~raced =>
        payload["rootfs"] = Image([v |-> src.steward], src.packer)

\* What the cache serves, and what a session built, is of the sources as they are.
PipelineSafe ==
  /\ PipelineTypeOK
  /\ HitIsCurrent
  /\ ConfigDescribesKernel
  /\ BuiltIsCurrent
=============================================================================
