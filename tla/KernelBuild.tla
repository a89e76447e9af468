---------------------------- MODULE KernelBuild ----------------------------
(***************************************************************************)
(* The build directory of the kernel stage (artifact/kernel.rs): a tarball *)
(* fetched by its pinned hash, the linux.tar decompressed from it, and the *)
(* source tree unpacked from that, each step skipped when what it would    *)
(* make exists.  Pins are bumped and reverted, the server may answer with  *)
(* other bytes, removals fail, and the build is killed anywhere, so every  *)
(* one of the files may be an earlier pin's or unfinished.                 *)
(*                                                                         *)
(* The prebuilt producer publishes at the same path.  `make` is external:  *)
(* it builds what the tree holds, and a tree with files missing does not   *)
(* build.                                                                  *)
(***************************************************************************)
EXTENDS Naturals

CONSTANTS
    Pins,           \* the pins of the kernel's sources
    MaxBumps,       \* bound: changes of the pin
    MaxStops        \* bound: builds that fail or are killed

ASSUME KernelConstants == 0 \notin Pins /\ MaxBumps \in Nat /\ MaxStops \in Nat

\* A file: of which pin, and whether all of it is there.
NoFile == [of |-> 0, whole |-> FALSE]
Files == {NoFile} \cup [of : Pins, whole : BOOLEAN]
Whole(p) == [of |-> p, whole |-> TRUE]
Cut(p) == [of |-> p, whole |-> FALSE]
NoKernel == [by |-> "none", of |-> 0]

VARIABLES
    pin,        \* kernel.source_sha256, with its URL
    tarball,    \* linux.tar.xz
    tar,        \* linux.tar
    tree,       \* the unpacked sources; there is a Makefile unless it is NoFile
    vmlinux,    \* the published kernel: who built it, from which pin
    kconfig,    \* the resolved config beside it
    step,       \* where the build is
    want,       \* the pin it was started with
    bumps, stops

kbVars == <<pin, tarball, tar, tree, vmlinux, kconfig, step, want, bumps, stops>>

KernelFiles == {NoKernel} \cup [by : {"make", "prebuilt"}, of : Pins]

KernelTypeOK ==
    /\ pin \in Pins /\ tarball \in Files /\ tar \in Files /\ tree \in Files
    /\ vmlinux \in KernelFiles /\ kconfig \in KernelFiles
    /\ step \in {"idle", "fetch", "purged", "verify", "unpack", "untar", "cleanup",
                 "make", "config", "clear", "built"}
    /\ step \in {"untar", "cleanup"} => tar # NoFile
    /\ want \in Pins \cup {0} /\ (want = 0 <=> step = "idle")
    /\ bumps \in 0 .. MaxBumps /\ stops \in 0 .. MaxStops

KernelInit ==
    /\ pin \in Pins /\ tarball = NoFile /\ tar = NoFile /\ tree = NoFile
    /\ vmlinux = NoKernel /\ kconfig = NoKernel
    /\ step = "idle" /\ want = 0 /\ bumps = 0 /\ stops = 0

-----------------------------------------------------------------------------
(* KernelStage::run *)

\* The tarball is missing or is not the pinned one.
NeedsFetch(f, p) == f # Whole(p)

Start ==
    /\ step = "idle"
    /\ want' = pin
    /\ step' = IF NeedsFetch(tarball, pin) THEN "fetch" ELSE "verify"
    /\ UNCHANGED <<pin, tarball, tar, tree, vmlinux, kconfig, bumps, stops>>

\* What a removal that failed half-way left of a file, or of the tree.
Leavings(f) == IF f = NoFile THEN {NoFile} ELSE {f, Cut(f.of), NoFile}

\* purged_or_hard_stop
AfterPurge(ok) == IF ok THEN "purged" ELSE "idle"

\* remove_dir_all(workdir), or a part of it.
PurgeWorkdir ==
    /\ step = "fetch"
    /\ \/ tarball' = NoFile /\ tar' = NoFile /\ tree' = NoFile
          /\ step' = AfterPurge(TRUE) /\ UNCHANGED <<want, stops>>
       \/ /\ stops < MaxStops /\ stops' = stops + 1
          /\ tarball' \in {tarball, NoFile} /\ tar' \in {tar, NoFile}
          /\ tree' \in Leavings(tree)
          /\ step' = AfterPurge(FALSE)
          /\ want' = IF step' = "idle" THEN 0 ELSE want
    /\ UNCHANGED <<pin, vmlinux, kconfig, bumps>>

\* The download is written: the bytes asked for, or another pin's.
Fetch ==
    /\ step = "purged"
    /\ \E p \in Pins : tarball' = Whole(p)
    /\ step' = "verify"
    /\ UNCHANGED <<pin, tar, tree, vmlinux, kconfig, want, bumps, stops>>

\* The tree is unpacked unless there is a Makefile, from a linux.tar made unless
\* there is one.
AfterVerify ==
    CASE tree # NoFile -> "make"
      [] tree = NoFile /\ tar # NoFile -> "untar"
      [] OTHER -> "unpack"

\* The hash decides.
Verify ==
    /\ step = "verify"
    /\ \/ tarball = Whole(want) /\ step' = AfterVerify /\ UNCHANGED want
       \/ tarball # Whole(want) /\ step' = "idle" /\ want' = 0
    /\ UNCHANGED <<pin, tarball, tar, tree, vmlinux, kconfig, bumps, stops>>

Decompress ==
    /\ step = "unpack"
    /\ tar' = tarball /\ step' = "untar"
    /\ UNCHANGED <<pin, tarball, tree, vmlinux, kconfig, want, bumps, stops>>

\* A tar that was cut off between two entries unpacks without an error.
Unpack ==
    /\ step = "untar"
    /\ tree' = tar /\ step' = "cleanup"
    /\ UNCHANGED <<pin, tarball, tar, vmlinux, kconfig, want, bumps, stops>>

RemoveTar ==
    /\ step = "cleanup"
    /\ tar' = NoFile /\ step' = "make"
    /\ UNCHANGED <<pin, tarball, tree, vmlinux, kconfig, want, bumps, stops>>

\* The three calls of make, and the copy to the output.
Make ==
    /\ step = "make" /\ tree.whole
    /\ vmlinux' = [by |-> "make", of |-> tree.of] /\ step' = "config"
    /\ UNCHANGED <<pin, tarball, tar, tree, kconfig, want, bumps, stops>>

MakeFails ==
    /\ step = "make" /\ ~tree.whole
    /\ step' = "idle" /\ want' = 0
    /\ UNCHANGED <<pin, tarball, tar, tree, vmlinux, kconfig, bumps, stops>>

\* publish_resolved_config
PublishKernelConfig ==
    /\ step = "config"
    /\ kconfig' = [by |-> "make", of |-> tree.of] /\ step' = "built"
    /\ UNCHANGED <<pin, tarball, tar, tree, vmlinux, want, bumps, stops>>

-----------------------------------------------------------------------------
(* PrebuiltKernelStage::run: a verified download is written in one go. *)

Prebuilt ==
    /\ step = "idle"
    /\ vmlinux' = [by |-> "prebuilt", of |-> pin] /\ want' = pin /\ step' = "clear"
    /\ UNCHANGED <<pin, tarball, tar, tree, kconfig, bumps, stops>>

\* clear_resolved_config
Cleared == NoKernel

ClearConfig ==
    /\ step = "clear"
    /\ kconfig' = Cleared /\ step' = "built"
    /\ UNCHANGED <<pin, tarball, tar, tree, vmlinux, want, bumps, stops>>

Return ==
    /\ step = "built" /\ step' = "idle" /\ want' = 0
    /\ UNCHANGED <<pin, tarball, tar, tree, vmlinux, kconfig, bumps, stops>>

-----------------------------------------------------------------------------
(* The world. *)

Bump ==
    /\ bumps < MaxBumps /\ bumps' = bumps + 1
    /\ pin' \in Pins \ {pin}
    /\ UNCHANGED <<tarball, tar, tree, vmlinux, kconfig, step, want, stops>>

\* The build fails or is killed, with the file it was making cut off.
Stopped ==
    /\ step \notin {"idle", "built"} /\ stops < MaxStops /\ stops' = stops + 1
    /\ step' = "idle" /\ want' = 0
    /\ \/ UNCHANGED <<tarball, tar, tree>>
       \/ step = "purged" /\ tarball' = Cut(want) /\ UNCHANGED <<tar, tree>>
       \/ step = "unpack" /\ tar' = Cut(tarball.of) /\ UNCHANGED <<tarball, tree>>
       \/ step = "untar" /\ tree' = Cut(tar.of) /\ UNCHANGED <<tarball, tar>>
    /\ UNCHANGED <<pin, vmlinux, kconfig, bumps>>

KernelNext ==
    \/ Start \/ PurgeWorkdir \/ Fetch \/ Verify \/ Decompress \/ Unpack \/ RemoveTar
    \/ Make \/ MakeFails \/ PublishKernelConfig \/ Prebuilt \/ ClearConfig \/ Return
    \/ Bump \/ Stopped

KernelSpec == KernelInit /\ [][KernelNext]_kbVars

-----------------------------------------------------------------------------
(* Properties. *)

\* A kernel is published only from the sources of the pin the stage was keyed
\* with, whatever earlier pins, interrupted unpackings and failed purges left in
\* the directory whose files the steps test for existence: never "the PREVIOUS
\* pin's source tree ... under the NEW pin's cache identity".
KernelIsOfPin == step \in {"config", "built"} => vmlinux.of = want

\* Once a build has returned Ok, the resolved config beside the kernel, which
\* `vmcell bundle` picks up by its existence, is that kernel's or is not there.
ConfigIsOfKernel == step = "built" => kconfig \in {vmlinux, NoKernel}

\* The kernel is of the pin, and the config beside it of the kernel.
KernelBuildSafe ==
  /\ KernelTypeOK
  /\ KernelIsOfPin
  /\ ConfigIsOfKernel
=============================================================================
