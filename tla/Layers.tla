------------------------------- MODULE Layers -------------------------------
(***************************************************************************)
(* The merge of a rootfs (artifact/tar2erofs.rs): the entries of a layer   *)
(* are applied one at a time to one flat map of paths, then the extra      *)
(* files and the injections, then the directories that are missing, and    *)
(* the map is packed as EROFS or written as the tar that mkfs.ext4 reads.  *)
(*                                                                         *)
(* A layer is applied to any tree a rootfs can have, so that one layer     *)
(* stands for each of a stack.  A path is the sequence of its names, as    *)
(* normalize_path leaves it; a node is its type and where it came from.    *)
(* Modes, owners and extended attributes go with the node.                 *)
(***************************************************************************)
EXTENDS Naturals, Sequences, SequencesExt, Functions

CONSTANTS
    LayerPaths,     \* bound: the paths; every prefix of one but the root is one
    InjectPaths,    \* bound: the paths vmcell may inject at
    MaxEntries,     \* bound: the entries of the layer
    ToolsDir,       \* VMCELL_TOOLS_DIR
    Libc            \* the file name libc.so.6

VARIABLES lower, layer, merged, wanted, lphase

lyVars == <<lower, layer, merged, wanted, lphase>>

NodeTypes == {"file", "dir", "symlink"}
Origins == {"lower", "layer", "extra", "injected", "made"}
LayerNodes == [type : NodeTypes, from : Origins]

\* Path::starts_with
Under(k, p) == IsPrefix(p, k)
DirsOf(k) == {p \in LayerPaths : IsStrictPrefix(p, k)}

\* The children of a path that is no directory are out of place.
Tree(m) == \A k \in DOMAIN m : \A p \in DirsOf(k) : p \in DOMAIN m => m[p].type = "dir"

IsMap(m) == DOMAIN m \subseteq LayerPaths /\ Range(m) \subseteq LayerNodes

LayersTypeOK ==
    /\ IsMap(lower) /\ Tree(lower)
    /\ Len(layer) <= MaxEntries
    /\ IsMap(merged)
    /\ lphase \in {"layer", "refused", "merged"}
    /\ lphase = "merged" => \A k \in DOMAIN merged : \A p \in DirsOf(k) : p \in DOMAIN merged

LayersInit ==
    /\ lower \in {m \in UNION {[D -> [type : {"file", "dir"}, from : {"lower"}]] : D \in SUBSET LayerPaths} :
                  Tree(m)}
    /\ merged = lower /\ layer = << >> /\ lphase = "layer"
    /\ wanted = [extra |-> {}, inject |-> << >>]

-----------------------------------------------------------------------------
(* Layers as the image specification defines them: what a layer hides is of the *)
(* layers below it, and what it holds replaces what they hold.                  *)

Puts(l) == {i \in DOMAIN l : l[i].op = "put"}

Hides(e, k) ==
    CASE e.op = "whiteout" -> Under(k, e.path)
      [] e.op = "opaque"   -> IsStrictPrefix(e.path, k)
      [] OTHER             -> e.node.type # "dir" /\ IsStrictPrefix(e.path, k)

Layered(low, l) ==
    LET kept  == {k \in DOMAIN low : \A i \in DOMAIN l : ~Hides(l[i], k)}
        upper == {l[i].path : i \in Puts(l)}
        last(k) == CHOOSE i \in Puts(l) : l[i].path = k
    IN  [k \in kept \cup upper |-> IF k \in upper THEN l[last(k)].node ELSE low[k]]

\* What producers keep to: a path comes once, and a marker comes before what the same
\* layer puts under it.
WellOrdered(l) ==
    \A i, j \in DOMAIN l : i < j =>
        /\ l[i].op = "put" /\ l[j].op = "put" => l[i].path # l[j].path
        /\ l[i].op = "put" /\ l[j].op # "put" => ~Hides(l[j], l[i].path)

-----------------------------------------------------------------------------
(* build_node_map, over the entries of a layer. *)

Refuse == lphase' = "refused" /\ UNCHANGED merged

\* A file, a directory, a symlink; a device or a fifo is one more of these.
PutEntry(k, t) ==
    LET n == [type |-> t, from |-> "layer"] IN
    /\ lphase = "layer" /\ Len(layer) < MaxEntries
    /\ merged' = (k :> n) @@ merged
    /\ layer' = Append(layer, [op |-> "put", path |-> k, node |-> n])
    /\ UNCHANGED <<lower, wanted, lphase>>

\* A hard link is made a file of its own, of what the merged tree has at the target.
LinkEntry(k, q) ==
    LET ref == Layered(lower, layer) IN
    /\ lphase = "layer" /\ Len(layer) < MaxEntries
    /\ IF q \in DOMAIN merged /\ merged[q].type = "file"
       THEN /\ merged' = (k :> merged[q]) @@ merged /\ UNCHANGED lphase
            /\ layer' = Append(layer, [op |-> "put", path |-> k,
                                       node |-> IF q \in DOMAIN ref THEN ref[q] ELSE merged[q]])
       ELSE Refuse /\ UNCHANGED layer
    /\ UNCHANGED <<lower, wanted>>

\* Mutant: the name alone is taken out.
WhitedPath(p, k) == k = p
\* `.wh.<name>`
Whited(p, k) == Under(k, p)

WhiteoutEntry(p) ==
    /\ lphase = "layer" /\ Len(layer) < MaxEntries
    /\ merged' = Restrict(merged, {k \in DOMAIN merged : ~Whited(p, k)})
    /\ layer' = Append(layer, [op |-> "whiteout", path |-> p])
    /\ UNCHANGED <<lower, wanted, lphase>>

\* `.wh..wh..opq`, in the directory p: its contents go, itself it stays.
OpaqueEntry(p) ==
    /\ lphase = "layer" /\ Len(layer) < MaxEntries
    /\ merged' = Restrict(merged, {k \in DOMAIN merged : ~Under(k, p) \/ k = p})
    /\ layer' = Append(layer, [op |-> "opaque", path |-> p])
    /\ UNCHANGED <<lower, wanted, lphase>>

\* An entry of a type the packer has no node for.
UnknownEntry == lphase = "layer" /\ Refuse /\ UNCHANGED <<lower, layer, wanted>>

-----------------------------------------------------------------------------
(* The rest of build_node_map, and merged_node_map. *)

FromAll(S, from) == [k \in S |-> [type |-> "file", from |-> from]]

\* is_reserved_injection_path
Reserved(k, inj) == Under(k, ToolsDir) \/ \E i \in DOMAIN inj : inj[i].path = k

\* validate_extra_files, before anything is read.
ExtrasRefused(extra, inj) == \E k \in extra : Reserved(k, inj)

\* claim_injection_dest
ClaimedTwice(inj) == \E i, j \in DOMAIN inj : i < j /\ inj[i].path = inj[j].path

\* The injections are inserted last; of the same path, the last one stays.
Injected(m, inj) ==
    [k \in {inj[i].path : i \in DOMAIN inj} |->
        [type |-> inj[CHOOSE i \in DOMAIN inj : inj[i].path = k
                        /\ \A j \in DOMAIN inj : inj[j].path = k => j <= i].type,
         from |-> "injected"]] @@ m

\* Every directory above a node that is not there.
MissingDirs(m) == UNION {DirsOf(k) : k \in DOMAIN m} \ DOMAIN m

WithDirs(m) == [k \in MissingDirs(m) |-> [type |-> "dir", from |-> "made"]] @@ m

\* The archives are read.  Extra files, injections, the libc6 scan, the missing directories.
FinishMerge(extra, inject, libc) ==
    LET m == Injected(FromAll(extra, "extra") @@ merged, inject) IN
    /\ lphase = "layer"
    /\ wanted' = [extra |-> extra, inject |-> inject]
    /\ IF \/ ExtrasRefused(extra, inject) \/ ClaimedTwice(inject)
          \/ (libc /\ \A k \in DOMAIN m : Last(k) # Libc)
       THEN Refuse
       ELSE lphase' = "merged" /\ merged' = WithDirs(m)
    /\ layer' = << >> /\ lower' = << >>

\* nodes_to_erofs: every node goes into its parent, which has to be a directory.
ErofsTakes(m) == \A k \in DOMAIN m : Len(k) > 1 => m[Front(k)].type = "dir"

\* What the EROFS image has: the nodes that hang on its root.
ErofsImage(m) == {k \in DOMAIN m : \A p \in DirsOf(k) : m[p].type = "dir"}

Injections ==
    {<< >>} \cup {<<[path |-> p, type |-> "file"], [path |-> q, type |-> "symlink"]>> :
                     p, q \in InjectPaths}

LayersNext ==
    \/ \E k \in LayerPaths, t \in NodeTypes : PutEntry(k, t)
    \/ \E k, q \in LayerPaths : LinkEntry(k, q)
    \/ \E p \in LayerPaths : WhiteoutEntry(p)
    \/ \E p \in {<< >>} \cup LayerPaths : OpaqueEntry(p)
    \/ UnknownEntry
    \/ \E extra \in {{}} \cup {{p} : p \in LayerPaths}, inject \in Injections,
          libc \in BOOLEAN : FinishMerge(extra, inject, libc)

LayersSpec == LayersInit /\ [][LayersNext]_lyVars

-----------------------------------------------------------------------------
(* Properties. *)

\* One flat map, changed entry by entry, is the layer over the layers below it, for
\* every layer that keeps to the order producers keep to and every tree that can be
\* packed: whiteouts, opaque directories, replaced files and hard links included.
MergeIsLayering ==
    lphase = "layer" /\ WellOrdered(layer) /\ Tree(merged) => merged = Layered(lower, layer)

\* vmcell's own files are in the merged tree, each as what it was injected as, whatever
\* the layers and the extra files put or whited out there; and so is every extra file.
InjectionsWin ==
    lphase = "merged" =>
        LET inj == wanted.inject
            own == {inj[i].path : i \in DOMAIN inj}
        IN  /\ \A i \in DOMAIN inj :
                    merged[inj[i].path] = [type |-> inj[i].type, from |-> "injected"]
            /\ \A k \in wanted.extra \ own : merged[k] = [type |-> "file", from |-> "extra"]

\* An EROFS image that was packed has every node of the merged tree: nothing "boots as
\* if complete".
PackedIsWhole == lphase = "merged" /\ ErofsTakes(merged) => ErofsImage(merged) = DOMAIN merged

\* From layers to image: the merge, the injections and the packing.
LayersSafe ==
  /\ LayersTypeOK
  /\ MergeIsLayering
  /\ InjectionsWin
  /\ PackedIsWhole
=============================================================================
