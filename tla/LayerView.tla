------------------------------ MODULE LayerView ------------------------------
(***************************************************************************)
(* The read-only half of the overlay (src/src/overlay.cpp): virtual paths, *)
(* the layer stack a mount is built from, and what the stack alone shows   *)
(* at a path.  Everything here is constant: a layer never changes while    *)
(* the file system is mounted.                                             *)
(*                                                                         *)
(* A virtual path ("vrel") is a sequence of names, <<>> the mount root.  A *)
(* layer is a record                                                       *)
(*   type        "Dir", "Zip" or "File" (a delta surfaces as a Zip layer)  *)
(*   target      the virtual directory it is mounted at                    *)
(*   subpath     the part of its source that is exposed there              *)
(*   fileVPath   File layers: the one virtual path it provides             *)
(*   maskedUnder the subtrees where a delta built over it hides it         *)
(*   tree        what its source serves: source path -> Dir or a content   *)
(*   lists       what its source lists: source directory -> source paths   *)
(*   rw          a kept folder: a Dir layer that programs write through    *)
(* Layers are in ascending priority, as in VfsState::layers.  The tree of  *)
(* a kept folder is state (module Overlay); here it counts only as mounted.*)
(***************************************************************************)
EXTENDS ZipIndex

CONSTANTS
  Paths,       \* the virtual paths under consideration: a finite tree
  Layers,      \* sequence of layers, lowest priority first
  Contents     \* file contents (a symbolic link is a content of its own)

(***************************************************************************)
(* Paths.                                                                  *)
(***************************************************************************)
\* v lies at or below root.
Within(v, root) == Len(root) <= Len(v) /\ SubSeq(v, 1, Len(root)) = root

Children(v) == {c \in Paths : c # Root /\ ParentVRel(c) = v}

\* The path p below old, moved below new.
Rebase(p, old, new) == new \o SubSeq(p, Len(old) + 1, Len(p))

(***************************************************************************)
(* One layer.                                                              *)
(***************************************************************************)
LayerCovers(L, v) ==
  IF L.type = "File" THEN v = L.fileVPath ELSE Within(v, L.target)

LayerMasked(L, v) == \E m \in L.maskedUnder : Within(v, m)

RelUnder(L, v) == SubSeq(v, Len(L.target) + 1, Len(v))

SourceRel(L, v) == IF L.type = "File" THEN Root ELSE L.subpath \o RelUnder(L, v)

\* The layer answers a lookup of v, whatever has happened since the mount.
LayerHas(L, v) ==
  /\ ~L.rw
  /\ LayerCovers(L, v)
  /\ ~LayerMasked(L, v)
  /\ SourceRel(L, v) \in DOMAIN L.tree

\* Where a layer is mounted: the path whose ancestors exist structurally.
Presence(L) == IF L.type = "File" THEN L.fileVPath ELSE L.target

(***************************************************************************)
(* The stack.                                                              *)
(***************************************************************************)
ImplicitDirs ==
  LET shown == {i \in DOMAIN Layers : ~LayerMasked(Layers[i], Presence(Layers[i]))}
  IN  (UNION {Ancestors(Presence(Layers[i])) : i \in shown}) \ {Root}

Kept == {i \in DOMAIN Layers : Layers[i].rw}

\* The layers other than kept folders that have v, and what each serves there.
Hits == [v \in Paths |-> {i \in DOMAIN Layers : LayerHas(Layers[i], v)}]

LayerEntry ==
  [i \in DOMAIN Layers |->
     [v \in {p \in Paths : i \in Hits[p]} |-> Layers[i].tree[SourceRel(Layers[i], v)]]]

KeptOver == [v \in Paths |-> {k \in Kept : LayerCovers(Layers[k], v)}]

\* KeptLayerFor, PassthroughHost: the kept folder that v is written to, the
\* highest over v, or Wl.
Wl == 0

Home ==
  [v \in Paths |->
     IF KeptOver[v] = {} THEN Wl
     ELSE CHOOSE k \in KeptOver[v] : \A j \in KeptOver[v] : j <= k]

\* The virtual directory of every kept folder.
KeptRoot == [k \in Kept |-> Layers[k].target]

\* The names layer L contributes to the listing of directory v.
LayerLists(L, v) ==
  {c \in Children(v) :
     /\ ~LayerMasked(L, v)
     /\ \/ ~L.rw /\ LayerCovers(L, v) /\ SourceRel(L, v) \in DOMAIN L.lists
             /\ SourceRel(L, c) \in L.lists[SourceRel(L, v)]
        \/ L.type = "File" /\ c = L.fileVPath
        \/ Within(Presence(L), c)}

\* The names that the layers from the n-th up and the structural directories
\* contribute to the listing of every directory.
LowerNames ==
  [v \in Paths |-> [n \in 0 .. Len(Layers) |->
     (UNION {LayerLists(Layers[i], v) : i \in {j \in DOMAIN Layers : n <= j}})
       \cup {c \in Children(v) : \E d \in ImplicitDirs : Within(d, c)}]]

\* The kept folders lie over all that is there (src/README.md: "unioned above
\* the read-only content"), and not in one another.  The code takes any order.
KeptOnTop ==
  \A k \in Kept : \A v \in Paths :
    LayerCovers(Layers[k], v) => KeptOver[v] = {k} /\ \A i \in Hits[v] : i < k

\* What the layers serve above a kept folder are directories, so that programs
\* can get to it.  The code takes any layers.
KeptReached ==
  \A k \in Kept : \A a \in Ancestors(KeptRoot[k]) : \A i \in Hits[a] :
    (\A j \in Hits[a] : j <= i) => LayerEntry[i][a] = Dir

\* A source lists in every directory what it serves there: the two tables of an
\* archive agree, as ReadDir and stat do on a directory of the host.
SourceAgrees(tree, lists) ==
  /\ \A p \in DOMAIN tree \ {Root} : ParentVRel(p) \in DOMAIN lists
  /\ \A d \in DOMAIN lists : lists[d] = {p \in DOMAIN tree \ {Root} : ParentVRel(p) = d}

SourcesAgree ==
  \A i \in DOMAIN Layers : ~Layers[i].rw => SourceAgrees(Layers[i].tree, Layers[i].lists)

\* What a source exposes at its mount point is in it, and so is what a delta
\* surfaces with where it hides its bases.  The code takes any subpath.
MountsAreServed ==
  \A i \in DOMAIN Layers :
    LET L == Layers[i]
    IN  \A v \in (L.maskedUnder \cup {Presence(L)}) \ {Root} :
          ~L.rw => v \in Paths /\ (Hits[v] # {} \/ v \in ImplicitDirs)

(***************************************************************************)
(* Assumptions.                                                            *)
(***************************************************************************)
ASSUME PathsAssumption ==
  /\ Root \in Paths
  /\ \A v \in Paths : v \in Seq(STRING) /\ Ancestors(v) \subseteq Paths

ASSUME ContentsAssumption == Contents \cap {Dir, Absent, Packed} = {} /\ Packed \notin {Dir, Absent}

\* A source holds a tree: the parent of what it holds is a directory.  A kept
\* folder is mounted whole (a bound: its subpath is empty), hidden by no delta.
ASSUME LayersAssumption ==
  /\ DOMAIN Layers = 1 .. Len(Layers)
  /\ \A i \in DOMAIN Layers :
       LET L == Layers[i]
           t == L.tree
       IN  /\ L.type \in {"Dir", "Zip", "File"}
           /\ {L.target, L.subpath, L.fileVPath} \cup L.maskedUnder \cup DOMAIN t \subseteq Seq(STRING)
           /\ \A p \in DOMAIN t :
                /\ t[p] \in Contents \cup {Dir, Packed}
                /\ p # Root => ParentVRel(p) \in DOMAIN t /\ t[ParentVRel(p)] = Dir
           /\ L.rw \in BOOLEAN
           /\ L.rw => L.type = "Dir" /\ L.subpath = Root /\ L.maskedUnder = {} /\ L.target \in Paths
=============================================================================
