------------------------------ MODULE MCOverlay ------------------------------
(***************************************************************************)
(* Small mounts for model checking Overlay.                                *)
(***************************************************************************)
EXTENDS Overlay, TLC

InodeSymmetry == Permutations(Inodes)

\* No operation reads rc: states that differ only there have the same steps,
\* and each step is checked with the rc it ends with.
WithoutResult == <<S, data, open>>

Layer(type, target, subpath, masked) ==
  [type |-> type, target |-> target, subpath |-> subpath, fileVPath |-> <<>>,
   maskedUnder |-> masked, tree |-> <<>>, lists |-> <<>>, rw |-> FALSE]

Entry(name, holds) ==
  [name |-> name, kind |-> IF holds = Dir THEN "dir" ELSE "file", data |-> holds,
   to |-> <<>>, stored |-> TRUE]

Link(name, to) == [Entry(name, LinkTarget) EXCEPT !.kind = "link", !.to = to]

Compressed(entry) == [entry EXCEPT !.stored = FALSE]

Zip(target, subpath, masked, entries) ==
  [Layer("Zip", target, subpath, masked) EXCEPT !.tree = ZipTree(entries), !.lists = ZipLists(entries)]

FileLayer(v, content) ==
  [Layer("File", ParentVRel(v), <<>>, {}) EXCEPT !.fileVPath = v, !.tree = <<>> :> content]

KeptLayer(target) == [Layer("Dir", target, <<>>, {}) EXCEPT !.tree = <<>> :> Dir, !.rw = TRUE]

\* Two directories that the layers provide, each with a file: in one of them
\* the file of an archive, where its name comes a second time, compressed; in
\* the other a File layer's, its directory structural.
FlatPaths == {<<>>, <<"d">>, <<"e">>, <<"d", "x">>, <<"e", "x">>}

FlatArchive ==
  << Entry(<<"d">>, Dir), Entry(<<"d", "x">>, "old"), Compressed(Entry(<<"d", "x">>, "new")) >>

FlatLayers ==
  LET zip == Zip(<<>>, <<>>, {}, FlatArchive)
  IN  << zip, FileLayer(<<"e", "x">>, "old") >>

\* Nested directories: d holds s holds y, and room for all of it below e.
DeepPaths ==
  {<<>>, <<"d">>, <<"d", "s">>, <<"d", "s", "y">>,
   <<"e">>, <<"e", "y">>, <<"e", "s">>, <<"e", "s", "y">>}

\* A zip mounted at the root, hidden under d by a delta built over it, that
\* has entries of files and links only.  Its e/y leads by another link to a
\* file that it holds there; its e/s is a link that cannot be read.  And a zip
\* whose folder `in` is exposed at d/s; d itself is structural.
DeepArchive ==
  << Entry(<<"d", "s", "y">>, "new"),
     Link(<<"e", "y">>, <<"..", "l", "m">>),
     Link(<<"l", "m">>, <<".", "..", "d", "s", "y">>),
     Compressed(Link(<<"e", "s">>, <<"..", "d">>)) >>

InnerArchive == << Entry(<<"in">>, Dir), Entry(<<"in", "y">>, "old") >>

DeepLayers ==
  LET base == Zip(<<>>, <<>>, {<<"d">>}, DeepArchive)
      inner == Zip(<<"d", "s">>, <<"in">>, {}, InnerArchive)
  IN  << base, inner >>

\* A kept folder over a package that has a file in k/s, and a file beside it.
KeptPaths ==
  {<<>>, <<"k">>, <<"k", "s">>, <<"k", "s", "y">>, <<"k", "t">>, <<"k", "t", "y">>, <<"e">>}

KeptArchive == << Entry(<<"k", "s", "y">>, "old") >>

KeptLayers ==
  LET package == Zip(<<>>, <<>>, {}, KeptArchive)
  IN  << package, KeptLayer(<<"k">>) >>

ASSUME KeptAssumption == KeptOnTop /\ KeptReached

ASSUME SourcesAssumption == SourcesAgree /\ MountsAreServed

ASSUME ArchivesAssumption ==
  \A A \in {FlatArchive, DeepArchive, InnerArchive, KeptArchive} : IsArchive(A)
=============================================================================
