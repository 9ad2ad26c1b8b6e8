------------------------------- MODULE ZipIndex -------------------------------
(***************************************************************************)
(* What an archive serves (src/src/ziplayer.cpp): the index that           *)
(* BuildZipIndex makes of its entries, and the symbolic links in it.       *)
(*                                                                         *)
(* An archive A is the sequence of its entries, as its central directory   *)
(* lists them.  An entry is a record                                       *)
(*   name    its path, a sequence of names (a trailing "/" is kind "dir")  *)
(*   kind    "dir", "file" or "link" (a Unix symbolic link)                *)
(*   data    what it holds, for a link the content of a link               *)
(*   to      where the text of a link leads, name by name                  *)
(*   stored  uncompressed and with its data found: it can be read          *)
(* Directories may be missing and names may be there twice.                *)
(***************************************************************************)
EXTENDS Integers, Sequences, FiniteSets

CONSTANT Packed   \* the content of a file that cannot be read

Dir == "<dir>"        \* a directory, as opposed to a content
Absent == "<absent>"  \* no entry

Root == << >>

ParentVRel(v) == SubSeq(v, 1, Len(v) - 1)

\* The directories strictly above v, the root included.
Ancestors(v) == {SubSeq(v, 1, n) : n \in 0 .. (Len(v) - 1)}

-----------------------------------------------------------------------------
(***************************************************************************)
(* BuildZipIndex.                                                          *)
(***************************************************************************)
Names(A) == {A[i].name : i \in DOMAIN A} \ {Root}

\* byName: of entries of one name the last, with the data that the second walk
\* of the central directory (CentralDirOffsets) finds under that name.
ByName(A) ==
  [v \in Names(A) |->
     A[CHOOSE i \in DOMAIN A : A[i].name = v /\ \A j \in DOMAIN A : A[j].name = v => j <= i]]

\* dirChildren, by RegisterParents: every entry is listed in its directory, and
\* every directory on the way in the one above it.
DirChildren(A) ==
  LET all == Names(A) \cup UNION {Ancestors(v) \ {Root} : v \in Names(A)}
      dirs == {ParentVRel(v) : v \in all} \cup
                {v \in Names(A) : \E i \in DOMAIN A : A[i].name = v /\ A[i].kind = "dir"}
  IN  [d \in dirs |-> {v \in all : ParentVRel(v) = d}]

-----------------------------------------------------------------------------
(***************************************************************************)
(* Links.                                                                  *)
(***************************************************************************)
Outside == <<"..">>

\* JoinNormalized: where `segs` leads from the root, or Outside.
JoinNormalized(segs) ==
  LET walk[n \in 0 .. Len(segs)] ==
        IF n = 0 THEN Root
        ELSE LET at == walk[n - 1]
             IN  IF at = Outside \/ segs[n] = "." THEN at
                 ELSE IF segs[n] # ".." THEN Append(at, segs[n])
                 ELSE IF at = Root THEN Outside ELSE ParentVRel(at)
  IN  walk[Len(segs)]

\* One hop: the name that the link v leads to, or Root when it leads to none.
HopFrom(A, v) ==
  LET e == ByName(A)[v]
      to == JoinNormalized(ParentVRel(v) \o e.to)
  IN  IF e.stored /\ e.to[1] # "/" /\ to \in Names(A) THEN to ELSE Root

LinkHops == 8

\* ResolveZipSymlink: the file that the link v stands for, or Root.
ResolveZipSymlink(A, v) ==
  LET IsLink(q) == q \in Names(A) /\ ByName(A)[q].kind = "link"
      hop[n \in 0 .. LinkHops] ==
        IF n = 0 THEN v ELSE LET q == hop[n - 1] IN IF IsLink(q) THEN HopFrom(A, q) ELSE q
      end == hop[LinkHops]
  IN  IF end \in Names(A) /\ ByName(A)[end].kind = "file" THEN end ELSE Root

-----------------------------------------------------------------------------
(***************************************************************************)
(* What the layer answers and lists.                                       *)
(***************************************************************************)
\* A link that stands for no file and cannot be read: the layer does not have it.
DeadLink(A, v) ==
  /\ v \in Names(A) /\ ByName(A)[v].kind = "link"
  /\ ResolveZipSymlink(A, v) = Root /\ ~ByName(A)[v].stored

\* What a file of the archive can be read as (OpenZipEntry).
Readable(e) == IF e.stored THEN e.data ELSE Packed

\* The entry served at v: a directory without an entry of its own is one all
\* the same, a link to a file of the archive is that file.
ZipEntry(A, v) ==
  LET file == ResolveZipSymlink(A, v)
  IN  IF v \notin Names(A) \/ ByName(A)[v].kind = "dir" THEN Dir
      ELSE Readable(ByName(A)[IF file # Root THEN file ELSE v])

\* What the archive has: its paths, each with the entry served for it.
ZipTree(A) ==
  [v \in {w \in Names(A) \cup DOMAIN DirChildren(A) : ~DeadLink(A, w)} |-> ZipEntry(A, v)]

\* What it lists, for every directory in it.
ZipLists(A) == [d \in DOMAIN DirChildren(A) |-> {c \in DirChildren(A)[d] : ~DeadLink(A, c)}]

\* An archive that a program made of a directory: no file is above an entry.
IsArchive(A) ==
  /\ DOMAIN A = 1 .. Len(A)
  /\ \A v \in Names(A) : ByName(A)[v].kind # "dir" => v \notin DOMAIN DirChildren(A)
  /\ \A i \in DOMAIN A : A[i].kind = "link" => A[i].to # << >>
=============================================================================
