------------------------------ MODULE PlainTree ------------------------------
(***************************************************************************)
(* What the overlay promises the programs that run on it: one ordinary     *)
(* directory tree.  There are no layers, no markers and no copy-up here; a *)
(* step is one successful POSIX operation on the tree.  An operation that  *)
(* fails, and everything that only moves data between layers, is a step    *)
(* that leaves the tree alone.                                             *)
(***************************************************************************)
EXTENDS Integers, Sequences

CONSTANTS Paths, Contents, Dir, Absent, Root

VARIABLE tree

IsBelow(p, v) == Len(v) < Len(p) /\ SubSeq(p, 1, Len(v)) = v

Parent(v) == SubSeq(v, 1, Len(v) - 1)

Below(v) == {p \in Paths : IsBelow(p, v)}

\* A name that can be made in tree t: nothing is there, its directory exists.
Free(t, v) == v # Root /\ t[v] = Absent /\ t[Parent(v)] = Dir

IsFile(t, v) == t[v] \notin {Dir, Absent}

IsEmptyDir(t, v) == t[v] = Dir /\ \A p \in Below(v) : t[p] = Absent

-----------------------------------------------------------------------------
(***************************************************************************)
(* The operations, as relations between the tree t before and u after.     *)
(***************************************************************************)
\* create, mkdir, symlink and link: v appears with the given entry, alone.
Make(t, u, v, e) ==
  /\ Free(t, v)
  /\ u = [t EXCEPT ![v] = e]

\* unlink and rmdir.
Remove(t, u, v) ==
  /\ v # Root
  /\ IsFile(t, v) \/ IsEmptyDir(t, v)
  /\ u = [t EXCEPT ![v] = Absent]

\* write, open with O_TRUNC and truncate: every name of one file changes.
Modify(t, u, names, c) ==
  /\ names # {}
  /\ \A v, w \in names : t[v] = t[w]
  /\ u = [v \in Paths |-> IF v \in names THEN c ELSE t[v]]

\* rename: vt is free, or a file replaced by a file, or an empty directory
\* replaced by a directory; the whole subtree moves and nothing else does.
Rename(t, u, vf, vt) ==
  /\ vf # Root /\ vt # Root /\ vf # vt /\ ~IsBelow(vt, vf) /\ ~IsBelow(vf, vt)
  /\ t[vf] # Absent
  /\ \/ Free(t, vt)
     \/ IsFile(t, vf) /\ IsFile(t, vt)
     \/ t[vf] = Dir /\ IsEmptyDir(t, vt)
  /\ \A p \in Below(vf) : t[p] # Absent =>
       vt \o SubSeq(p, Len(vf) + 1, Len(p)) \in Paths
  /\ u = [p \in Paths |->
       IF p = vt \/ IsBelow(p, vt)
       THEN LET q == vf \o SubSeq(p, Len(vt) + 1, Len(p)) IN IF q \in Paths THEN t[q] ELSE Absent
       ELSE IF p = vf \/ IsBelow(p, vf) THEN Absent ELSE t[p]]

\* One operation that succeeds and changes something.
Step(t, u) ==
  /\ u # t
  /\ \/ \E v \in Paths : Remove(t, u, v) \/ \E e \in Contents \cup {Dir} : Make(t, u, v, e)
     \/ \E names \in SUBSET {v \in Paths : IsFile(t, v)}, c \in Contents : Modify(t, u, names, c)
     \/ \E vf, vt \in Paths : Rename(t, u, vf, vt)

-----------------------------------------------------------------------------
Init ==
  /\ tree \in [Paths -> Contents \cup {Dir, Absent}]
  /\ tree[Root] = Dir
  /\ \A v \in Paths \ {Root} : tree[v] # Absent => tree[Parent(v)] = Dir

Next == \E u \in {tree'} : Step(tree, u)

Spec == Init /\ [][Next]_tree
=============================================================================
