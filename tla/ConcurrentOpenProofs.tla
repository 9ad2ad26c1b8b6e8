------------------------- MODULE ConcurrentOpenProofs -------------------------
(***************************************************************************)
(* Proofs about ConcurrentOpen, for any number of threads, files, shards   *)
(* and chunks, and any assignment of files to shards.                      *)
(***************************************************************************)
EXTENDS ConcurrentOpen, TLAPS

(***************************************************************************)
(* The inductive invariant.                                                *)
(***************************************************************************)
\* A thread between taking and giving back the lock is its holder.
LockHeld == \A t \in Threads : pc[t] \in Locked => lock[Shard[file[t]]] = t

\* The check under the lock still stands when the copy is created.
CreateFresh == \A t \in Threads : pc[t] = "create" => wl[file[t]] = None

\* A copy in progress is the file's own inode, and filled as far as it got.
CopyFilled ==
  \A t \in Threads : pc[t] = "copy" =>
    /\ out[t] # None /\ wl[file[t]] = out[t]
    /\ \A k \in 1 .. off[t] : data[out[t]][k] # "none"

\* No two files share an inode.
WlDistinct == \A f, g \in Files : wl[f] = wl[g] /\ wl[f] # None => f = g

\* A handle open for writing is on an inode: a lower file is never written.
WritersHaveCopy == \A t \in Threads : pc[t] = "opened" /\ write[t] => handle[t] # None

Inv ==
  /\ TypeOK /\ LockHeld /\ CreateFresh /\ CopyFilled /\ WlDistinct /\ WritersHaveCopy
  /\ SettledCopyIsWhole

\* CopyUp is exclusive: two threads are never past the lock with one file.
LEMMA Exclusive ==
  ASSUME TypeOK, LockHeld, NEW t \in Threads, NEW u \in Threads,
         pc[t] \in Locked, pc[u] \in Locked, file[t] = file[u]
  PROVE  t = u
BY DEF LockHeld, TypeOK

-----------------------------------------------------------------------------
\* Nothing is open yet.
LEMMA InvInit == Init => Inv
<1> SUFFICES ASSUME Init PROVE Inv
  OBVIOUS
<1>1. TypeOK
  <2>1. 0 \in 0 .. N
    BY ConstantsAssumption
  <2> QED BY <2>1 DEF Init, TypeOK, PCs, Blank
<1>2. LockHeld /\ CreateFresh /\ CopyFilled /\ WritersHaveCopy
  BY DEF Init, LockHeld, CreateFresh, CopyFilled, WritersHaveCopy, Locked
<1>3. WlDistinct /\ SettledCopyIsWhole
  BY DEF Init, WlDistinct, SettledCopyIsWhole
<1> QED BY <1>1, <1>2, <1>3 DEF Inv

\* A step that changes no file and no chunk, and takes no file out of copying
\* unless it has no copy.
LEMMA SettledSame ==
  ASSUME Inv, UNCHANGED <<wl, data>>,
         \A f \in Files : wl[f] # None /\ Copying(f) => Copying(f)'
  PROVE  WlDistinct' /\ SettledCopyIsWhole'
BY DEF Inv, WlDistinct, SettledCopyIsWhole

\* A lookup changes no file.
LEMMA ResolveInv ==
  ASSUME Inv, NEW t \in Threads, NEW f \in Files, NEW w \in BOOLEAN, Resolve(t, f, w)
  PROVE  Inv'
<1> USE DEF Inv
<1>1. TypeOK'
  BY DEF Resolve, TypeOK, Goto, PCs
<1>2. \A u \in Threads : u # t =>
        pc'[u] = pc[u] /\ file'[u] = file[u] /\ write'[u] = write[u]
  BY DEF Resolve, TypeOK, Goto
<1>3. /\ pc[t] = "idle" /\ pc'[t] \in {"open", "copyup", "opened"}
      /\ pc'[t] = "opened" => ~write'[t]
  BY DEF Resolve, TypeOK, Goto
<1>4. UNCHANGED <<wl, data, lock, out, off, handle>>
  BY DEF Resolve
<1>5. LockHeld' /\ CreateFresh' /\ CopyFilled' /\ WritersHaveCopy'
  BY <1>2, <1>3, <1>4 DEF LockHeld, CreateFresh, CopyFilled, WritersHaveCopy, Locked
<1>6. \A g \in Files : Copying(g) => Copying(g)'
  BY <1>2, <1>3 DEF Copying
<1>7. WlDistinct' /\ SettledCopyIsWhole'
  BY <1>4, <1>6, SettledSame
<1> QED BY <1>1, <1>5, <1>7

\* The copy-up lock is taken.
LEMMA LockInv ==
  ASSUME Inv, NEW t \in Threads, Lock(t)
  PROVE  Inv'
<1> USE DEF Inv
<1>1. TypeOK'
  BY DEF Lock, TypeOK, Goto, PCs
<1>2. /\ \A u \in Threads : u # t => pc'[u] = pc[u]
      /\ pc[t] = "copyup" /\ pc'[t] = "check"
      /\ UNCHANGED <<wl, data, file, write, out, off, handle>>
  BY DEF Lock, TypeOK, Goto
<1>3. LockHeld'
  <2> SUFFICES ASSUME NEW u \in Threads, pc'[u] \in Locked PROVE lock'[Shard[file[u]]] = u
    BY <1>2 DEF LockHeld
  <2>1. Shard[file[t]] \in Shards /\ Shard[file[u]] \in Shards
    BY ConstantsAssumption DEF TypeOK
  <2>2. CASE u = t
    BY <2>1, <2>2 DEF Lock, TypeOK
  <2>3. CASE u # t
    <3>1. lock[Shard[file[u]]] = u
      BY <1>2, <2>3 DEF LockHeld
    <3>2. lock[Shard[file[t]]] = None /\ u # None
      BY ConstantsAssumption DEF Lock
    <3> QED BY <2>1, <3>1, <3>2 DEF Lock, TypeOK
  <2> QED BY <2>2, <2>3
<1>4. CreateFresh' /\ CopyFilled' /\ WritersHaveCopy'
  BY <1>2 DEF CreateFresh, CopyFilled, WritersHaveCopy
<1>5. \A g \in Files : Copying(g) => Copying(g)'
  BY <1>2 DEF Copying
<1>6. WlDistinct' /\ SettledCopyIsWhole'
  BY <1>2, <1>5, SettledSame
<1> QED BY <1>1, <1>3, <1>4, <1>6

\* Giving the lock back concerns no other thread.
LEMMA UnlockHeld ==
  ASSUME TypeOK, LockHeld, NEW t \in Threads, pc[t] \in Locked, Unlock(t),
         UNCHANGED file,
         \A u \in Threads : u # t => pc'[u] = pc[u],
         pc'[t] \notin Locked
  PROVE  LockHeld'
<1> SUFFICES ASSUME NEW u \in Threads, pc'[u] \in Locked PROVE lock'[Shard[file[u]]] = u
  BY DEF LockHeld
<1>1. u # t /\ pc[u] \in Locked
  OBVIOUS
<1>2. lock[Shard[file[u]]] = u /\ lock[Shard[file[t]]] = t
  BY <1>1 DEF LockHeld
<1>3. Shard[file[u]] # Shard[file[t]]
  BY <1>1, <1>2
<1> QED BY <1>2, <1>3, ConstantsAssumption DEF Unlock, TypeOK

\* The second lookup, under the lock.
LEMMA CheckInv ==
  ASSUME Inv, NEW t \in Threads, Check(t)
  PROVE  Inv'
<1> USE DEF Inv
<1>1. TypeOK'
  BY ConstantsAssumption DEF Check, TypeOK, Goto, PCs, Unlock
<1>2. /\ \A u \in Threads : u # t => pc'[u] = pc[u]
      /\ pc[t] = "check"
      /\ UNCHANGED <<wl, data, file, write, out, off, handle>>
  BY DEF Check, TypeOK, Goto
<1>3. \/ wl[file[t]] # None /\ Unlock(t) /\ pc'[t] = "open"
      \/ wl[file[t]] = None /\ UNCHANGED lock /\ pc'[t] = "create"
  BY DEF Check, TypeOK, Goto
<1>4. LockHeld'
  <2>1. CASE Unlock(t) /\ pc'[t] = "open"
    BY <1>2, <2>1, UnlockHeld DEF Locked
  <2>2. CASE UNCHANGED lock /\ pc'[t] = "create"
    BY <1>2, <2>2 DEF LockHeld, Locked
  <2> QED BY <1>3, <2>1, <2>2
<1>5. CreateFresh' /\ CopyFilled' /\ WritersHaveCopy'
  BY <1>2, <1>3 DEF CreateFresh, CopyFilled, WritersHaveCopy
<1>6. \A g \in Files : Copying(g) => Copying(g)'
  BY <1>2 DEF Copying
<1>7. WlDistinct' /\ SettledCopyIsWhole'
  BY <1>2, <1>6, SettledSame
<1> QED BY <1>1, <1>4, <1>5, <1>7

\* The copy is created.
LEMMA CreateInv ==
  ASSUME Inv, NEW t \in Threads, Create(t)
  PROVE  Inv'
<1> USE DEF Inv
<1> DEFINE f == file[t]
<1>1. pc[t] = "create" /\ wl[f] = None /\ f \in Files
  BY DEF Create, CreateFresh, TypeOK
<1>2. PICK i \in Inodes \ Live :
        /\ wl' = [wl EXCEPT ![f] = i]
        /\ data' = [data EXCEPT ![i] = Blank]
        /\ out' = [out EXCEPT ![t] = i]
  BY <1>1 DEF Create
<1>3. i # None /\ (\A g \in Files : wl[g] # i) /\ \A u \in Threads : out[u] # i
  BY <1>2, ConstantsAssumption DEF Live
<1>4. /\ \A u \in Threads : u # t => pc'[u] = pc[u] /\ out'[u] = out[u] /\ off'[u] = off[u]
      /\ pc'[t] = "copy" /\ out'[t] = i /\ off'[t] = 0
      /\ wl'[f] = i /\ \A g \in Files : g # f => wl'[g] = wl[g]
      /\ \A j \in Inodes : j # i => data'[j] = data[j]
      /\ UNCHANGED <<lock, file, write, handle>>
  BY <1>1, <1>2 DEF Create, TypeOK, Goto
<1>5. TypeOK'
  <2>1. Blank \in [1 .. N -> {"none", "old", "new"}] /\ 0 \in 0 .. N
    BY ConstantsAssumption DEF Blank
  <2> QED BY <1>1, <1>2, <2>1 DEF Create, TypeOK, Goto, PCs
<1>6. LockHeld' /\ WritersHaveCopy'
  BY <1>1, <1>4 DEF LockHeld, WritersHaveCopy, Locked
<1>7. CreateFresh'
  <2> SUFFICES ASSUME NEW u \in Threads, pc'[u] = "create" PROVE wl'[file[u]] = None
    BY <1>4 DEF CreateFresh
  <2>1. u # t /\ pc[u] = "create"
    BY <1>4
  <2>2. file[u] # f
    BY <1>1, <2>1, Exclusive DEF Locked
  <2> QED BY <1>4, <2>1, <2>2 DEF CreateFresh, TypeOK
<1>8. CopyFilled'
  <2> SUFFICES ASSUME NEW u \in Threads, pc'[u] = "copy"
               PROVE  /\ out'[u] # None /\ wl'[file[u]] = out'[u]
                      /\ \A k \in 1 .. off'[u] : data'[out'[u]][k] # "none"
    BY <1>4 DEF CopyFilled
  <2>1. CASE u = t
    <3>1. \A k \in 1 .. off'[t] : FALSE
      BY <1>4
    <3> QED BY <2>1, <3>1, <1>3, <1>4
  <2>2. CASE u # t
    <3>1. pc[u] = "copy" /\ out[u] # None /\ wl[file[u]] = out[u] /\ out[u] \in Inodes
      BY <2>2, <1>4 DEF CopyFilled, TypeOK
    <3>2. file[u] # f /\ file[u] \in Files
      BY <3>1, <1>1 DEF TypeOK
    <3>3. data'[out[u]] = data[out[u]] /\ wl'[file[u]] = wl[file[u]]
      BY <1>3, <1>4, <3>1, <3>2
    <3> QED BY <2>2, <1>4, <3>1, <3>3 DEF CopyFilled
  <2> QED BY <2>1, <2>2
<1>9. WlDistinct'
  BY <1>3, <1>4 DEF WlDistinct
<1>10. SettledCopyIsWhole'
  <2> SUFFICES ASSUME NEW g \in Files, wl'[g] # None, ~Copying(g)', NEW k \in 1 .. N
               PROVE  data'[wl'[g]][k] # "none"
    BY DEF SettledCopyIsWhole
  <2>1. g # f
    BY <1>4 DEF Copying
  <2>2. wl'[g] = wl[g] /\ wl[g] # i /\ wl[g] \in Inodes
    BY <1>3, <1>4, <2>1 DEF TypeOK
  <2>3. ~Copying(g)
    <3> SUFFICES ASSUME NEW u \in Threads, file[u] = g, pc[u] \in {"copy", "abort"}
                 PROVE  FALSE
      BY DEF Copying
    <3>1. u # t
      BY <2>1
    <3> QED BY <3>1, <1>4 DEF Copying
  <2> QED BY <1>4, <2>2, <2>3 DEF SettledCopyIsWhole
<1> QED BY <1>5, <1>6, <1>7, <1>8, <1>9, <1>10

\* A chunk filled in the copy of t's own file is no chunk of another's.
LEMMA CopyChunkInv ==
  ASSUME Inv, NEW t \in Threads, CopyChunk(t)
  PROVE  Inv'
<1> USE DEF Inv
<1> DEFINE i == out[t]
<1>1. /\ pc[t] = "copy" /\ i # None /\ wl[file[t]] = i /\ i \in Inodes
      /\ file[t] \in Files /\ off[t] \in 0 .. N /\ off[t] < N
  BY DEF CopyChunk, CopyFilled, TypeOK
<1>2. off[t] + 1 \in 1 .. N /\ off[t] + 1 \in 0 .. N
  BY <1>1, ConstantsAssumption
<1>3. /\ data' = [data EXCEPT ![i][off[t] + 1] = "old"]
      /\ off' = [off EXCEPT ![t] = off[t] + 1]
      /\ UNCHANGED <<wl, lock, pc, file, write, out, handle>>
  BY DEF CopyChunk
<1>4. /\ data'[i][off[t] + 1] = "old"
      /\ \A k \in 1 .. N : k # off[t] + 1 => data'[i][k] = data[i][k]
      /\ \A j \in Inodes : j # i => data'[j] = data[j]
  BY <1>1, <1>2, <1>3 DEF TypeOK
<1>5. TypeOK'
  BY <1>1, <1>2, <1>3 DEF TypeOK
<1>6. LockHeld' /\ CreateFresh' /\ WlDistinct' /\ WritersHaveCopy'
  BY <1>3 DEF LockHeld, CreateFresh, WlDistinct, WritersHaveCopy
<1>7. CopyFilled'
  <2> SUFFICES ASSUME NEW u \in Threads, pc[u] = "copy"
               PROVE  /\ out[u] # None /\ wl[file[u]] = out[u]
                      /\ \A k \in 1 .. off'[u] : data'[out[u]][k] # "none"
    BY <1>3 DEF CopyFilled
  <2>1. /\ out[u] # None /\ wl[file[u]] = out[u] /\ out[u] \in Inodes /\ file[u] \in Files
        /\ off[u] \in 0 .. N
        /\ \A k \in 1 .. off[u] : data[out[u]][k] # "none"
    BY DEF CopyFilled, TypeOK
  <2>2. CASE u = t
    <3> SUFFICES ASSUME NEW k \in 1 .. off[t] + 1 PROVE data'[i][k] # "none"
      BY <2>1, <2>2, <1>3 DEF TypeOK
    <3>1. CASE k = off[t] + 1
      BY <3>1, <1>4
    <3>2. CASE k # off[t] + 1
      <4>1. k \in 1 .. off[t] /\ k \in 1 .. N
        BY <3>2, <1>1, ConstantsAssumption
      <4> QED BY <4>1, <3>2, <2>1, <2>2, <1>4
    <3> QED BY <3>1, <3>2
  <2>3. CASE u # t
    <3>1. file[u] # file[t]
      BY <2>3, <1>1, Exclusive DEF Locked
    <3>2. out[u] # i
      BY <3>1, <2>1, <1>1 DEF WlDistinct
    <3>3. data'[out[u]] = data[out[u]] /\ off'[u] = off[u]
      BY <3>2, <2>1, <2>3, <1>3, <1>4 DEF TypeOK
    <3> QED BY <2>1, <3>3
  <2> QED BY <2>2, <2>3
<1>8. SettledCopyIsWhole'
  <2> SUFFICES ASSUME NEW g \in Files, wl[g] # None, ~Copying(g), NEW k \in 1 .. N
               PROVE  data'[wl[g]][k] # "none"
    BY <1>3 DEF SettledCopyIsWhole, Copying
  <2>1. g # file[t]
    BY <1>1 DEF Copying
  <2>2. wl[g] # i /\ wl[g] \in Inodes
    BY <2>1, <1>1 DEF WlDistinct, TypeOK
  <2> QED BY <2>2, <1>4 DEF SettledCopyIsWhole
<1> QED BY <1>5, <1>6, <1>7, <1>8

\* A copy that fails is removed.
LEMMA CopyFailInv ==
  ASSUME Inv, NEW t \in Threads, CopyFail(t)
  PROVE  Inv'
<1> USE DEF Inv
<1>1. TypeOK'
  BY DEF CopyFail, TypeOK, Goto, PCs
<1>2. /\ \A u \in Threads : u # t => pc'[u] = pc[u] /\ out'[u] = out[u]
      /\ pc[t] = "copy" /\ pc'[t] = "abort"
      /\ UNCHANGED <<wl, data, lock, file, write, off, handle>>
  BY DEF CopyFail, TypeOK, Goto
<1>3. LockHeld' /\ CreateFresh' /\ WritersHaveCopy'
  BY <1>2 DEF LockHeld, CreateFresh, WritersHaveCopy, Locked
<1>4. CopyFilled'
  BY <1>2 DEF CopyFilled
<1>5. \A g \in Files : Copying(g) => Copying(g)'
  BY <1>2 DEF Copying
<1>6. WlDistinct' /\ SettledCopyIsWhole'
  BY <1>2, <1>5, SettledSame
<1> QED BY <1>1, <1>3, <1>4, <1>6

\* A failed open returns.
LEMMA AbortInv ==
  ASSUME Inv, NEW t \in Threads, Abort(t)
  PROVE  Inv'
<1> USE DEF Inv
<1> DEFINE f == file[t]
<1>1. pc[t] = "abort" /\ f \in Files /\ pc'[t] = "idle"
  BY DEF Abort, TypeOK, Goto
<1>2. TypeOK'
  BY ConstantsAssumption DEF Abort, TypeOK, Goto, PCs, Unlock
<1>3. /\ \A u \in Threads : u # t => pc'[u] = pc[u]
      /\ wl'[f] = None /\ \A g \in Files : g # f => wl'[g] = wl[g]
      /\ UNCHANGED <<data, file, write, out, off, handle>>
  BY DEF Abort, TypeOK, Goto
<1>4. LockHeld'
  BY <1>1, <1>3, UnlockHeld DEF Abort, Locked
<1>5. CreateFresh' /\ WritersHaveCopy' /\ WlDistinct'
  <2>1. WlDistinct'
    BY <1>3 DEF WlDistinct
  <2>2. WritersHaveCopy'
    BY <1>1, <1>3 DEF WritersHaveCopy
  <2>3. CreateFresh'
    BY <1>1, <1>3 DEF CreateFresh, TypeOK
  <2> QED BY <2>1, <2>2, <2>3
<1>6. CopyFilled'
  <2> SUFFICES ASSUME NEW u \in Threads, pc'[u] = "copy"
               PROVE  /\ out[u] # None /\ wl'[file[u]] = out[u]
                      /\ \A k \in 1 .. off[u] : data[out[u]][k] # "none"
    BY <1>3 DEF CopyFilled
  <2>1. u # t /\ pc[u] = "copy"
    BY <1>1, <1>3
  <2>2. file[u] # f /\ file[u] \in Files
    BY <1>1, <2>1, Exclusive DEF Locked, TypeOK
  <2> QED BY <1>3, <2>1, <2>2 DEF CopyFilled
<1>7. SettledCopyIsWhole'
  <2> SUFFICES ASSUME NEW g \in Files, wl'[g] # None, ~Copying(g)', NEW k \in 1 .. N
               PROVE  data[wl'[g]][k] # "none"
    BY <1>3 DEF SettledCopyIsWhole
  <2>1. g # f /\ wl'[g] = wl[g]
    BY <1>3
  <2>2. ~Copying(g)
    BY <1>3, <2>1 DEF Copying
  <2> QED BY <2>1, <2>2 DEF SettledCopyIsWhole
<1> QED BY <1>2, <1>4, <1>5, <1>6, <1>7

\* The copy is whole.
LEMMA CopyDoneInv ==
  ASSUME Inv, NEW t \in Threads, CopyDone(t)
  PROVE  Inv'
<1> USE DEF Inv
<1> DEFINE f == file[t]
<1>1. /\ pc[t] = "copy" /\ off[t] = N /\ f \in Files /\ pc'[t] = "open"
      /\ \A u \in Threads : u # t => pc'[u] = pc[u] /\ out'[u] = out[u]
      /\ UNCHANGED <<wl, data, file, write, off, handle>>
  BY DEF CopyDone, TypeOK, Goto
<1>2. TypeOK'
  BY ConstantsAssumption DEF CopyDone, TypeOK, Goto, PCs, Unlock
<1>3. LockHeld'
  BY <1>1, UnlockHeld DEF CopyDone, Locked
<1>4. CreateFresh' /\ CopyFilled' /\ WritersHaveCopy' /\ WlDistinct'
  BY <1>1 DEF CreateFresh, CopyFilled, WritersHaveCopy, WlDistinct
<1>5. SettledCopyIsWhole'
  <2> SUFFICES ASSUME NEW g \in Files, wl[g] # None, ~Copying(g)', NEW k \in 1 .. N
               PROVE  data[wl[g]][k] # "none"
    BY <1>1 DEF SettledCopyIsWhole
  <2>1. CASE g = f
    BY <2>1, <1>1 DEF CopyFilled
  <2>2. CASE g # f
    <3>1. ~Copying(g)
      BY <1>1, <2>2 DEF Copying
    <3> QED BY <3>1 DEF SettledCopyIsWhole
  <2> QED BY <2>1, <2>2
<1> QED BY <1>2, <1>3, <1>4, <1>5

\* The steps of a thread outside CopyUp that touch no chunk.
LEMMA HandleInv ==
  ASSUME Inv, NEW t \in Threads, OpenHost(t) \/ VfsRelease(t)
  PROVE  Inv'
<1> USE DEF Inv
<1>1. /\ pc[t] \in {"open", "opened"} /\ pc'[t] \in {"idle", "opened"}
      /\ pc'[t] = "opened" => handle'[t] # None
      /\ \A u \in Threads : u # t => pc'[u] = pc[u] /\ handle'[u] = handle[u]
      /\ UNCHANGED <<wl, data, lock, file, write, out, off>>
  BY DEF OpenHost, VfsRelease, TypeOK, Goto
<1>2. TypeOK'
  <2>1. wl[file[t]] \in Inodes \cup {None}
    BY DEF TypeOK
  <2> QED BY <2>1 DEF OpenHost, VfsRelease, TypeOK, Goto, PCs
<1>3. LockHeld' /\ CreateFresh' /\ CopyFilled' /\ WritersHaveCopy'
  BY <1>1 DEF LockHeld, CreateFresh, CopyFilled, WritersHaveCopy, Locked
<1>4. \A g \in Files : Copying(g) => Copying(g)'
  BY <1>1 DEF Copying
<1>5. WlDistinct' /\ SettledCopyIsWhole'
  BY <1>1, <1>4, SettledSame
<1> QED BY <1>2, <1>3, <1>5

\* A write through a handle.
LEMMA VfsWriteInv ==
  ASSUME Inv, NEW t \in Threads, NEW k \in 1 .. N, VfsWrite(t, k)
  PROVE  Inv'
<1> USE DEF Inv
<1>1. /\ handle[t] \in Inodes
      /\ data' = [data EXCEPT ![handle[t]][k] = "new"]
      /\ UNCHANGED <<wl, lock, pc, file, write, out, off, handle>>
  BY DEF VfsWrite, WritersHaveCopy, TypeOK
<1>2. \A i \in Inodes, j \in 1 .. N : data[i][j] # "none" => data'[i][j] # "none"
  BY <1>1 DEF TypeOK
<1>3. TypeOK'
  BY <1>1 DEF TypeOK
<1>4. LockHeld' /\ CreateFresh' /\ WlDistinct' /\ WritersHaveCopy'
  BY <1>1 DEF LockHeld, CreateFresh, WlDistinct, WritersHaveCopy
<1>5. CopyFilled'
  <2> SUFFICES ASSUME NEW u \in Threads, pc[u] = "copy", NEW j \in 1 .. off[u]
               PROVE  data'[out[u]][j] # "none"
    BY <1>1 DEF CopyFilled
  <2>1. out[u] \in Inodes /\ data[out[u]][j] # "none"
    BY DEF CopyFilled, TypeOK
  <2>2. off[u] \in 0 .. N
    BY DEF TypeOK
  <2>3. j \in 1 .. N
    BY <2>2, ConstantsAssumption
  <2> QED BY <1>2, <2>1, <2>3
<1>6. SettledCopyIsWhole'
  BY <1>1, <1>2 DEF SettledCopyIsWhole, Copying, TypeOK
<1> QED BY <1>3, <1>4, <1>5, <1>6

-----------------------------------------------------------------------------
\* Every step keeps the invariant.
LEMMA InvNext == Inv /\ [Next]_vars => Inv'
<1> SUFFICES ASSUME Inv, [Next]_vars PROVE Inv'
  OBVIOUS
<1>1. CASE Next
  <2> PICK t \in Threads :
        \/ \E f \in Files, w \in BOOLEAN : Resolve(t, f, w)
        \/ CopyStep(t) \/ OpenHost(t) \/ VfsRelease(t)
        \/ \E k \in 1 .. N : VfsWrite(t, k)
    BY <1>1 DEF Next
  <2>1. CASE \E f \in Files, w \in BOOLEAN : Resolve(t, f, w)
    BY <2>1, ResolveInv
  <2>2. CASE CopyStep(t)
    BY <2>2, LockInv, CheckInv, CreateInv, CopyChunkInv, CopyFailInv, AbortInv,
       CopyDoneInv DEF CopyStep
  <2>3. CASE OpenHost(t) \/ VfsRelease(t)
    BY <2>3, HandleInv
  <2>4. CASE \E k \in 1 .. N : VfsWrite(t, k)
    BY <2>4, VfsWriteInv
  <2> QED BY <2>1, <2>2, <2>3, <2>4
<1>2. CASE UNCHANGED vars
  BY <1>2 DEF vars, Inv, TypeOK, LockHeld, CreateFresh, CopyFilled, WlDistinct,
    WritersHaveCopy, SettledCopyIsWhole, Copying
<1> QED BY <1>1, <1>2

\* The invariant always holds.
LEMMA Invariance == Spec => []Inv
BY InvInit, InvNext, PTL DEF Spec

\* VfsOpen and CopyUp keep every descriptor, position and lock in its range.
THEOREM TypeCorrect == Spec => []TypeOK
<1>1. Inv => TypeOK
  BY DEF Inv
<1> QED BY Invariance, <1>1, PTL

\* A writelayer copy no thread is making is whole: CopyUp finishes it or
\* unlinks it, for any number of threads and shards.
THEOREM CopyWhole == Spec => []SettledCopyIsWhole
<1>1. Inv => SettledCopyIsWhole
  BY DEF Inv
<1> QED BY Invariance, <1>1, PTL

(***************************************************************************)
(* A settled copy is never made again.                                     *)
(***************************************************************************)
Kept(f) ==
  /\ wl'[f] = wl[f]
  /\ \A k \in 1 .. N : data[wl[f]][k] = "new" => data'[wl[f]][k] = "new"

\* The thread that could undo a settled copy would be copying it up.
LEMMA KeptStep ==
  ASSUME Inv, [Next]_vars, NEW f \in Files, wl[f] # None, ~Copying(f)
  PROVE  Kept(f)
<1> USE DEF Inv
<1>0. wl[f] \in Inodes /\ \A t \in Threads : file[t] = f => pc[t] \notin {"copy", "abort"}
  BY DEF TypeOK, Copying
<1>1. ASSUME NEW t \in Threads, Create(t) PROVE Kept(f)
  <2>1. wl[file[t]] = None /\ file[t] # f
    BY <1>0, <1>1 DEF Create, CreateFresh
  <2>2. PICK i \in Inodes \ Live :
          wl' = [wl EXCEPT ![file[t]] = i] /\ data' = [data EXCEPT ![i] = Blank]
    BY <1>1, <2>1 DEF Create
  <2>3. wl[f] # i
    BY <1>0, <2>2 DEF Live
  <2> QED BY <1>0, <2>1, <2>2, <2>3 DEF Kept, TypeOK
<1>2. ASSUME NEW t \in Threads, CopyChunk(t) PROVE Kept(f)
  <2>1. /\ file[t] # f /\ file[t] \in Files /\ wl[file[t]] = out[t] /\ out[t] # None
        /\ out[t] \in Inodes
    BY <1>0, <1>2 DEF CopyChunk, CopyFilled, TypeOK
  <2>2. wl[f] # out[t]
    BY <2>1 DEF WlDistinct
  <2> QED BY <1>0, <1>2, <2>1, <2>2 DEF CopyChunk, Kept, TypeOK
<1>3. ASSUME NEW t \in Threads, Abort(t) PROVE Kept(f)
  <2>1. file[t] # f
    BY <1>0, <1>3 DEF Abort
  <2> QED BY <1>3, <2>1 DEF Abort, Kept, TypeOK
<1>4. ASSUME NEW t \in Threads, NEW k \in 1 .. N, VfsWrite(t, k) PROVE Kept(f)
  <2>1. handle[t] \in Inodes
    BY <1>4 DEF VfsWrite, WritersHaveCopy, TypeOK
  <2> QED BY <1>0, <1>4, <2>1 DEF VfsWrite, Kept, TypeOK
<1>5. CASE UNCHANGED <<wl, data>>
  BY <1>5 DEF Kept
<1>6. \/ UNCHANGED <<wl, data>>
      \/ \E t \in Threads : Create(t) \/ CopyChunk(t) \/ Abort(t) \/ \E k \in 1 .. N : VfsWrite(t, k)
  BY DEF Next, CopyStep, vars, Resolve, Lock, Check, CopyFail, CopyDone, OpenHost, VfsRelease
<1> QED BY <1>1, <1>2, <1>3, <1>4, <1>5, <1>6

\* What programs wrote into a settled copy is never copied over, though other
\* threads chose to copy up while it was not there yet.
THEOREM CopyKept == Spec => SettledCopyIsKept
<1>1. Inv /\ [Next]_vars =>
        [\A f \in Files : wl[f] # None /\ ~Copying(f) =>
           /\ wl'[f] = wl[f]
           /\ \A k \in 1 .. N : data[wl[f]][k] = "new" => data'[wl[f]][k] = "new"]_vars
  BY KeptStep DEF Kept
<1> QED BY Invariance, <1>1, PTL DEF Spec, SettledCopyIsKept
=============================================================================
