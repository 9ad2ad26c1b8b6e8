--------------------------- MODULE ConcurrentOpen ---------------------------
(***************************************************************************)
(* Threads of the mount in VfsOpen (src/src/vfsops.cpp) and the CopyUp it  *)
(* makes (src/src/overlay.cpp), one action per host call or lock step.     *)
(* FUSE serves requests on several threads, and two opens of one path are  *)
(* not serialised by anyone: Resolve takes no lock, CopyUp takes the lock  *)
(* of the path's shard.                                                    *)
(*                                                                         *)
(* Every file is at first in a lower layer only, N chunks long (CopyUp's   *)
(* 256 KiB buffer); a chunk of a writelayer copy is "none" (a hole, or     *)
(* past the end), "old" (copied from below) or "new" (written by a         *)
(* program).  Unlinks and renames of a path are kept away from its opens   *)
(* by the kernel and by libfuse's path locks, and are not here.            *)
(***************************************************************************)
EXTENDS Integers, FiniteSets

CONSTANTS
  Threads,   \* server threads
  Files,     \* virtual paths of lower-layer files
  Shards,    \* VfsState::copyUpShards
  Shard,     \* hash(vrel) % kCopyUpShards: the shard of every file
  Inodes,    \* host inodes; bounds the writelayer copies alive at once
  N,         \* chunks of a file
  CopyFails, \* whether the host may refuse to write a chunk (ENOSPC, EIO)
  None       \* no inode, no holder

ASSUME ConstantsAssumption ==
  /\ N \in Nat \ {0}
  /\ Shard \in [Files -> Shards]
  /\ CopyFails \in BOOLEAN
  /\ None \notin Inodes \cup Threads

VARIABLES
  wl,      \* the inode a file has in the writelayer, or None
  data,    \* chunks of every inode
  lock,    \* holder of every shard's mutex
  pc,      \* where a thread is
  file,    \* the file it opens
  write,   \* whether with write intent
  out,     \* CopyUp's output descriptor
  off,     \* chunks copied so far
  handle   \* the handle VfsOpen returned: an inode, or None for a lower file

vars == <<wl, data, lock, pc, file, write, out, off, handle>>

PCs == {"idle", "copyup", "check", "create", "copy", "abort", "open", "opened"}

\* The thread holds the lock of its file's shard.
Locked == {"check", "create", "copy", "abort"}

Blank == [k \in 1 .. N |-> "none"]

Live == ({wl[f] : f \in Files} \cup {handle[t] : t \in Threads} \cup {out[t] : t \in Threads}) \ {None}

Goto(t, l) == pc' = [pc EXCEPT ![t] = l]

Unlock(t) == lock' = [lock EXCEPT ![Shard[file[t]]] = None]

-----------------------------------------------------------------------------
Init ==
  /\ wl = [f \in Files |-> None]
  /\ data = [i \in Inodes |-> Blank]
  /\ lock = [s \in Shards |-> None]
  /\ pc = [t \in Threads |-> "idle"]
  /\ file \in [Threads -> Files]
  /\ write = [t \in Threads |-> FALSE]
  /\ out = [t \in Threads |-> None]
  /\ off = [t \in Threads |-> 0]
  /\ handle = [t \in Threads |-> None]

\* VfsOpen up to the decision to copy up: Resolve looks for a writelayer copy
\* once.  A lower file opened for reading is opened where it is.
Resolve(t, f, w) ==
  /\ pc[t] = "idle"
  /\ file' = [file EXCEPT ![t] = f]
  /\ write' = [write EXCEPT ![t] = w]
  /\ \/ wl[f] # None /\ Goto(t, "open")
     \/ wl[f] = None /\ w /\ Goto(t, "copyup")
     \/ wl[f] = None /\ ~w /\ Goto(t, "opened")
  /\ UNCHANGED <<wl, data, lock, out, off, handle>>

Lock(t) ==
  /\ pc[t] = "copyup"
  /\ lock[Shard[file[t]]] = None
  /\ lock' = [lock EXCEPT ![Shard[file[t]]] = t]
  /\ Goto(t, "check")
  /\ UNCHANGED <<wl, data, file, write, out, off, handle>>

\* Mutant: the check under the lock is left out.
CheckSkipped(t) ==
  /\ pc[t] = "check"
  /\ Goto(t, "create")
  /\ UNCHANGED <<wl, data, lock, file, write, out, off, handle>>

\* Mutant: the early return of CopyUp keeps the lock.
CheckKeepsLock(t) ==
  /\ pc[t] = "check"
  /\ Goto(t, IF wl[file[t]] # None THEN "open" ELSE "create")
  /\ UNCHANGED <<wl, data, lock, file, write, out, off, handle>>

\* "another thread already copied it up"
Check(t) ==
  /\ pc[t] = "check"
  /\ \/ wl[file[t]] # None /\ Unlock(t) /\ Goto(t, "open")
     \/ wl[file[t]] = None /\ UNCHANGED lock /\ Goto(t, "create")
  /\ UNCHANGED <<wl, data, file, write, out, off, handle>>

\* Open(dst, O_CREAT | O_WRONLY | O_TRUNC)
Create(t) ==
  /\ pc[t] = "create"
  /\ \E i \in IF wl[file[t]] = None THEN Inodes \ Live ELSE {wl[file[t]]} :
       /\ wl' = [wl EXCEPT ![file[t]] = i]
       /\ data' = [data EXCEPT ![i] = Blank]
       /\ out' = [out EXCEPT ![t] = i]
  /\ off' = [off EXCEPT ![t] = 0]
  /\ Goto(t, "copy")
  /\ UNCHANGED <<lock, file, write, handle>>

\* Mutant: one chunk past the end.
CopyChunkTooFar(t) ==
  /\ pc[t] = "copy" /\ off[t] <= N
  /\ data' = [data EXCEPT ![out[t]][off[t] + 1] = "old"]
  /\ off' = [off EXCEPT ![t] = @ + 1]
  /\ UNCHANGED <<wl, lock, pc, file, write, out, handle>>

\* FullWrite of the next chunk, at the descriptor's own position.
CopyChunk(t) ==
  /\ pc[t] = "copy" /\ off[t] < N
  /\ data' = [data EXCEPT ![out[t]][off[t] + 1] = "old"]
  /\ off' = [off EXCEPT ![t] = @ + 1]
  /\ UNCHANGED <<wl, lock, pc, file, write, out, handle>>

CopyFail(t) ==
  /\ CopyFails
  /\ pc[t] = "copy" /\ off[t] < N
  /\ Goto(t, "abort")
  /\ out' = [out EXCEPT ![t] = None]
  /\ UNCHANGED <<wl, data, lock, file, write, off, handle>>

\* Mutant: a failed copy is not unlinked.
AbortKeepsCopy(t) ==
  /\ pc[t] = "abort"
  /\ Unlock(t)
  /\ Goto(t, "idle")
  /\ UNCHANGED <<wl, data, file, write, out, off, handle>>

\* Unlink(dst); the lock goes and VfsOpen returns the error.
Abort(t) ==
  /\ pc[t] = "abort"
  /\ wl' = [wl EXCEPT ![file[t]] = None]
  /\ Unlock(t)
  /\ Goto(t, "idle")
  /\ UNCHANGED <<data, file, write, out, off, handle>>

\* Mutant: a completed copy keeps the lock.
CopyDoneKeepsLock(t) ==
  /\ pc[t] = "copy" /\ off[t] = N
  /\ out' = [out EXCEPT ![t] = None]
  /\ Goto(t, "open")
  /\ UNCHANGED <<wl, data, lock, file, write, off, handle>>

CopyDone(t) ==
  /\ pc[t] = "copy" /\ off[t] = N
  /\ out' = [out EXCEPT ![t] = None]
  /\ Unlock(t)
  /\ Goto(t, "open")
  /\ UNCHANGED <<wl, data, file, write, off, handle>>

\* HostIO::Open of the writelayer copy, which may be gone again.
OpenHost(t) ==
  /\ pc[t] = "open"
  /\ handle' = [handle EXCEPT ![t] = wl[file[t]]]
  /\ Goto(t, IF wl[file[t]] = None THEN "idle" ELSE "opened")
  /\ UNCHANGED <<wl, data, lock, file, write, out, off>>

\* VfsWrite through the handle.
VfsWrite(t, k) ==
  /\ pc[t] = "opened" /\ write[t]
  /\ data' = [data EXCEPT ![handle[t]][k] = "new"]
  /\ UNCHANGED <<wl, lock, pc, file, write, out, off, handle>>

VfsRelease(t) ==
  /\ pc[t] = "opened"
  /\ handle' = [handle EXCEPT ![t] = None]
  /\ Goto(t, "idle")
  /\ UNCHANGED <<wl, data, lock, file, write, out, off>>

-----------------------------------------------------------------------------
CopyStep(t) ==
  Lock(t) \/ Check(t) \/ Create(t) \/ CopyChunk(t) \/ CopyFail(t) \/ Abort(t) \/ CopyDone(t)

Next ==
  \E t \in Threads :
    \/ \E f \in Files, w \in BOOLEAN : Resolve(t, f, w)
    \/ CopyStep(t) \/ OpenHost(t) \/ VfsRelease(t)
    \/ \E k \in 1 .. N : VfsWrite(t, k)

Spec == Init /\ [][Next]_vars

\* A thread inside an operation keeps running; a mutex that stays free is
\* taken.  Nothing makes a mutex fair among its waiters.
Fairness ==
  \A t \in Threads :
    WF_vars(Lock(t) \/ Check(t) \/ Create(t) \/ CopyChunk(t) \/ Abort(t)
              \/ CopyDone(t) \/ OpenHost(t))

FairSpec == Spec /\ Fairness

-----------------------------------------------------------------------------
(***************************************************************************)
(* Properties.                                                             *)
(***************************************************************************)
\* The state is well typed: in particular CopyUp never writes past the length
\* of the file it copies (overlay.cpp:807-836).
TypeOK ==
  /\ wl \in [Files -> Inodes \cup {None}]
  /\ data \in [Inodes -> [1 .. N -> {"none", "old", "new"}]]
  /\ lock \in [Shards -> Threads \cup {None}]
  /\ pc \in [Threads -> PCs]
  /\ file \in [Threads -> Files]
  /\ write \in [Threads -> BOOLEAN]
  /\ out \in [Threads -> Inodes \cup {None}]
  /\ off \in [Threads -> 0 .. N]
  /\ handle \in [Threads -> Inodes \cup {None}]

Copying(f) == \E t \in Threads : file[t] = f /\ pc[t] \in {"copy", "abort"}

\* Once no thread copies a file up, its writelayer copy is whole: CopyUp either
\* completes the copy or removes it, whatever the other threads do with it.
SettledCopyIsWhole ==
  \A f \in Files : wl[f] # None /\ ~Copying(f) =>
    \A k \in 1 .. N : data[wl[f]][k] # "none"

\* A settled copy is never copied over again: what programs wrote into it
\* stays, though other threads decided to copy up before it was there (the
\* check made again under the lock).
SettledCopyIsKept ==
  [][\A f \in Files : wl[f] # None /\ ~Copying(f) =>
       /\ wl'[f] = wl[f]
       /\ \A k \in 1 .. N : data[wl[f]][k] = "new" => data'[wl[f]][k] = "new"]_vars

\* No way through CopyUp keeps the shard's lock, its early return and its
\* errors included: whoever holds it gives it back.
LocksReleased ==
  \A s \in Shards, t \in Threads : lock[s] = t ~> lock[s] # t

\* Once no more copies fail, every open comes to an end: a thread that waits
\* for the lock finds the copy made by the one before it, which ends the queue
\* even though the mutex is not fair.
OpensFinish ==
  <>[][\A t \in Threads : ~CopyFail(t)]_vars =>
    \A t \in Threads : pc[t] \in {"copyup", "open"} ~> pc[t] \in {"idle", "opened"}
=============================================================================
