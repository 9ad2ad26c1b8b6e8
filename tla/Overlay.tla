------------------------------- MODULE Overlay -------------------------------
(***************************************************************************)
(* The copy-on-write overlay of src/src/overlay.cpp and the operations of  *)
(* src/src/vfsops.cpp on it, for a writable mount: a writelayer over the   *)
(* layer stack of LayerView, some of whose layers may be kept (rw) folders *)
(* that are written in place of the writelayer.                            *)
(*                                                                         *)
(* One action per operation; an action is the whole handler.  Host errors  *)
(* are injected at the host calls named in HostFaults, and a kill of the   *)
(* server between any two host calls.  The guards called "kernel" below    *)
(* are what the VFS establishes (by lookups through VfsGetattr) before it  *)
(* calls the handler.                                                      *)
(***************************************************************************)
EXTENDS LayerView

CONSTANTS
  Inodes,      \* host inodes that may be in use at once (a bound)
  Payloads,    \* the contents a program writes
  Empty,       \* the content of a file just created or truncated
  LinkTarget,  \* the content of a symbolic link made through the mount
  HostFaults   \* what may go wrong, see below

\* Host calls that fail; "marker" is a marker of the writelayer that cannot be
\* written, "kept" and "unhide" one of a kept folder that cannot be written or
\* removed, "xdev" a kept folder on another disk than the writelayer.  "kill"
\* is the server killed and started again, "relaunch" a new session that gets a
\* fresh writelayer.
AllFaults == {"parent", "open", "mkdir", "symlink", "link", "rename", "unlink", "copy",
              "marker", "kept", "unhide", "xdev", "kill", "relaunch"}

ASSUME OverlayAssumption ==
  /\ Payloads \subseteq Contents /\ {Empty, LinkTarget} \subseteq Contents
  /\ Inodes \cap (Contents \cup {Dir, Absent, Packed}) = {}
  /\ HostFaults \subseteq AllFaults

VARIABLES
  S,     \* the writelayer and the kept folders on the host's disk, and their masks in memory
  data,  \* content of every inode
  open,  \* inodes with a handle open for writing
  rc     \* result of the last operation

vars == <<S, data, open, rc>>

(***************************************************************************)
(* A store is a host directory that programs write: the writelayer (Wl) or *)
(* a kept folder (its index in Layers).  S[h] is                           *)
(*   tree             the host tree under it, at virtual paths             *)
(*   wh, opq          the `.wh.<name>` and `.wh..wh..opq` markers there:   *)
(*                    v \in wh is the marker of v, in v's parent directory *)
(*   deleted, opaque  their mirrors in memory (VfsState::whiteoutSet and   *)
(*                    opaqueSet, Layer::kept)                              *)
(***************************************************************************)
Stores == {Wl} \cup Kept

StoreRoot(h) == IF h = Wl THEN Root ELSE KeptRoot[h]

Holds(h, v) == Within(v, StoreRoot(h))

\* The directories of store h above v.
Above == [h \in Stores |-> [v \in Paths |-> {a \in Ancestors(v) : Holds(h, a)}]]

VfsState ==
  [Stores -> [tree : [Paths -> Inodes \cup {Dir, Absent}],
              wh : SUBSET Paths, opq : SUBSET Paths,
              deleted : SUBSET Paths, opaque : SUBSET Paths]]

EmptyStore(h) ==
  [tree |-> [p \in Paths |-> IF p = StoreRoot(h) THEN Dir ELSE Absent],
   wh |-> {}, opq |-> {}, deleted |-> {}, opaque |-> {}]

\* The error codes, which no property tells apart.
EIO == "error"
ENOENT == "error"
ENOTEMPTY == "error"
EEXIST == "error"
EISDIR == "error"
ENOTDIR == "error"
EXDEV == "error"

Codes == {"ok", "error", "killed", "relaunched"}

-----------------------------------------------------------------------------
(***************************************************************************)
(* Masks.                                                                  *)
(***************************************************************************)
\* IsWhiteouted; KeptHidden.  The root of a store cannot hide itself.
IsDeleted(s, h, v) == v # StoreRoot(h) /\ v \in s[h].deleted

\* IsUnderWhiteout and IsUnderOpaque; KeptMasked above the path itself.
IsUnderMask(s, h, v) ==
  \E a \in Above[h][v] : IsDeleted(s, h, a) \/ a \in s[h].opaque

KeptMasked(s, k, v) ==
  v # StoreRoot(k) /\ (IsDeleted(s, k, v) \/ IsUnderMask(s, k, v))

Put(s, h, v, entry) == [s EXCEPT ![h].tree[v] = entry]

\* Mutant: the host directory that v is in is not made.
NoParent(s, h, v) == s

\* create_directories of the host directory that v is in: EnsureWriteParent,
\* EnsureHostParent.
EnsureParent(s, h, v) ==
  [s EXCEPT ![h].tree =
     [p \in Paths |-> IF p \in Above[h][v] /\ s[h].tree[p] = Absent THEN Dir ELSE s[h].tree[p]]]

\* written = FALSE: the marker could not be opened, which the code ignores.
CreateWhiteout(s, v, written) ==
  [EnsureParent(s, Wl, v) EXCEPT
     ![Wl].wh = IF written THEN @ \cup {v} ELSE @,
     ![Wl].deleted = @ \cup {v}]

\* Mutant: the marker goes, the mask in memory stays.
RemoveMarkerOnly(s, v) == [s EXCEPT ![Wl].wh = @ \ {v}]

RemoveWhiteout(s, v) == [s EXCEPT ![Wl].wh = @ \ {v}, ![Wl].deleted = @ \ {v}]

\* Every mask in memory has its marker on disk.
Recorded(s) ==
  \A h \in Stores : s[h].deleted \subseteq s[h].wh /\ s[h].opaque \subseteq s[h].opq

\* Whether a marker can be written.  At most one that could not is missing at
\* any time (a bound).
MarkerWritten == IF "marker" \in HostFaults /\ Recorded(S) THEN BOOLEAN ELSE {TRUE}

MarkOpaque(s, v, written) ==
  [s EXCEPT ![Wl].opq = IF written THEN @ \cup {v} ELSE @, ![Wl].opaque = @ \cup {v}]

\* TouchMarker for v in the kept folder k, and the mask in memory.
KeptHide(s, k, v) ==
  [EnsureParent(s, k, v) EXCEPT ![k].wh = @ \cup {v}, ![k].deleted = @ \cup {v}]

KeptMarkOpaque(s, k, v) == [s EXCEPT ![k].opq = @ \cup {v}, ![k].opaque = @ \cup {v}]

\* An outcome of a helper: the state it leaves and what it returns.
Outcome(s, code) == [s |-> s, code |-> code]

\* Mutant: a deletion that cannot be recorded is reported as done.
HideQuietly(s, v) ==
  IF Home[v] = Wl \/ v = StoreRoot(Home[v])
  THEN {Outcome(CreateWhiteout(s, v, w), "ok") : w \in MarkerWritten}
  ELSE {Outcome(KeptHide(s, Home[v], v), "ok"), Outcome(s, "ok")}

HideLower(s, v) ==
  IF Home[v] = Wl \/ v = StoreRoot(Home[v])
  THEN {Outcome(CreateWhiteout(s, v, w), "ok") : w \in MarkerWritten}
  ELSE {Outcome(KeptHide(s, Home[v], v), "ok")}
         \cup {Outcome(EnsureParent(s, Home[v], v), EIO) : e \in HostFaults \cap {"kept"}}

\* Mutant: a name made again in a kept folder keeps its mask in memory.
UnhideMarkerOnly(s, v) ==
  {IF Home[v] # Wl /\ IsDeleted(s, Home[v], v)
   THEN RemoveWhiteout([s EXCEPT ![Home[v]].wh = @ \ {v}], v) ELSE RemoveWhiteout(s, v)}

\* UnhideLower, whose result every caller ignores.
UnhideLower(s, v) ==
  IF Home[v] # Wl /\ IsDeleted(s, Home[v], v)
  THEN {RemoveWhiteout([s EXCEPT ![Home[v]].wh = @ \ {v}, ![Home[v]].deleted = @ \ {v}], v)}
         \cup {s : e \in HostFaults \cap {"unhide"}}
  ELSE {RemoveWhiteout(s, v)}

\* The names at and below old, now at and below new.
RewritePrefix(set, old, new) ==
  {IF Within(p, old) THEN Rebase(p, old, new) ELSE p : p \in set}

\* Mutant: the prefix is cut off by one.
RenameMaskOffByOne(s, old, new) ==
  [s EXCEPT ![Wl].deleted =
     {IF Within(p, old) THEN new \o SubSeq(p, Len(old), Len(p)) ELSE p : p \in s[Wl].deleted}]

\* Mutant: the opaque masks do not move with the directory.
RenameDeletedOnly(s, old, new) ==
  [s EXCEPT ![Wl].deleted = RewritePrefix(s[Wl].deleted, old, new)]

RenameMaskPrefix(s, old, new) ==
  [s EXCEPT ![Wl].deleted = RewritePrefix(s[Wl].deleted, old, new),
            ![Wl].opaque = RewritePrefix(s[Wl].opaque, old, new)]

\* Mutant: the opaque masks of a kept folder do not move with the directory.
KeptRenameDeletedOnly(s, old, new) ==
  IF Home[old] = Wl \/ Home[old] # Home[new] THEN s
  ELSE [s EXCEPT ![Home[old]].deleted = RewritePrefix(s[Home[old]].deleted, old, new)]

KeptRenamePrefix(s, old, new) ==
  IF Home[old] = Wl \/ Home[old] # Home[new] THEN s
  ELSE [s EXCEPT ![Home[old]].deleted = RewritePrefix(s[Home[old]].deleted, old, new),
                 ![Home[old]].opaque = RewritePrefix(s[Home[old]].opaque, old, new)]

\* Init's walk of a store finds the markers in the directories that it reaches
\* from the store's root.
WalkReaches(s, h, v) ==
  Holds(h, v) /\ \A a \in Above[h][v] \cup {v} : s[h].tree[a] = Dir

\* Mutant: the walk does not go down into directories.
SeedTopOnly(s) ==
  [h \in Stores |-> [s[h] EXCEPT
     !.deleted = {v \in s[h].wh : v # Root /\ ParentVRel(v) = StoreRoot(h)},
     !.opaque = s[h].opq \cap {StoreRoot(h)}]]

\* SeedMasksFromWritelayer, SeedKeptMasks.
SeedMasks(s) ==
  [h \in Stores |-> [s[h] EXCEPT
     !.deleted = {v \in s[h].wh : v # Root /\ WalkReaches(s, h, ParentVRel(v))},
     !.opaque = {v \in s[h].opq : WalkReaches(s, h, v)}]]

-----------------------------------------------------------------------------
(***************************************************************************)
(* Lookup and listing.                                                     *)
(***************************************************************************)
None == [kind |-> "None", at |-> Wl, entry |-> Absent]

Topmost(set) == CHOOSE i \in set : \A j \in set : j <= i

\* What layer i serves at v.
Answer(s, i, v) ==
  IF i \notin Kept THEN [kind |-> "Lower", at |-> i, entry |-> LayerEntry[i][v]]
  ELSE IF s[i].tree[v] = Absent THEN None
  ELSE [kind |-> "Kept", at |-> i, entry |-> s[i].tree[v]]

\* The highest of the layers that answer, else a structural directory.
HighestAnswer(s, v, hits) ==
  IF hits # {} THEN Answer(s, Topmost(hits), v)
  ELSE IF v \in ImplicitDirs THEN [kind |-> "Lower", at |-> Wl, entry |-> Dir] ELSE None

\* Below the writelayer: a kept folder answers with its own entries and with
\* its masks.
ResolveLayers(s, v) ==
  HighestAnswer(s, v, Hits[v] \cup
    {k \in KeptOver[v] : s[k].tree[v] # Absent \/ KeptMasked(s, k, v)})

\* Resolve: kind "None", "WriteLayer", "Kept" (a kept folder's own entry) or
\* "Lower" (Dir, File, Zip layer or structural directory), the store or layer
\* that has it, and the entry that is served.
Resolve(s, v) ==
  IF IsDeleted(s, Wl, v) THEN None
  ELSE IF s[Wl].tree[v] # Absent THEN [kind |-> "WriteLayer", at |-> Wl, entry |-> s[Wl].tree[v]]
  ELSE IF IsUnderMask(s, Wl, v) THEN None
  ELSE ResolveLayers(s, v)

\* Mutant: an opaque directory is listed as empty.
CollectNothingWhenOpaque(s, v) ==
  IF v \in s[Wl].opq THEN {}
  ELSE ({c \in Children(v) : s[Wl].tree[c] # Absent} \cup LowerNames[v][0]) \ s[Wl].wh

\* Mutant: a kept folder's directory that is opaque lists its lower names.
CollectKeptNotOpaque(s, v) ==
  LET own == {c \in Children(v) : \E k \in Stores : s[k].tree[c] # Absent}
  IN  (own \cup LowerNames[v][0]) \ (UNION {s[k].wh : k \in Stores} \ own)

\* CollectChildren: the merged listing, from the disk's markers except for the
\* kept folders' opaque directories, which are looked up in memory.
CollectChildren(s, v) ==
  LET names(h) == {c \in Children(v) : s[h].tree[c] # Absent}
      from == Topmost({Wl} \cup {k \in KeptOver[v] : v \in s[k].opaque})
      seen == {k \in KeptOver[v] : k >= from}
      keptOwn == UNION {names(k) : k \in seen}
      keptWhiteouts == UNION {s[k].wh \cap Children(v) : k \in seen}
  IN  (IF v \in s[Wl].opq THEN names(Wl)
       ELSE (names(Wl) \cup LowerNames[v][from] \cup keptOwn) \ (keptWhiteouts \ keptOwn))
        \ s[Wl].wh

Exists(s, v) == Resolve(s, v).kind # "None"

IsDirectory(s, v) == Resolve(s, v).entry = Dir

\* The kernel walks a path one component at a time.
Reachable(s, v) == \A a \in Above[Wl][v] : IsDirectory(s, a)

Content(d, e) == IF e \in Inodes THEN d[e] ELSE e

\* What a program sees at v: nothing, a directory or a file's content.
Serves(s, d, v) == IF Reachable(s, v) THEN Content(d, Resolve(s, v).entry) ELSE Absent

View == [v \in Paths |-> Serves(S, data, v)]

-----------------------------------------------------------------------------
(***************************************************************************)
(* The end of an operation.                                                *)
(***************************************************************************)
Named(s) == {s[h].tree[p] : h \in Stores, p \in Paths} \cap Inodes

FreeInodes == Inodes \ (Named(S) \cup open)

\* The host frees an inode without a name and without a handle.
Reclaim(s, o, d) == [i \in Inodes |-> IF i \in Named(s) \cup o THEN d[i] ELSE Empty]

\* The handler returns.
Reply(s, o, d, code) ==
  /\ S' = s
  /\ open' = o
  /\ data' = Reclaim(s, o, d)
  /\ rc' = code

\* The server is killed here, and the writelayer and the kept folders are
\* mounted again.
Killed(s, d) ==
  /\ "kill" \in HostFaults
  /\ S' = SeedMasks(s)
  /\ open' = {}
  /\ data' = Reclaim(s, {}, d)
  /\ rc' = "killed"

\* Host call `call` fails and the handler returns with what it has done so
\* far, or the server is killed before the call.
Stops(call, s, d) == (call \in HostFaults /\ Reply(s, open, d, EIO)) \/ Killed(s, d)

-----------------------------------------------------------------------------
(***************************************************************************)
(* Copy-up.                                                                *)
(***************************************************************************)
LowerFile(rr) == rr.kind = "Lower" /\ rr.entry # Dir

\* The paths of P that a copy-up turns into a new host file.
NewFiles(s, P) ==
  {p \in P : LowerFile(Resolve(s, p)) /\ s[Home[p]].tree[p] = Absent}

\* A copy of v cannot be made, whatever the host does.
Unreadable(s, v) == Resolve(s, v).entry = Packed

\* The host inodes the new files get.
Allocations(files) ==
  {f \in [files -> FreeInodes] : \A p, q \in files : f[p] = f[q] => p = q}

\* The tree of store h with copies of `lower`, and of the directories above.
Copied(tree, h, lower, ino) ==
  LET dirs == UNION {Above[h][l] : l \in lower}
  IN  [p \in Paths |-> IF tree[p] # Absent \/ p \notin lower \cup dirs THEN tree[p]
                       ELSE IF p \in lower \cap DOMAIN ino THEN ino[p] ELSE Dir]

\* Mutant: what a kept folder does not hold yet is copied to the writelayer.
CopyUpToWritelayer(s, P, ino) ==
  [s EXCEPT ![Wl].tree =
     Copied(s[Wl].tree, Wl, {p \in P : Resolve(s, p).kind = "Lower"}, ino)]

\* CopyUp of every path of P, each resolved in s, into the store it is written
\* to; idempotent.
CopyUp(s, P, ino) ==
  [h \in Stores |-> [s[h] EXCEPT !.tree =
     Copied(s[h].tree, h, {p \in P : Home[p] = h /\ Resolve(s, p).kind = "Lower"}, ino)]]

CopyData(s, d, ino) ==
  [i \in Inodes |-> IF \E p \in DOMAIN ino : ino[p] = i
                    THEN Resolve(s, CHOOSE p \in DOMAIN ino : ino[p] = i).entry ELSE d[i]]

\* Mutant: the copy that CopyUp began is left behind when it fails.
CopyUpKeepsPartial(v) ==
  /\ v \in NewFiles(S, {v}) /\ "copy" \in HostFaults
  /\ \E i \in FreeInodes : Reply(Put(EnsureParent(S, Home[v], v), Home[v], v, i), open, data, EIO)

\* CopyUp of one lower file fails: what it wrote is unlinked again.  Killed, it
\* leaves a copy that is cut short (Empty stands for what is there).
CopyUpFails(v) ==
  /\ v \in NewFiles(S, {v})
  /\ LET s1 == EnsureParent(S, Home[v], v)
     IN  \/ Stops("copy", s1, data)
         \/ Unreadable(S, v) /\ Reply(s1, open, data, EIO)
         \/ \E i \in FreeInodes :
              Killed(Put(s1, Home[v], v, i), [data EXCEPT ![i] = Empty])

HostOf(rr, v) == IF rr.kind = "Kept" THEN rr.at ELSE Home[v]

\* The store that holds v once it is copied up: rr.hostPath of a kept folder's
\* own entry, else PassthroughHost or the writelayer.
WriteStore(v) == HostOf(Resolve(S, v), v)

\* What CopyUp of the paths P (of v: {v}, or a directory's whole tree) leaves,
\* the host inodes of the new files being any free ones.
CopiedUp(P, v) ==
  {[s |-> CopyUp(S, P, ino), d |-> CopyData(S, data, ino), at |-> WriteStore(v)] :
     ino \in {f \in Allocations(NewFiles(S, P)) : ~\E p \in DOMAIN f : Unreadable(S, p)}}

\* The paths DeepCopyUp visits below v, the listing deciding where to go on.
DeepWalk(s, v) ==
  {p \in Paths :
     /\ Within(p, v)
     /\ \A q \in (Ancestors(p) \cup {p}) : q # v /\ Within(q, v) =>
          q \in CollectChildren(s, ParentVRel(q)) /\ IsDirectory(s, ParentVRel(q))}

\* What DeepCopyUp(v) may have copied when it stops at path `stop`: a parent
\* goes before its children, siblings in any order.
PartialWalks(s, v, stop) ==
  {C \in SUBSET {p \in DeepWalk(s, v) : Exists(s, p)} :
     /\ v \in C /\ ParentVRel(stop) \in C /\ stop \notin C
     /\ \A p \in C : p # v => ParentVRel(p) \in C}

-----------------------------------------------------------------------------
(***************************************************************************)
(* Host calls.                                                             *)
(***************************************************************************)
\* A marker is a file inside the directory it is in: it moves along, and it
\* keeps a directory from being empty.
HostBusy(s, h, v) ==
  \/ \E c \in Children(v) : s[h].tree[c] # Absent \/ c \in s[h].wh
  \/ v \in s[h].opq

\* HostIO::Rename of vf in store hf to vt in store ht.
HostRename(s, hf, vf, ht, vt) ==
  LET moved(set) == {w \in set : Within(w, vf)}
      after(g, set, mine) ==
        (IF g = hf THEN set \ moved(mine) ELSE set) \cup
          (IF g = ht THEN {Rebase(w, vf, vt) : w \in moved(mine)} ELSE {})
      comes(p) == LET q == Rebase(p, vt, vf) IN IF q \in Paths THEN s[hf].tree[q] ELSE Absent
      renamed(g) ==
        [s[g] EXCEPT
           !.tree = [p \in Paths |-> IF g = ht /\ Within(p, vt) THEN comes(p)
                                     ELSE IF g = hf /\ Within(p, vf) THEN Absent ELSE s[g].tree[p]],
           !.wh = after(g, s[g].wh, s[hf].wh \ {vf}),
           !.opq = after(g, s[g].opq, s[hf].opq)]
  IN  [s EXCEPT ![hf] = renamed(hf), ![ht] = renamed(ht)]

\* Everything that moves, on disk and in memory, stays inside Paths (a bound of
\* the instance).
Fits(s, h, vf, vt) ==
  LET moving == {p \in Paths : s[h].tree[p] # Absent} \cup (s[h].wh \ {vf}) \cup s[h].opq
                  \cup UNION {s[g].deleted \cup s[g].opaque : g \in {h, Wl}}
  IN  \A p \in moving : Within(p, vf) => Rebase(p, vf, vt) \in Paths

-----------------------------------------------------------------------------
(***************************************************************************)
(* Kernel guards.                                                          *)
(***************************************************************************)
Positive(v) == v # Root /\ Reachable(S, v) /\ Exists(S, v)

\* A regular file: the kernel follows a symbolic link itself.
Regular(v) == Positive(v) /\ Serves(S, data, v) \notin {Dir, LinkTarget}

Negative(v) == v # Root /\ Reachable(S, v) /\ ~Exists(S, v)

\* vfs_rename: no directory moves into itself, and a target that exists is
\* of the source's type.
MayRename(vf, vt) ==
  /\ Positive(vf) /\ vt # Root /\ Reachable(S, vt)
  /\ ~Within(vt, vf) /\ ~Within(vf, vt)
  /\ Exists(S, vt) => (IsDirectory(S, vf) <=> IsDirectory(S, vt))

-----------------------------------------------------------------------------
(***************************************************************************)
(* The operations that change names.                                       *)
(***************************************************************************)
\* Mutant: a deleted name of a kept folder is unmasked before it is made again.
PrepareUnhides(s, v) ==
  LET s1 == RemoveWhiteout(s, v)
  IN  EnsureParent([s1 EXCEPT ![Home[v]].wh = @ \ {v}, ![Home[v]].deleted = @ \ {v}], Home[v], v)

\* Before a name is made: outside kept folders its whiteout goes first, inside
\* them the marker stays until the name is there (Settle).
Prepare(s, v) ==
  EnsureParent(IF Home[v] = Wl THEN RemoveWhiteout(s, v) ELSE s, Home[v], v)

Settle(s, v) == IF Home[v] = Wl THEN {s} ELSE UnhideLower(s, v)

\* The host has the new name.
Made(s, o, d, v) ==
  (\E s1 \in Settle(s, v) : Reply(s1, o, d, "ok")) \/ Killed(s, d)

\* EnsureWriteParent fails; a kept folder's EnsureHostParent is not looked at.
ParentFails(v) ==
  Home[v] = Wl /\ Stops("parent", RemoveWhiteout(S, v), data)

VfsCreate(v) ==
  /\ Negative(v)
  /\ LET s2 == Prepare(S, v)
         host == s2[Home[v]].tree[v]
     IN  \/ ParentFails(v)
         \/ Stops("open", s2, data)
         \/ /\ host = Absent
            /\ \E i \in FreeInodes :
                 Made(Put(s2, Home[v], v, i), open \cup {i}, [data EXCEPT ![i] = Empty], v)
         \/ /\ host \in Inodes    \* what Open does then depends on O_EXCL and O_TRUNC
            /\ \/ Reply(s2, open, data, EEXIST)
               \/ \E c \in {Empty, data[host]} :
                    Made(s2, open \cup {host}, [data EXCEPT ![host] = c], v)
         \/ host = Dir /\ Reply(s2, open, data, EISDIR)

\* The kept folder's own root, removed in this session, is shown again.
RootShownAgain(v) ==
  Home[v] # Wl /\ v = StoreRoot(Home[v]) /\ IsDeleted(S, Wl, v)

\* Mutant: a directory made again over a deleted one does not mask it.
OpaqueNever(s, v) == {Outcome(s, "ok")}

\* MarkOpaque, or KeptMarkOpaque, of the directory v just made in s.
Opaque(s, v) ==
  IF Home[v] = Wl THEN {Outcome(MarkOpaque(s, v, w), "ok") : w \in MarkerWritten}
  ELSE {Outcome(KeptMarkOpaque(s, Home[v], v), "ok")}
         \cup {Outcome(s, EIO) : e \in HostFaults \cap {"kept"}}

VfsMkdir(v) ==
  /\ Negative(v)
  /\ LET over == IsDeleted(S, Home[v], v)
         s2 == Prepare(S, v)
         s3 == Put(s2, Home[v], v, Dir)
         host == s2[Home[v]].tree[v]
     IN  IF RootShownAgain(v) THEN Reply(RemoveWhiteout(S, v), open, data, "ok")
         ELSE \/ ParentFails(v)
              \/ Stops("mkdir", s2, data)
              \/ host # Absent /\ Reply(s2, open, data, EEXIST)
              \/ host = Absent /\ Killed(s3, data)
              \/ /\ host = Absent
                 /\ \E r \in IF over THEN Opaque(s3, v) ELSE {Outcome(s3, "ok")} :
                      \/ r.code # "ok" /\ Reply(s2, open, data, r.code)
                      \/ r.code = "ok" /\ Made(r.s, open, data, v)

VfsSymlink(v) ==
  /\ Negative(v)
  /\ LET s2 == Prepare(S, v)
         host == s2[Home[v]].tree[v]
     IN  \/ ParentFails(v)
         \/ Stops("symlink", s2, data)
         \/ host # Absent /\ Reply(s2, open, data, EEXIST)
         \/ /\ host = Absent
            /\ \E i \in FreeInodes :
                 Made(Put(s2, Home[v], v, i), open, [data EXCEPT ![i] = LinkTarget], v)

\* What is left of a name that was removed or moved away is hidden.
HideRest(s, d, v) ==
  \/ ~Exists(s, v) /\ Reply(s, open, d, "ok")
  \/ Exists(s, v) /\ \E r \in HideLower(s, v) : Reply(r.s, open, d, r.code)
  \/ Killed(s, d)

VfsUnlink(v) ==
  /\ Positive(v) /\ ~IsDirectory(S, v)
  /\ \/ Stops("unlink", S, data)
     \/ HideRest(Put(S, Home[v], v, Absent), data, v)

Inside(set, v) == {w \in set : w # Root /\ ParentVRel(w) = v}

\* Mutant: the sweep leaves the masks in memory.
SweepDiskOnly(s, v) == [s EXCEPT ![Wl].wh = @ \ Inside(@, v), ![Wl].opq = @ \ {v}]

\* VfsRmdir's sweep of the markers inside v, which it finds on disk, and of
\* their masks.
Sweep(s, v) ==
  LET wh == IF s[Wl].tree[v] = Dir THEN Inside(s[Wl].wh, v) ELSE {}
      opq == IF s[Wl].tree[v] = Dir THEN {v} \cap s[Wl].opq ELSE {}
  IN  [s EXCEPT ![Wl].wh = @ \ wh, ![Wl].deleted = @ \ wh,
                ![Wl].opq = @ \ opq, ![Wl].opaque = @ \ opq]

\* The same in the kept folder k, where the masks are looked up by name.
KeptDropMarkersUnder(s, k, v) ==
  LET found == s[k].tree[v] = Dir
  IN  [s EXCEPT ![k].wh = IF found THEN @ \ Inside(@, v) ELSE @, ![k].deleted = @ \ Inside(@, v),
                ![k].opq = IF found THEN @ \ {v} ELSE @, ![k].opaque = @ \ {v}]

\* HostIO::Rmdir, which leaves a directory that is not empty.
HostRmdir(s, h, v) == IF HostBusy(s, h, v) THEN s ELSE Put(s, h, v, Absent)

VfsRmdir(v) ==
  /\ Positive(v) /\ IsDirectory(S, v)
  /\ \/ CollectChildren(S, v) # {} /\ Reply(S, open, data, ENOTEMPTY)
     \/ /\ CollectChildren(S, v) = {}
        /\ LET h == Home[v]
               s1 == IF h = Wl THEN Sweep(S, v) ELSE KeptDropMarkersUnder(S, h, v)
               s2 == HostRmdir(s1, h, v)
           IN  \/ Killed(s1, data)
               \/ /\ h # Wl /\ v = StoreRoot(h)   \* a mount point: emptied for good
                  /\ \E r \in Opaque(s1, v) :
                       \/ r.code # "ok" /\ Reply(s1, open, data, r.code)
                       \/ /\ r.code = "ok"
                          /\ \/ Killed(r.s, data)
                             \/ \E w \in MarkerWritten :
                                  Reply(CreateWhiteout(r.s, v, w), open, data, "ok")
               \/ h = Wl /\ HideRest(s2, data, v)
               \/ /\ h # Wl /\ v # StoreRoot(h)
                  /\ IF HostBusy(s1, h, v) THEN Reply(s1, open, data, ENOTEMPTY)
                     ELSE HideRest(s2, data, v)

\* VfsRename once the source is writable, in the store hf: s and d are the state
\* after its copy-up.  Renaming a name onto a hard link of the same inode does nothing
\* on the host.
FinishRename(s, d, hf, vf, vt) ==
  LET isDir == IsDirectory(S, vf)
      ht == Home[vt]
      over == ht # Wl /\ IsDeleted(s, ht, vt)
      s1 == Prepare(s, vt)
      from == s1[hf].tree[vf]
      onto == s1[ht].tree[vt]
      s2 == IF from = onto /\ ~isDir THEN s1 ELSE HostRename(s1, hf, vf, ht, vt)
      s3 == IF isDir THEN KeptRenamePrefix(s2, vf, vt) ELSE s2
      clash == onto # Absent /\ (isDir # (onto = Dir))
      busy == isDir /\ HostBusy(s1, ht, vt)
  IN  \/ Home[vt] = Wl /\ Stops("parent", s, d)
      \/ Stops("rename", s1, d)
      \/ from = Absent /\ Reply(s1, open, d, ENOENT)
      \/ hf # ht /\ "xdev" \in HostFaults /\ Reply(s1, open, d, EXDEV)
      \/ from # Absent /\ clash /\ Reply(s1, open, d, IF isDir THEN ENOTDIR ELSE EISDIR)
      \/ from # Absent /\ ~clash /\ busy /\ Reply(s1, open, d, ENOTEMPTY)
      \/ /\ from # Absent /\ ~clash /\ ~busy
         /\ Fits(s1, hf, vf, vt)
         /\ \/ Killed(s2, d)
            \/ \E r \in IF isDir /\ over THEN Opaque(s3, vt) ELSE {Outcome(s3, "ok")} :
                 \/ r.code # "ok" /\ Reply(r.s, open, d, r.code)
                 \/ /\ r.code = "ok"
                    /\ \/ Killed(r.s, d)
                       \/ \E s4 \in Settle(r.s, vt) :
                            HideRest(IF isDir THEN RenameMaskPrefix(s4, vf, vt) ELSE s4, d, vf)

VfsRename(vf, vt) ==
  /\ MayRename(vf, vt)
  /\ LET visits == IF IsDirectory(S, vf) THEN DeepWalk(S, vf) ELSE {vf}
         broken == {p \in visits : ~Exists(S, p)}
         packed == {p \in visits : Unreadable(S, p)}
         failing == IF HostFaults \cap {"copy", "kill"} = {} THEN {} ELSE NewFiles(S, visits)
     IN  \/ /\ broken = {}
            /\ \E up \in CopiedUp(visits, vf) : FinishRename(up.s, up.d, up.at, vf, vt)
         \/ /\ IsDirectory(S, vf)
            /\ \E stop \in broken \cup packed \cup failing : \E P \in PartialWalks(S, vf, stop) :
               \E up \in CopiedUp(P, vf) :
                 \/ stop \in broken /\ Reply(up.s, open, up.d, ENOENT)
                 \/ stop \in packed /\ Reply(up.s, open, up.d, EIO)
                 \/ stop \in failing /\ Stops("copy", up.s, up.d)
         \/ CopyUpFails(vf)

VfsLink(vf, vt) ==
  /\ Positive(vf) /\ ~IsDirectory(S, vf) /\ Negative(vt)
  /\ \/ CopyUpFails(vf)
     \/ \E up \in CopiedUp({vf}, vf) :
          LET ht == Home[vt]
              s2 == EnsureParent(up.s, ht, vt)
              from == up.s[up.at].tree[vf]
              onto == up.s[ht].tree[vt]
              s3 == Put(s2, ht, vt, from)
          IN  \/ ht = Wl /\ Stops("parent", up.s, up.d)
              \/ Stops("link", s2, up.d)
              \/ from = Absent /\ Reply(s2, open, up.d, ENOENT)
              \/ up.at # ht /\ "xdev" \in HostFaults /\ Reply(s2, open, up.d, EXDEV)
              \/ onto # Absent /\ Reply(s2, open, up.d, EEXIST)
              \/ /\ from # Absent /\ onto = Absent
                 /\ \/ Killed(s3, up.d)
                    \/ \E s4 \in UnhideLower(s3, vt) : Reply(s4, open, up.d, "ok")

-----------------------------------------------------------------------------
(***************************************************************************)
(* The operations on data, and the session.                                *)
(***************************************************************************)
\* VfsOpen with write intent (a read-only open changes nothing), with O_TRUNC or not.
VfsOpen(v, trunc) ==
  /\ Regular(v)
  /\ \/ CopyUpFails(v)
     \/ \E up \in CopiedUp({v}, v) :
          LET i == up.s[up.at].tree[v]
          IN  \/ Stops("open", up.s, up.d)
              \/ i = Absent /\ Reply(up.s, open, up.d, ENOENT)
              \/ /\ i \in Inodes
                 /\ Reply(up.s, open \cup {i},
                          IF trunc THEN [up.d EXCEPT ![i] = Empty] ELSE up.d, "ok")

VfsWrite(i, c) ==
  /\ i \in open
  /\ Reply(S, open, [data EXCEPT ![i] = c], "ok")

VfsRelease(i) ==
  /\ i \in open
  /\ Reply(S, open \ {i}, data, "ok")

\* VfsTruncate of a path without a handle.
VfsTruncate(v) ==
  /\ Regular(v)
  /\ \/ CopyUpFails(v)
     \/ \E up \in CopiedUp({v}, v) :
          LET i == up.s[up.at].tree[v]
          IN  \/ i = Absent /\ Reply(up.s, open, up.d, ENOENT)
              \/ i \in Inodes /\ Reply(up.s, open, [up.d EXCEPT ![i] = Empty], "ok")

\* VfsChmod: permissions are not modelled, the copy-up it makes is.
VfsChmod(v) ==
  /\ Regular(v) \/ (Positive(v) /\ IsDirectory(S, v))
  /\ \/ CopyUpFails(v)
     \/ \E up \in CopiedUp({v}, v) :
          Reply(up.s, open, up.d, IF up.s[up.at].tree[v] = Absent THEN ENOENT ELSE "ok")

\* The session ends and the persisted writelayer is mounted again.
Remount == Reply(SeedMasks(S), {}, data, "ok")

\* A new session over the same kept folders, with a fresh writelayer.
Relaunch ==
  /\ "relaunch" \in HostFaults
  /\ Reply(SeedMasks([S EXCEPT ![Wl] = EmptyStore(Wl)]), {}, data, "relaunched")

-----------------------------------------------------------------------------
\* A first mount over an empty writelayer and empty kept folders.
Init ==
  /\ S = [h \in Stores |-> EmptyStore(h)]
  /\ data = [i \in Inodes |-> Empty]
  /\ open = {}
  /\ rc = "ok"

NameStep ==
  \E v \in Paths :
    VfsCreate(v) \/ VfsMkdir(v) \/ VfsSymlink(v) \/ VfsUnlink(v) \/ VfsRmdir(v)

DataStep ==
  \/ \E v \in Paths : (\E trunc \in BOOLEAN : VfsOpen(v, trunc)) \/ VfsTruncate(v) \/ VfsChmod(v)
  \/ \E i \in Inodes : VfsRelease(i) \/ \E c \in Payloads : VfsWrite(i, c)

RenameStep == \E vf, vt \in Paths : VfsRename(vf, vt)

LinkStep == \E vf, vt \in Paths : VfsLink(vf, vt)

SessionStep == Remount \/ Relaunch

Next == NameStep \/ DataStep \/ RenameStep \/ LinkStep \/ SessionStep

Spec == Init /\ [][Next]_vars

\* No lower layer has anything below v, and no kept folder is mounted there.
LowerFree(v) ==
  \A p \in Paths : Within(p, v) /\ p # v =>
    Hits[p] = {} /\ p \notin ImplicitDirs /\ \A k \in Kept : p # KeptRoot[k]

\* The renames that are not among the cases where the merged view is known to
\* go wrong: a directory onto a name that the lower layers have contents below
\* (unless it was deleted in a kept folder), a directory across the border of
\* a kept folder, a kept folder itself or what it is mounted in, a directory
\* under a stale marker of its name, and a file onto a hard link of itself.
TameRename(vf, vt) ==
  /\ VfsRename(vf, vt)
  /\ IF IsDirectory(S, vf)
     THEN /\ WriteStore(vf) = Home[vt] /\ Home[vf] = Home[vt]
          /\ (\A k \in Kept : ~Within(KeptRoot[k], vf)) /\ ~IsDeleted(S, Home[vf], vf)
          /\ LowerFree(vt) \/ (Home[vt] # Wl /\ IsDeleted(S, Home[vt], vt))
     ELSE LET host == S[WriteStore(vf)].tree[vf]
          IN  host = Absent \/ host # S[Home[vt]].tree[vt]

TameNext ==
  NameStep \/ DataStep \/ (\E vf, vt \in Paths : TameRename(vf, vt)) \/ LinkStep \/ SessionStep

TameSpec == Init /\ [][TameNext]_vars

-----------------------------------------------------------------------------
(***************************************************************************)
(* Properties.                                                             *)
(***************************************************************************)
\* The state is well typed: in particular no mask in memory is left naming a
\* path that cannot be, as a wrongly cut prefix in RenameMaskPrefix would, and
\* no host file was made of an archive's entry that cannot be read.
TypeOK ==
  /\ S \in VfsState
  /\ data \in [Inodes -> Contents]
  /\ open \subseteq Inodes
  /\ rc \in Codes

\* Every store on the host is a tree whose markers lie in directories: no
\* operation (a directory move above all), and no kill in the middle of one,
\* leaves an entry or a marker where no directory holds it.
HostTreeOK ==
  \A h \in Stores :
    /\ S[h].tree[StoreRoot(h)] = Dir
    /\ \A v \in Paths \ {StoreRoot(h)} :
         S[h].tree[v] # Absent \/ v \in S[h].wh =>
           Holds(h, v) /\ S[h].tree[ParentVRel(v)] = Dir
    /\ \A v \in S[h].opq : S[h].tree[v] = Dir

\* The masks in memory are exactly the markers on disk, as the next mount
\* would seed them (overlay.h: every runtime mutation updates both): so
\* nothing deleted comes back, and nothing vanishes, by a remount.
MasksMirrorMarkers == S = SeedMasks(S)

\* Every marker on disk has its mask in memory, whatever host call fails: a
\* marker that cannot be written leaves a name hidden for the session at least
\* (CreateWhiteout ignores the error), and no marker waits on disk to hide at
\* the next mount a name that is there now.
MarkersAreMasked ==
  \A h \in Stores :
    /\ SeedMasks(S)[h].deleted \subseteq S[h].deleted
    /\ SeedMasks(S)[h].opaque \subseteq S[h].opaque

\* A whiteouted name has nothing in the writelayer at or below it: "deleted"
\* hides lower copies only (VfsUnlink, VfsRmdir and VfsRename remove or move
\* the writelayer's own copy first).
WhiteoutHasNoCopy ==
  \A v \in S[Wl].deleted : \A p \in Paths : Within(p, v) => S[Wl].tree[p] = Absent

\* VfsReaddir lists what VfsGetattr serves, although one reads the disk's
\* markers and the other the masks in memory: every child that is served is
\* listed, and every child that is listed is served, except below a directory
\* whose mask hides the layers, or in one whose own marker was left behind (the
\* listing looks for the mask of the directory alone: see ListingServed).
ListingExact ==
  \A v \in Paths : Reachable(S, v) /\ IsDirectory(S, v) =>
    LET listed == CollectChildren(S, v)
        served == {c \in Children(v) : Exists(S, c)}
        masked == \E h \in Stores : IsDeleted(S, h, v) \/ IsUnderMask(S, h, v)
    IN  served \subseteq listed /\ (masked \/ listed \subseteq served)

\* VfsReaddir lists nothing in excess: every listed name resolves (the test
\* vgfs_tests.cpp:93 "every name readdir lists must getattr-resolve").
ListingServed ==
  \A v \in Paths : Reachable(S, v) /\ IsDirectory(S, v) =>
    CollectChildren(S, v) \subseteq {c \in Children(v) : Exists(S, c)}

\* An operation that returns an error takes nothing away: what a program saw
\* before, it sees after, with the same content.  In particular a copy-up
\* that fails half way leaves no partial file over the lower one.
FailureLosesNothing ==
  [][rc' = "error" =>
       \A v \in Paths : View[v] # Absent => View'[v] = View[v]]_vars

\* An operation that returns an error changes nothing that a program sees
\* (vfsops.cpp:546 and the test vgfs_tests.cpp:1165: a failed create or link
\* must not bring a deleted lower file back).
FailureChangesNothing == [][rc' # "ok" => View' = View]_vars

\* Nothing deleted resurfaces: a name that appears is an entry of the
\* writelayer, made or moved there by a program, never a lower layer's entry
\* that was hidden until now (vfsops.cpp:428 "a dir moved onto a deleted one
\* must not show its old contents").
NothingResurfaces ==
  [][\A v \in Paths : View[v] = Absent /\ View'[v] # Absent => S'[Wl].tree[v] # Absent]_vars

\* Two names of one host file.
SameFile(v, w) == \E g, h \in Stores : S[g].tree[v] = S[h].tree[w] /\ S[g].tree[v] \in Inodes

\* The step is an operation on p.
OperationOn(p) ==
  \/ VfsCreate(p) \/ VfsMkdir(p) \/ VfsSymlink(p) \/ VfsUnlink(p) \/ VfsRmdir(p)
  \/ (\E trunc \in BOOLEAN : VfsOpen(p, trunc)) \/ VfsTruncate(p) \/ VfsChmod(p)
  \/ \E vf, vt \in Paths : p \in {vf, vt} /\ (VfsRename(vf, vt) \/ VfsLink(vf, vt))

\* A kill touches only what the operation in flight was working on: everything
\* that earlier operations did is there after the next mount, and what they
\* deleted stays deleted, unless a marker could not be written.
KillIsLocal ==
  [][rc' = "killed" /\ Recorded(S) =>
       \A v \in Paths :
         View'[v] # View[v] =>
           \E p \in Paths : (Within(v, p) \/ SameFile(v, p)) /\ OperationOn(p)]_vars

\* In a kept folder nothing deleted resurfaces by whatever fails or is killed
\* on the way: the marker of a name goes only once the name is there, and a
\* directory made again, or moved there, is opaque before (vfsops.cpp:281,
\* 316-321, 434-438).  Left out is what was deleted below a path that is being removed or
\* renamed when the operation fails or is killed: its markers go, or move away,
\* before the path's own is written (vfsops.cpp:341, 369, 432-445).
KeptStaysHidden ==
  [][S' # S => \A k \in Kept : \A v \in Paths :
       /\ Holds(k, v) /\ v # StoreRoot(k)
       /\ View[v] = Absent /\ View'[v] # Absent
       => \/ S'[k].tree[v] # Absent
          \/ rc' # "ok" /\ \E p \in Above[k][v] : OperationOn(p)]_vars

\* A kept folder is durable: a new session with a fresh writelayer sees below
\* it what the last one saw (overlay.h: "must stay deleted on the next launch";
\* overlay.cpp: a copy-up there goes "INTO the passthrough source").
KeptIsDurable ==
  [][rc' = "relaunched" =>
       \A k \in Kept : \A v \in Paths :
         Holds(k, v) /\ v # StoreRoot(k) => View'[v] = View[v]]_vars

\* Whatever host call fails: a deletion that returns success has deleted
\* (overlay.h: "a deletion that can't be recorded must fail, never report
\* success while the file stays visible").
DeletionsAreTrue ==
  [][\A v \in Paths : rc' = "ok" /\ (VfsUnlink(v) \/ VfsRmdir(v)) => View'[v] = Absent]_vars

\* The merged view is one ordinary tree: every operation is, as programs see
\* it, the POSIX operation on it or no change at all, and copy-ups, markers
\* and remounts are invisible.
Plain == INSTANCE PlainTree WITH tree <- View, Contents <- Contents \cup {Packed}

ImplementsPlainTree == Plain!Spec

\* An operation that returns success has done the POSIX operation or changed
\* nothing, whatever else failed on the way or was killed before.
SuccessIsPlain ==
  [][rc' = "ok" => UNCHANGED <<S, data>> \/ UNCHANGED View \/ Plain!Next]_vars

=============================================================================
