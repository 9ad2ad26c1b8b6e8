---------------------------- MODULE OverlayProofs ----------------------------
(***************************************************************************)
(* The overlay keeps the host's trees sound and its masks the mirror of    *)
(* the markers, for any tree of paths, any layers, any number of host      *)
(* inodes and any host faults.  One lemma per operation.                   *)
(***************************************************************************)
EXTENDS OverlayLemmas

\* The inductive invariant: TypeOK, HostTreeOK and the two that they need.
Inv ==
  /\ Good(S) /\ Masked(S)
  /\ data \in [Inodes -> Contents] /\ open \subseteq Inodes /\ rc \in Codes

(***************************************************************************)
(* The end of an operation.                                                *)
(***************************************************************************)
\* A state of the stores that a handler may return with; bare is what it keeps.
Sound(bare, s) == Good(s) /\ Masked(s) /\ (bare => Bare(s))

\* The inodes that nothing names any more are given back.
LEMMA ReclaimTyped ==
  ASSUME NEW s, NEW o, NEW d \in [Inodes -> Contents]
  PROVE  Reclaim(s, o, d) \in [Inodes -> Contents]
<1> QED BY Distinct DEF Reclaim

\* A handler that returns with a sound state keeps the invariant.
LEMMA ReplySound ==
  ASSUME NEW bare, NEW s, Sound(bare, s), NEW o \in SUBSET Inodes, NEW d \in [Inodes -> Contents],
         NEW code \in Codes, Reply(s, o, d, code)
  PROVE  Inv' /\ (bare => Bare(S)')
<1>1. S' = s /\ open' = o /\ data' = Reclaim(s, o, d) /\ rc' = code
  BY DEF Reply
<1>2. data' \in [Inodes -> Contents]
  BY <1>1, ReclaimTyped
<1> QED BY <1>1, <1>2 DEF Inv, Sound

\* So does a kill, whose next mount seeds the masks again.
LEMMA KilledSound ==
  ASSUME NEW bare, NEW s, Good(s), bare => Bare(s), NEW d \in [Inodes -> Contents], Killed(s, d)
  PROVE  Inv' /\ (bare => Bare(S)')
<1>1. S' = SeedMasks(s) /\ open' = {} /\ data' = Reclaim(s, {}, d) /\ rc' \in Codes
  BY DEF Killed, Codes
<1>2. data' \in [Inodes -> Contents]
  BY <1>1, ReclaimTyped
<1>3. Good(SeedMasks(s)) /\ Masked(SeedMasks(s)) /\ (bare => Bare(SeedMasks(s)))
  BY SeedMasksIs
<1> QED BY <1>1, <1>2, <1>3 DEF Inv

\* A host call that fails, or before which the server is killed.
LEMMA StopsSound ==
  ASSUME NEW bare, NEW s, Sound(bare, s), Inv, NEW d \in [Inodes -> Contents],
         NEW call, Stops(call, s, d)
  PROVE  Inv' /\ (bare => Bare(S)')
<1>1. open \in SUBSET Inodes /\ EIO \in Codes
  BY DEF Inv, EIO, Codes
<1>2. CASE Reply(s, open, d, EIO)
  BY <1>1, <1>2, ReplySound
<1>3. CASE Killed(s, d)
  BY <1>3, KilledSound DEF Sound
<1> QED BY <1>2, <1>3 DEF Stops

\* The new name is there: its marker goes.
LEMMA MadeSound ==
  ASSUME KeptOnTop, NEW bare, NEW s, Sound(bare, s), NEW v \in Paths, NEW o \in SUBSET Inodes,
         NEW d \in [Inodes -> Contents], Made(s, o, d, v)
  PROVE  Inv' /\ (bare => Bare(S)')
<1>1. "ok" \in Codes
  BY DEF Codes
<1>2. ASSUME NEW s1 \in Settle(s, v), Reply(s1, o, d, "ok")
      PROVE  Inv' /\ (bare => Bare(S)')
  <2>1. Sound(bare, s1)
    BY SettleGood DEF Sound
  <2> QED BY <1>1, <1>2, <2>1, ReplySound
<1>3. CASE Killed(s, d)
  BY <1>3, KilledSound DEF Sound
<1> QED BY <1>2, <1>3 DEF Made

\* The old name is gone: what is left of it below is hidden.
LEMMA HideRestSound ==
  ASSUME KeptOnTop, Inv, NEW bare, NEW s, Sound(bare, s), NEW v \in Paths, v # Root,
         Clear(s, HidesIn(v), v),
         bare => Unhidden(s, v) /\ \A p \in Paths : Within(p, v) => s[Wl].tree[p] = Absent,
         NEW d \in [Inodes -> Contents], HideRest(s, d, v)
  PROVE  Inv' /\ (bare => Bare(S)')
<1>1. open \in SUBSET Inodes /\ "ok" \in Codes
  BY DEF Inv, Codes
<1>2. CASE Reply(s, open, d, "ok")
  BY <1>1, <1>2, ReplySound
<1>3. ASSUME NEW r \in HideLower(s, v), Reply(r.s, open, d, r.code)
      PROVE  Inv' /\ (bare => Bare(S)')
  <2>1. Sound(bare, r.s) /\ r.code \in Codes
    BY HideLowerGood DEF Sound
  <2> QED BY <1>1, <1>3, <2>1, ReplySound
<1>4. CASE Killed(s, d)
  BY <1>4, KilledSound DEF Sound
<1> QED BY <1>2, <1>3, <1>4 DEF HideRest

(***************************************************************************)
(* Copy-up.                                                                *)
(***************************************************************************)
\* The inodes that may be taken are inodes.
LEMMA FreeInodesAre == FreeInodes \subseteq Inodes
<1> QED BY DEF FreeInodes

\* What a copy-up leaves: a sound state, files where files were and
\* directories where directories were, and every mask as it was.
AfterCopyUp(up, v) ==
  /\ Sound(Bare(S), up.s) /\ up.d \in [Inodes -> Contents] /\ up.at = Home[v]
  /\ \A w \in Paths : Unhidden(S, w) => Unhidden(up.s, w)
  /\ \A w \in Paths : Reachable(S, w) => \A h : Belongs(h, w) => Clear(up.s, h, w)
  /\ \A w \in Paths : /\ IsDirectory(S, w) => up.s[Home[w]].tree[w] \in {Dir, Absent}
                      /\ Exists(S, w) /\ ~IsDirectory(S, w) => up.s[Home[w]].tree[w] # Dir
  /\ \A h \in Stores : /\ up.s[h].wh = S[h].wh /\ up.s[h].opq = S[h].opq
                       /\ up.s[h].deleted = S[h].deleted /\ up.s[h].opaque = S[h].opaque

\* So does every copy-up of paths that the kernel can reach.
LEMMA CopiedUpSound ==
  ASSUME KeptOnTop, Inv, NEW P, P \subseteq Paths, \A p \in P : Reachable(S, p),
         NEW v \in Paths, NEW up \in CopiedUp(P, v)
  PROVE  AfterCopyUp(up, v)
<1>1. Good(S) /\ Masked(S) /\ data \in [Inodes -> Contents]
  BY DEF Inv
<1>2. PICK ino \in Allocations(NewFiles(S, P)) :
        /\ ~\E p \in DOMAIN ino : Unreadable(S, p)
        /\ up = [s |-> CopyUp(S, P, ino), d |-> CopyData(S, data, ino), at |-> WriteStore(v)]
  BY DEF CopiedUp
<1>3. ino \in [NewFiles(S, P) -> Inodes]
  BY FreeInodesAre DEF Allocations
<1>4. up.at = Home[v]
  BY <1>1, <1>2, LookupIs DEF WriteStore
<1>5. ASSUME NEW p \in DOMAIN ino PROVE Resolve(S, p).entry \in Contents
  <2>1. p \in NewFiles(S, P) /\ ~Unreadable(S, p)
    BY <1>2, <1>3
  <2>2. p \in Paths /\ Resolve(S, p).kind = "Lower" /\ Resolve(S, p).entry # Dir
        /\ Resolve(S, p).entry # Packed
    BY <2>1 DEF NewFiles, LowerFile, Unreadable
  <2> QED BY <1>1, <2>2, LookupIs
<1>6. CopyData(S, data, ino) \in [Inodes -> Contents]
  <2>1. ASSUME NEW i \in Inodes, \E p \in DOMAIN ino : ino[p] = i
        PROVE  Resolve(S, CHOOSE p \in DOMAIN ino : ino[p] = i).entry \in Contents
    <3> DEFINE q == CHOOSE p \in DOMAIN ino : ino[p] = i
    <3>1. q \in DOMAIN ino
      BY <2>1
    <3> HIDE DEF q
    <3>2. Resolve(S, q).entry \in Contents
      BY <1>5, <3>1
    <3> QED BY <3>2 DEF q
  <2> QED BY <1>1, <2>1 DEF CopyData
<1>7. up.s = CopyUp(S, P, ino) /\ up.d = CopyData(S, data, ino)
  BY <1>2
<1>8. Sound(Bare(S), up.s)
  BY <1>1, <1>3, <1>7, CopyUpGood DEF Sound
<1>9. /\ \A w \in Paths : Unhidden(S, w) => Unhidden(up.s, w)
      /\ \A w \in Paths : Reachable(S, w) => \A h : Belongs(h, w) => Clear(up.s, h, w)
      /\ \A w \in Paths : /\ IsDirectory(S, w) => up.s[Home[w]].tree[w] \in {Dir, Absent}
                          /\ Exists(S, w) /\ ~IsDirectory(S, w) => up.s[Home[w]].tree[w] # Dir
  BY <1>1, <1>3, <1>7, CopyUpGood
<1>10. \A h \in Stores : /\ up.s[h].wh = S[h].wh /\ up.s[h].opq = S[h].opq
                         /\ up.s[h].deleted = S[h].deleted /\ up.s[h].opaque = S[h].opaque
  BY <1>1, <1>3, <1>7, CopyUpIs
<1> QED BY <1>4, <1>6, <1>7, <1>8, <1>9, <1>10 DEF AfterCopyUp

\* A name is made in the store that it is written to.
LEMMA PutAtHome ==
  ASSUME KeptOnTop, NEW bare, NEW s, Sound(bare, s), NEW v \in Paths, v # StoreRoot(Home[v]),
         s[Home[v]].tree[ParentVRel(v)] = Dir, NEW entry \in Inodes \cup {Dir},
         entry # Dir => s[Home[v]].tree[v] # Dir,
         bare => Unhidden(s, v) /\ (Home[v] = Wl => v \notin s[Wl].wh)
  PROVE  /\ Sound(bare, Put(s, Home[v], v, entry)) /\ Put(s, Home[v], v, entry)[Home[v]].tree[v] = entry
         /\ \A w : Unhidden(s, w) => Unhidden(Put(s, Home[v], v, entry), w)
<1>1. Home[v] \in Stores /\ Holds(Home[v], v)
  BY HomeBelongs DEF Belongs
<1>2. Home[v] = Wl => \A k \in Kept : ~Within(v, KeptRoot[k])
  BY HomeIs, StoresAre
<1>3. s[Home[v]].tree[ParentVRel(v)] = Dir /\ Good(s)
  BY DEF Sound
<1> QED BY <1>1, <1>2, <1>3, PutGood DEF Sound

\* What the kernel's lookup of v says of the stores when v is there.
LEMMA PositiveIs ==
  ASSUME KeptOnTop, Inv, NEW v \in Paths, v # Root, Reachable(S, v), Exists(S, v)
  PROVE  /\ Clear(S, Home[v], v) /\ Clear(S, HidesIn(v), v) /\ Unhidden(S, v)
         /\ v \notin S[Wl].wh /\ v \notin S[Wl].deleted
         /\ \A h : Belongs(h, v) => Clear(S, h, v)
         /\ v \in NewFiles(S, {v}) => S[Home[v]].tree[v] = Absent /\ v # StoreRoot(Home[v])
<1>1. Good(S) /\ Masked(S) /\ HostTree(S)
  BY DEF Inv, Good
<1>2. \A h : Belongs(h, v) => Clear(S, h, v)
  BY <1>1, ReachableClear
<1>3. Unhidden(S, v)
  BY <1>1, ReachableClear
<1>4. Clear(S, Home[v], v) /\ Clear(S, HidesIn(v), v)
  BY <1>2, HomeBelongs, HidesInBelongs
<1>5. ~IsDeleted(S, Wl, v)
  BY <1>1, DirectoryIs
<1>6. v \notin S[Wl].wh /\ v \notin S[Wl].deleted
  BY <1>1, <1>5, StoresAre DEF IsDeleted, Masked
<1>7. v \in NewFiles(S, {v}) => S[Home[v]].tree[v] = Absent /\ v # StoreRoot(Home[v])
  <2>1. Home[v] \in Stores
    BY HomeBelongs
  <2> QED BY <1>1, <2>1, Distinct DEF NewFiles, HostTree
<1> QED BY <1>2, <1>3, <1>4, <1>6, <1>7

\* A copy-up that fails leaves directories, and a file cut short when killed.
LEMMA CopyUpFailsSound ==
  ASSUME KeptOnTop, Inv, NEW v \in Paths, v # Root, Reachable(S, v), Exists(S, v), CopyUpFails(v)
  PROVE  Inv' /\ (Bare(S) => Bare(S)')
<1> DEFINE h == Home[v]
           s1 == EnsureParent(S, h, v)
<1>1. /\ Good(S) /\ Masked(S) /\ open \in SUBSET Inodes /\ EIO \in Codes
      /\ data \in [Inodes -> Contents]
  BY DEF Inv, EIO, Codes
<1>2. Belongs(h, v) /\ h \in Stores
  BY HomeBelongs
<1>3. /\ Clear(S, h, v) /\ Unhidden(S, v) /\ v \notin S[Wl].wh
      /\ S[h].tree[v] = Absent /\ v # StoreRoot(h)
  BY PositiveIs DEF CopyUpFails
<1>4. /\ Good(s1) /\ Masked(s1) /\ s1[h].tree[ParentVRel(v)] = Dir
      /\ s1[h].tree[v] = S[h].tree[v]
  BY <1>1, <1>2, <1>3, EnsureParentGood
<1>5. Bare(S) => Bare(s1) /\ Unhidden(s1, v)
  BY <1>1, <1>2, <1>3, EnsureParentBare
<1>6. s1[Wl].wh = S[Wl].wh
  BY <1>1, <1>2, StoresAre, EnsureParentIs DEF Good
<1>7. Sound(Bare(S), s1)
  BY <1>4, <1>5 DEF Sound
<1> HIDE DEF s1
<1>8. CASE Stops("copy", s1, data)
  BY <1>1, <1>7, <1>8, StopsSound
<1>9. CASE Reply(s1, open, data, EIO)
  BY <1>1, <1>7, <1>9, ReplySound
<1>10. ASSUME NEW i \in FreeInodes, Killed(Put(s1, h, v, i), [data EXCEPT ![i] = Empty])
       PROVE  Inv' /\ (Bare(S) => Bare(S)')
  <2>1. i \in Inodes /\ [data EXCEPT ![i] = Empty] \in [Inodes -> Contents]
    BY <1>1, FreeInodesAre, Distinct
  <2>2. Sound(Bare(S), Put(s1, h, v, i))
    BY <1>3, <1>4, <1>5, <1>6, <1>7, <2>1, PutAtHome, Distinct
  <2> QED BY <1>10, <2>1, <2>2, KilledSound DEF Sound
<1> QED BY <1>8, <1>9, <1>10 DEF CopyUpFails, s1

(***************************************************************************)
(* The operations on data, and the session.                                *)
(***************************************************************************)
\* What VfsOpen, VfsTruncate and VfsChmod work on is there to be copied up.
LEMMA RegularIs ==
  ASSUME NEW v \in Paths, Regular(v) \/ Positive(v)
  PROVE  v # Root /\ Reachable(S, v) /\ Exists(S, v) /\ {v} \subseteq Paths /\ \A p \in {v} : Reachable(S, p)
<1> QED BY DEF Regular, Positive

\* VfsOpen with write intent.
LEMMA OpenSound ==
  ASSUME KeptOnTop, Inv, NEW v \in Paths, NEW trunc \in BOOLEAN, VfsOpen(v, trunc)
  PROVE  Inv' /\ (Bare(S) => Bare(S)')
<1>1. v # Root /\ Reachable(S, v) /\ Exists(S, v) /\ {v} \subseteq Paths /\ \A p \in {v} : Reachable(S, p)
  BY RegularIs DEF VfsOpen
<1>2. open \in SUBSET Inodes /\ ENOENT \in Codes /\ "ok" \in Codes
  BY DEF Inv, ENOENT, Codes
<1>3. CASE CopyUpFails(v)
  BY <1>1, <1>3, CopyUpFailsSound
<1>4. ASSUME NEW up \in CopiedUp({v}, v), NEW i,
             \/ Stops("open", up.s, up.d)
             \/ i = Absent /\ Reply(up.s, open, up.d, ENOENT)
             \/ i \in Inodes /\ Reply(up.s, open \cup {i},
                                      IF trunc THEN [up.d EXCEPT ![i] = Empty] ELSE up.d, "ok")
      PROVE  Inv' /\ (Bare(S) => Bare(S)')
  <2>1. Sound(Bare(S), up.s) /\ up.d \in [Inodes -> Contents]
    BY <1>1, CopiedUpSound DEF AfterCopyUp
  <2>2. CASE Stops("open", up.s, up.d)
    BY <2>1, <2>2, StopsSound
  <2>3. CASE Reply(up.s, open, up.d, ENOENT)
    BY <1>2, <2>1, <2>3, ReplySound
  <2>4. ASSUME i \in Inodes, Reply(up.s, open \cup {i},
                                   IF trunc THEN [up.d EXCEPT ![i] = Empty] ELSE up.d, "ok")
        PROVE  Inv' /\ (Bare(S) => Bare(S)')
    <3>1. open \cup {i} \in SUBSET Inodes
      BY <1>2, <2>4
    <3>2. (IF trunc THEN [up.d EXCEPT ![i] = Empty] ELSE up.d) \in [Inodes -> Contents]
      BY <2>1, <2>4, Distinct
    <3> QED BY <1>2, <2>1, <2>4, <3>1, <3>2, ReplySound
  <2> QED BY <1>4, <2>2, <2>3, <2>4
<1> QED BY <1>3, <1>4 DEF VfsOpen

\* VfsTruncate.
LEMMA TruncateSound ==
  ASSUME KeptOnTop, Inv, NEW v \in Paths, VfsTruncate(v)
  PROVE  Inv' /\ (Bare(S) => Bare(S)')
<1>1. v # Root /\ Reachable(S, v) /\ Exists(S, v) /\ {v} \subseteq Paths /\ \A p \in {v} : Reachable(S, p)
  BY RegularIs DEF VfsTruncate
<1>2. open \in SUBSET Inodes /\ ENOENT \in Codes /\ "ok" \in Codes
  BY DEF Inv, ENOENT, Codes
<1>3. CASE CopyUpFails(v)
  BY <1>1, <1>3, CopyUpFailsSound
<1>4. ASSUME NEW up \in CopiedUp({v}, v), NEW i,
             \/ i = Absent /\ Reply(up.s, open, up.d, ENOENT)
             \/ i \in Inodes /\ Reply(up.s, open, [up.d EXCEPT ![i] = Empty], "ok")
      PROVE  Inv' /\ (Bare(S) => Bare(S)')
  <2>1. Sound(Bare(S), up.s) /\ up.d \in [Inodes -> Contents]
    BY <1>1, CopiedUpSound DEF AfterCopyUp
  <2>2. i \in Inodes => [up.d EXCEPT ![i] = Empty] \in [Inodes -> Contents]
    BY <2>1, Distinct
  <2> QED BY <1>2, <1>4, <2>1, <2>2, ReplySound
<1> QED BY <1>3, <1>4 DEF VfsTruncate

\* VfsChmod.
LEMMA ChmodSound ==
  ASSUME KeptOnTop, Inv, NEW v \in Paths, VfsChmod(v)
  PROVE  Inv' /\ (Bare(S) => Bare(S)')
<1>1. v # Root /\ Reachable(S, v) /\ Exists(S, v) /\ {v} \subseteq Paths /\ \A p \in {v} : Reachable(S, p)
  BY RegularIs DEF VfsChmod
<1>2. open \in SUBSET Inodes /\ ENOENT \in Codes /\ "ok" \in Codes
  BY DEF Inv, ENOENT, Codes
<1>3. CASE CopyUpFails(v)
  BY <1>1, <1>3, CopyUpFailsSound
<1>4. ASSUME NEW up \in CopiedUp({v}, v), NEW code \in Codes, Reply(up.s, open, up.d, code)
      PROVE  Inv' /\ (Bare(S) => Bare(S)')
  <2>1. Sound(Bare(S), up.s) /\ up.d \in [Inodes -> Contents]
    BY <1>1, CopiedUpSound DEF AfterCopyUp
  <2> QED BY <1>2, <1>4, <2>1, ReplySound
<1> QED BY <1>2, <1>3, <1>4 DEF VfsChmod

\* Writing and closing leave the stores alone; a mount, and a new session with
\* an empty writelayer, seed the masks.
LEMMA SessionSound ==
  ASSUME Inv,
         \/ \E i \in Inodes : VfsRelease(i) \/ \E c \in Payloads : VfsWrite(i, c)
         \/ SessionStep
  PROVE  Inv' /\ (Bare(S) => Bare(S)')
<1>1. /\ Good(S) /\ Masked(S) /\ data \in [Inodes -> Contents] /\ open \in SUBSET Inodes
      /\ "ok" \in Codes /\ "relaunched" \in Codes /\ Sound(Bare(S), S)
  BY DEF Inv, Codes, Sound
<1>2. ASSUME NEW i \in Inodes, VfsRelease(i) PROVE Inv' /\ (Bare(S) => Bare(S)')
  <2>1. open \ {i} \in SUBSET Inodes
    BY <1>1
  <2> QED BY <1>1, <1>2, <2>1, ReplySound DEF VfsRelease
<1>3. ASSUME NEW i \in Inodes, NEW c \in Payloads, VfsWrite(i, c) PROVE Inv' /\ (Bare(S) => Bare(S)')
  <2>1. [data EXCEPT ![i] = c] \in [Inodes -> Contents]
    BY <1>1, Distinct
  <2> QED BY <1>1, <1>3, <2>1, ReplySound DEF VfsWrite
<1>4. ASSUME NEW s, Good(s), Bare(S) => Bare(s), NEW code \in Codes,
             Reply(SeedMasks(s), {}, data, code)
      PROVE  Inv' /\ (Bare(S) => Bare(S)')
  <2>1. Sound(Bare(S), SeedMasks(s))
    BY <1>4, SeedMasksIs DEF Sound
  <2> QED BY <1>1, <1>4, <2>1, ReplySound
<1>5. CASE Remount
  BY <1>1, <1>4, <1>5 DEF Remount
<1>6. CASE Relaunch
  <2> DEFINE s == [S EXCEPT ![Wl] = EmptyStore(Wl)]
  <2>1. Reply(SeedMasks(s), {}, data, "relaunched")
    BY <1>6 DEF Relaunch
  <2>2. S \in VfsState /\ HostTree(S) /\ Apart(S) /\ Wl \in Stores
    BY <1>1, StoresAre DEF Good
  <2>3. s \in VfsState
    BY <2>2, Distinct DEF VfsState, EmptyStore
  <2>4. /\ \A h \in Stores : h # Wl => s[h] = S[h]
        /\ s[Wl].wh = {} /\ s[Wl].opq = {} /\ s[Wl].deleted = {} /\ s[Wl].opaque = {}
        /\ \A p \in Paths : s[Wl].tree[p] = IF p = Root THEN Dir ELSE Absent
    BY <2>2, StoresAre DEF VfsState, EmptyStore
  <2> HIDE DEF s
  <2>5. HostTree(s)
    <3> SUFFICES ASSUME NEW h \in Stores
                 PROVE  /\ s[h].tree[StoreRoot(h)] = Dir
                        /\ \A v \in Paths \ {StoreRoot(h)} :
                             s[h].tree[v] # Absent \/ v \in s[h].wh =>
                               Holds(h, v) /\ s[h].tree[ParentVRel(v)] = Dir
                        /\ \A v \in s[h].opq : s[h].tree[v] = Dir
      BY DEF HostTree
    <3>1. CASE h = Wl
      BY <2>4, <3>1, StoresAre
    <3>2. CASE h # Wl
      BY <2>2, <2>4, <3>2 DEF HostTree
    <3> QED BY <3>1, <3>2
  <2>6. Apart(s)
    <3>1. \A h \in Stores : StoreRoot(h) \notin s[h].wh \cup s[h].deleted
      BY <2>2, <2>4 DEF Apart
    <3>2. ASSUME NEW v \in Paths \ {Root}, NEW k \in Kept, Within(v, KeptRoot[k]) PROVE s[Wl].tree[v] = Absent
      <4>1. S[Wl].tree[v] = Absent /\ S[Wl].tree[Root] = Dir
        BY <2>2, <3>2, StoresAre DEF Apart, HostTree
      <4> QED BY <2>4, <4>1, Distinct
    <3> QED BY <2>4, <3>1, <3>2 DEF Apart
  <2>7. Good(s) /\ Bare(s)
    BY <2>3, <2>4, <2>5, <2>6 DEF Good, Bare
  <2> QED BY <1>1, <1>4, <2>1, <2>7
<1> QED BY <1>2, <1>3, <1>5, <1>6 DEF SessionStep

(***************************************************************************)
(* Making names.                                                           *)
(***************************************************************************)
\* The state in which the host is asked to make v.
LEMMA PreparedSound ==
  ASSUME KeptOnTop, Inv, NEW v \in Paths, v # Root, Reachable(S, v)
  PROVE  LET s2 == Prepare(S, v)
         IN  /\ Sound(Bare(S), s2) /\ (Bare(S) => Unhidden(s2, v))
             /\ Home[v] = Wl => v \notin s2[Wl].wh
             /\ v # StoreRoot(Home[v]) => s2[Home[v]].tree[ParentVRel(v)] = Dir
             /\ s2[Home[v]].tree[v] = Absent => v # StoreRoot(Home[v])
<1>1. Good(S) /\ Masked(S) /\ HostTree(S) /\ Home[v] \in Stores
  BY HomeBelongs DEF Inv, Good
<1>2. Clear(S, Home[v], v) /\ Unhidden(S, v)
  BY <1>1, HomeBelongs, ReachableClear
<1>3. S[Home[v]].tree[v] = Absent => v # StoreRoot(Home[v])
  BY <1>1, Distinct DEF HostTree
<1> DEFINE s2 == Prepare(S, v)
<1>4. /\ Good(s2) /\ Masked(s2) /\ (v # StoreRoot(Home[v]) => s2[Home[v]].tree[ParentVRel(v)] = Dir)
      /\ Bare(S) => Bare(s2) /\ Unhidden(s2, v)
  BY <1>1, <1>2, PrepareGood
<1>5. s2[Home[v]].tree[v] = S[Home[v]].tree[v]
  BY <1>1, <1>2, PrepareGood
<1>6. \A g \in Stores : s2[g].wh = IF g = Wl /\ Home[v] = Wl THEN S[g].wh \ {v} ELSE S[g].wh
  BY <1>1, <1>2, PrepareGood
<1> HIDE DEF s2
<1>7. Home[v] = Wl => v \notin s2[Wl].wh
  BY <1>6, StoresAre
<1> QED BY <1>3, <1>4, <1>5, <1>7 DEF Sound, s2

\* A name that cannot be prepared has lost its whiteout only.
LEMMA ParentFailsSound ==
  ASSUME Inv, NEW v \in Paths, ParentFails(v)
  PROVE  Inv' /\ (Bare(S) => Bare(S)')
<1>1. /\ Good(S) /\ Masked(S) /\ data \in [Inodes -> Contents]
      /\ Stops("parent", RemoveWhiteout(S, v), data)
  BY DEF Inv, ParentFails
<1>2. Sound(Bare(S), RemoveWhiteout(S, v))
  BY <1>1, RemoveWhiteoutGood DEF Sound
<1> QED BY <1>1, <1>2, StopsSound

\* VfsCreate, over whatever the host already has there.
LEMMA CreateSound ==
  ASSUME KeptOnTop, Inv, NEW v \in Paths, VfsCreate(v)
  PROVE  Inv' /\ (Bare(S) => Bare(S)')
<1> DEFINE s2 == Prepare(S, v)
           h == Home[v]
<1>1. v # Root /\ Reachable(S, v)
  BY DEF VfsCreate, Negative
<1>2. /\ open \in SUBSET Inodes /\ data \in [Inodes -> Contents]
      /\ EEXIST \in Codes /\ EISDIR \in Codes /\ "ok" \in Codes
  BY DEF Inv, EEXIST, EISDIR, Codes
<1>3. /\ Sound(Bare(S), s2) /\ (Bare(S) => Unhidden(s2, v))
      /\ h = Wl => v \notin s2[Wl].wh
      /\ v # StoreRoot(h) => s2[h].tree[ParentVRel(v)] = Dir
      /\ s2[h].tree[v] = Absent => v # StoreRoot(h)
  BY <1>1, PreparedSound
<1> HIDE DEF s2
<1>4. CASE ParentFails(v)
  BY <1>4, ParentFailsSound
<1>5. CASE Stops("open", s2, data)
  BY <1>2, <1>3, <1>5, StopsSound
<1>6. ASSUME s2[h].tree[v] = Absent, NEW i \in FreeInodes,
             Made(Put(s2, h, v, i), open \cup {i}, [data EXCEPT ![i] = Empty], v)
      PROVE  Inv' /\ (Bare(S) => Bare(S)')
  <2>1. /\ i \in Inodes /\ [data EXCEPT ![i] = Empty] \in [Inodes -> Contents]
        /\ open \cup {i} \in SUBSET Inodes
    BY <1>2, FreeInodesAre, Distinct
  <2>2. Sound(Bare(S), Put(s2, h, v, i))
    BY <1>3, <1>6, <2>1, PutAtHome, Distinct
  <2> QED BY <1>6, <2>1, <2>2, MadeSound
<1>7. ASSUME s2[h].tree[v] \in Inodes,
             \/ Reply(s2, open, data, EEXIST)
             \/ \E c \in {Empty, data[s2[h].tree[v]]} :
                  Made(s2, open \cup {s2[h].tree[v]}, [data EXCEPT ![s2[h].tree[v]] = c], v)
      PROVE  Inv' /\ (Bare(S) => Bare(S)')
  <2>1. ASSUME NEW c \in {Empty, data[s2[h].tree[v]]}
        PROVE  [data EXCEPT ![s2[h].tree[v]] = c] \in [Inodes -> Contents]
    BY <1>2, <1>7, Distinct
  <2>2. open \cup {s2[h].tree[v]} \in SUBSET Inodes
    BY <1>2, <1>7
  <2>3. CASE Reply(s2, open, data, EEXIST)
    BY <1>2, <1>3, <2>3, ReplySound
  <2>4. ASSUME NEW c \in {Empty, data[s2[h].tree[v]]},
               Made(s2, open \cup {s2[h].tree[v]}, [data EXCEPT ![s2[h].tree[v]] = c], v)
        PROVE  Inv' /\ (Bare(S) => Bare(S)')
    BY <1>3, <2>1, <2>2, <2>4, MadeSound
  <2> QED BY <1>7, <2>3, <2>4
<1>8. CASE Reply(s2, open, data, EISDIR)
  BY <1>2, <1>3, <1>8, ReplySound
<1>9. \/ ParentFails(v) \/ Stops("open", s2, data) \/ Reply(s2, open, data, EISDIR)
      \/ /\ s2[h].tree[v] = Absent
         /\ \E i \in FreeInodes :
              Made(Put(s2, h, v, i), open \cup {i}, [data EXCEPT ![i] = Empty], v)
      \/ /\ s2[h].tree[v] \in Inodes
         /\ \/ Reply(s2, open, data, EEXIST)
            \/ \E c \in {Empty, data[s2[h].tree[v]]} :
                 Made(s2, open \cup {s2[h].tree[v]}, [data EXCEPT ![s2[h].tree[v]] = c], v)
  BY DEF VfsCreate, s2
<1> QED BY <1>4, <1>5, <1>6, <1>7, <1>8, <1>9

\* VfsSymlink.
LEMMA SymlinkSound ==
  ASSUME KeptOnTop, Inv, NEW v \in Paths, VfsSymlink(v)
  PROVE  Inv' /\ (Bare(S) => Bare(S)')
<1> DEFINE s2 == Prepare(S, v)
           h == Home[v]
<1>1. v # Root /\ Reachable(S, v)
  BY DEF VfsSymlink, Negative
<1>2. open \in SUBSET Inodes /\ data \in [Inodes -> Contents] /\ EEXIST \in Codes
  BY DEF Inv, EEXIST, Codes
<1>3. /\ Sound(Bare(S), s2) /\ (Bare(S) => Unhidden(s2, v))
      /\ h = Wl => v \notin s2[Wl].wh
      /\ v # StoreRoot(h) => s2[h].tree[ParentVRel(v)] = Dir
      /\ s2[h].tree[v] = Absent => v # StoreRoot(h)
  BY <1>1, PreparedSound
<1> HIDE DEF s2
<1>4. CASE ParentFails(v)
  BY <1>4, ParentFailsSound
<1>5. CASE Stops("symlink", s2, data)
  BY <1>2, <1>3, <1>5, StopsSound
<1>6. ASSUME s2[h].tree[v] = Absent, NEW i \in FreeInodes,
             Made(Put(s2, h, v, i), open, [data EXCEPT ![i] = LinkTarget], v)
      PROVE  Inv' /\ (Bare(S) => Bare(S)')
  <2>1. i \in Inodes /\ [data EXCEPT ![i] = LinkTarget] \in [Inodes -> Contents]
    BY <1>2, FreeInodesAre, Distinct
  <2>2. Sound(Bare(S), Put(s2, h, v, i))
    BY <1>3, <1>6, <2>1, PutAtHome, Distinct
  <2> QED BY <1>2, <1>6, <2>1, <2>2, MadeSound
<1>7. CASE Reply(s2, open, data, EEXIST)
  BY <1>2, <1>3, <1>7, ReplySound
<1> QED BY <1>4, <1>5, <1>6, <1>7 DEF VfsSymlink, s2

\* VfsMkdir, which masks what a deleted directory held.
LEMMA MkdirSound ==
  ASSUME KeptOnTop, Inv, NEW v \in Paths, VfsMkdir(v)
  PROVE  Inv' /\ (Bare(S) => Bare(S)')
<1> DEFINE s2 == Prepare(S, v)
           h == Home[v]
           s3 == Put(s2, h, v, Dir)
           made == IF IsDeleted(S, h, v) THEN Opaque(s3, v) ELSE {Outcome(s3, "ok")}
<1>1. v # Root /\ Reachable(S, v)
  BY DEF VfsMkdir, Negative
<1>2. /\ Good(S) /\ Masked(S) /\ open \in SUBSET Inodes /\ data \in [Inodes -> Contents]
      /\ EEXIST \in Codes /\ "ok" \in Codes
  BY DEF Inv, EEXIST, Codes
<1>3. /\ Sound(Bare(S), s2) /\ (Bare(S) => Unhidden(s2, v))
      /\ h = Wl => v \notin s2[Wl].wh
      /\ v # StoreRoot(h) => s2[h].tree[ParentVRel(v)] = Dir
      /\ s2[h].tree[v] = Absent => v # StoreRoot(h)
  BY <1>1, PreparedSound
<1> HIDE DEF s2
<1>4. CASE Reply(RemoveWhiteout(S, v), open, data, "ok")
  <2>1. Sound(Bare(S), RemoveWhiteout(S, v))
    BY <1>2, RemoveWhiteoutGood DEF Sound
  <2> QED BY <1>2, <1>4, <2>1, ReplySound
<1>5. CASE ParentFails(v)
  BY <1>5, ParentFailsSound
<1>6. CASE Stops("mkdir", s2, data)
  BY <1>2, <1>3, <1>6, StopsSound
<1>7. CASE Reply(s2, open, data, EEXIST)
  BY <1>2, <1>3, <1>7, ReplySound
<1>8. ASSUME s2[h].tree[v] = Absent
      PROVE  Sound(Bare(S), s3) /\ s3[h].tree[v] = Dir
  BY <1>3, <1>8, PutAtHome
<1> HIDE DEF s3
<1>9. CASE s2[h].tree[v] = Absent /\ Killed(s3, data)
  BY <1>2, <1>8, <1>9, KilledSound DEF Sound
<1>10. ASSUME s2[h].tree[v] = Absent, NEW r \in made,
              \/ r.code # "ok" /\ Reply(s2, open, data, r.code)
              \/ r.code = "ok" /\ Made(r.s, open, data, v)
       PROVE  Inv' /\ (Bare(S) => Bare(S)')
  <2>1. Sound(Bare(S), r.s) /\ r.code \in Codes
    <3>1. CASE r \in Opaque(s3, v)
      BY <1>8, <1>10, <3>1, OpaqueGood DEF Sound
    <3>2. CASE r = Outcome(s3, "ok")
      BY <1>2, <1>8, <1>10, <3>2 DEF Outcome
    <3> QED BY <1>10, <3>1, <3>2
  <2>2. CASE Reply(s2, open, data, r.code)
    BY <1>2, <1>3, <2>1, <2>2, ReplySound
  <2>3. CASE Made(r.s, open, data, v)
    BY <1>2, <2>1, <2>3, MadeSound
  <2> QED BY <1>10, <2>2, <2>3
<1>11. \/ Reply(RemoveWhiteout(S, v), open, data, "ok") \/ ParentFails(v) \/ Stops("mkdir", s2, data)
       \/ Reply(s2, open, data, EEXIST)
       \/ s2[h].tree[v] = Absent /\ Killed(s3, data)
       \/ /\ s2[h].tree[v] = Absent
          /\ \E r \in made : \/ r.code # "ok" /\ Reply(s2, open, data, r.code)
                             \/ r.code = "ok" /\ Made(r.s, open, data, v)
  BY DEF VfsMkdir, s2, s3
<1> QED BY <1>4, <1>5, <1>6, <1>7, <1>9, <1>10, <1>11

\* A link may be made over a whiteout, which goes after: nothing of the
\* writelayer is below a marker again, unless the server is killed in between.
LEMMA LinkSound ==
  ASSUME KeptOnTop, Inv, NEW vf \in Paths, NEW vt \in Paths, VfsLink(vf, vt)
  PROVE  Inv' /\ (Bare(S) /\ "kill" \notin HostFaults => Bare(S)')
<1> DEFINE bare == Bare(S) /\ "kill" \notin HostFaults
           ht == Home[vt]
           Finish(up) ==
             LET s2 == EnsureParent(up.s, ht, vt)
                 from == up.s[up.at].tree[vf]
                 onto == up.s[ht].tree[vt]
                 s3 == Put(s2, ht, vt, from)
             IN  \/ ht = Wl /\ Stops("parent", up.s, up.d)
                 \/ Stops("link", s2, up.d)
                 \/ from = Absent /\ Reply(s2, open, up.d, ENOENT)
                 \/ up.at # ht /\ "xdev" \in HostFaults /\ Reply(s2, open, up.d, EXDEV)
                 \/ onto # Absent /\ Reply(s2, open, up.d, EEXIST)
                 \/ /\ from # Absent /\ onto = Absent
                    /\ \/ Killed(s3, up.d)
                       \/ \E s4 \in UnhideLower(s3, vt) : Reply(s4, open, up.d, "ok")
<1>1. /\ vf # Root /\ Reachable(S, vf) /\ Exists(S, vf) /\ ~IsDirectory(S, vf)
      /\ vt # Root /\ Reachable(S, vt)
      /\ {vf} \subseteq Paths /\ \A p \in {vf} : Reachable(S, p)
  BY DEF VfsLink, Positive, Negative
<1>2. /\ open \in SUBSET Inodes /\ Good(S) /\ Masked(S)
      /\ {"ok", ENOENT, EXDEV, EEXIST} \subseteq Codes
  BY DEF Inv, ENOENT, EXDEV, EEXIST, Codes
<1>3. CASE CopyUpFails(vf)
  BY <1>1, <1>3, CopyUpFailsSound
<1>4. Unhidden(S, vt) /\ Belongs(ht, vt) /\ ht \in Stores /\ Home[vf] \in Stores
  BY <1>1, <1>2, ReachableClear, HomeBelongs
<1>5. ASSUME NEW up \in CopiedUp({vf}, vf), Finish(up)
      PROVE  Inv' /\ (bare => Bare(S)')
  <2> DEFINE s2 == EnsureParent(up.s, ht, vt)
             from == up.s[up.at].tree[vf]
             onto == up.s[ht].tree[vt]
             s3 == Put(s2, ht, vt, from)
  <2>0. \/ Stops("parent", up.s, up.d)
        \/ Stops("link", s2, up.d)
        \/ \E code \in {ENOENT, EXDEV, EEXIST} : Reply(s2, open, up.d, code)
        \/ /\ from # Absent /\ onto = Absent
           /\ \/ Killed(s3, up.d)
              \/ \E s4 \in UnhideLower(s3, vt) : Reply(s4, open, up.d, "ok")
    BY <1>5
  <2>00. from = up.s[up.at].tree[vf] /\ s2 = EnsureParent(up.s, ht, vt) /\ s3 = Put(s2, ht, vt, from)
    OBVIOUS
  <2> HIDE DEF Finish, s2, from, s3
  <2>1. /\ Sound(Bare(S), up.s) /\ up.d \in [Inodes -> Contents] /\ up.at = Home[vf]
        /\ Unhidden(up.s, vt) /\ Clear(up.s, ht, vt)
        /\ up.s[Home[vf]].tree[vf] # Dir
    <3>0. AfterCopyUp(up, vf)
      BY <1>1, CopiedUpSound
    <3>1. Unhidden(up.s, vt) /\ Clear(up.s, ht, vt)
      BY <1>1, <1>4, <3>0 DEF AfterCopyUp
    <3>2. up.s[Home[vf]].tree[vf] # Dir
      BY <1>1, <3>0 DEF AfterCopyUp
    <3>3. Sound(Bare(S), up.s) /\ up.d \in [Inodes -> Contents] /\ up.at = Home[vf]
      BY <3>0 DEF AfterCopyUp
    <3> QED BY <1>1, <3>1, <3>2, <3>3
  <2>11. from # Dir
    BY <2>00, <2>1
  <2>2. Good(up.s) /\ up.s \in VfsState /\ HostTree(up.s) /\ Masked(up.s) /\ (bare => Bare(up.s))
    BY <2>1 DEF Sound, Good
  <2>3. /\ Good(s2) /\ Masked(s2)
        /\ vt # StoreRoot(ht) => s2[ht].tree[ParentVRel(vt)] = Dir
        /\ s2[ht].tree[vt] = up.s[ht].tree[vt]
    BY <1>4, <2>00, <2>1, <2>2, EnsureParentGood
  <2>4. bare => Bare(s2) /\ Unhidden(s2, vt)
    BY <1>4, <2>00, <2>1, <2>2, EnsureParentBare
  <2>5. Sound(bare, up.s) /\ Sound(bare, s2)
    BY <2>2, <2>3, <2>4 DEF Sound
  <2>6. CASE Stops("parent", up.s, up.d) \/ Stops("link", s2, up.d)
    BY <2>1, <2>5, <2>6, StopsSound
  <2>7. ASSUME NEW code \in {ENOENT, EXDEV, EEXIST}, Reply(s2, open, up.d, code)
        PROVE  Inv' /\ (bare => Bare(S)')
    BY <1>2, <2>1, <2>5, <2>7, ReplySound
  <2>8. ASSUME from # Absent, onto = Absent
        PROVE  /\ Good(s3) /\ Masked(s3)
               /\ bare => \A e \in UnhideLower(s3, vt) : Bare(e)
    <3>1. vt # StoreRoot(ht)
      BY <1>4, <2>2, <2>8, Distinct DEF HostTree
    <3>2. from \in Inodes /\ Holds(ht, vt)
      BY <1>4, <2>00, <2>1, <2>11, <2>2, <2>8, FieldsAre DEF Belongs
    <3>3. ht = Wl => \A k \in Kept : ~Within(vt, KeptRoot[k])
      BY HomeIs, StoresAre
    <3>4. /\ Good(s3) /\ Masked(s3) /\ s3[ht].tree[vt] = from
          /\ \A g \in Stores : /\ \A p \in Paths : g # ht \/ p # vt => s3[g].tree[p] = s2[g].tree[p]
                               /\ s3[g].wh = s2[g].wh
          /\ Bare(s2) /\ (ht = Wl => Unhidden(s2, vt) /\ vt \notin s2[Wl].wh) => Bare(s3)
      <4>1. s2[ht].tree[vt] # Dir /\ s2[ht].tree[ParentVRel(vt)] = Dir
        BY <2>3, <2>8, <3>1, Distinct
      <4>2. from \in Inodes \cup {Dir}
        BY <3>2
      <4>3. from # Dir => s2[ht].tree[vt] # Dir
        BY <4>1
      <4> HIDE DEF ht
      <4>4. /\ Good(s3) /\ (Masked(s2) => Masked(s3)) /\ s3[ht].tree[vt] = from
            /\ Bare(s2) /\ (ht = Wl => Unhidden(s2, vt) /\ vt \notin s2[Wl].wh) => Bare(s3)
        BY <1>4, <2>00, <2>3, <3>1, <3>2, <3>3, <4>1, <4>2, <4>3, PutGood
      <4>5. \A g \in Stores : /\ \A p \in Paths : g # ht \/ p # vt => s3[g].tree[p] = s2[g].tree[p]
                              /\ s3[g].wh = s2[g].wh
        BY <1>4, <2>00, <2>3, <3>1, <3>2, <3>3, <4>1, <4>2, <4>3, PutGood
      <4> QED BY <2>3, <4>4, <4>5
    <3>5. CASE ht # Wl
      BY <2>4, <3>4, <3>5, UnhideLowerGood
    <3>6. ASSUME ht = Wl, bare, NEW e \in UnhideLower(s3, vt) PROVE Bare(e)
      <4>1. e = RemoveWhiteout(s3, vt)
        BY <3>6 DEF UnhideLower
      <4>2. e[Wl].wh = s3[Wl].wh \ {vt} /\ e[Wl].tree = s3[Wl].tree
        BY <3>4, <4>1, StoresAre, RemoveWhiteoutGood
      <4> SUFFICES ASSUME NEW v \in e[Wl].wh, NEW p \in Paths, Within(p, v) PROVE e[Wl].tree[p] = Absent
        BY DEF Bare
      <4>3. v \in s2[Wl].wh /\ v # vt /\ v \in Paths
        BY <2>3, <3>4, <4>2, StoresAre, FieldsAre DEF Good
      <4>4. p # vt
        BY <2>4, <3>6, <4>3 DEF Unhidden
      <4>5. s2[Wl].tree[p] = Absent
        BY <2>4, <3>6, <4>3 DEF Bare
      <4> QED BY <3>4, <4>2, <4>4, <4>5, StoresAre
    <3> QED BY <3>4, <3>5, <3>6
  <2>9. ASSUME from # Absent, onto = Absent, Killed(s3, up.d)
        PROVE  Inv' /\ (bare => Bare(S)')
    <3>1. ~bare
      BY <2>9 DEF Killed
    <3> HIDE DEF bare
    <3> QED BY <2>1, <2>8, <2>9, <3>1, KilledSound
  <2>10. ASSUME from # Absent, onto = Absent, NEW s4 \in UnhideLower(s3, vt),
                Reply(s4, open, up.d, "ok")
         PROVE  Inv' /\ (bare => Bare(S)')
    <3>1. Sound(bare, s4)
      BY <2>8, <2>10, UnhideLowerGood DEF Sound
    <3> QED BY <1>2, <2>1, <2>10, <3>1, ReplySound
  <2> QED BY <2>0, <2>6, <2>7, <2>9, <2>10
<1>6. CopyUpFails(vf) \/ \E up \in CopiedUp({vf}, vf) : Finish(up)
  BY DEF VfsLink
<1> HIDE DEF Finish
<1> QED BY <1>3, <1>5, <1>6

(***************************************************************************)
(* Removing names.                                                         *)
(***************************************************************************)
\* An entry of v's store that holds nothing goes, and v's rest can be hidden.
LEMMA TakenSound ==
  ASSUME KeptOnTop, Inv, NEW s, Sound(Bare(S), s), NEW v \in Paths, v # Root,
         v # StoreRoot(Home[v]), Unhidden(s, v), Clear(s, HidesIn(v), v),
         \A c \in Children(v) : s[Home[v]].tree[c] = Absent /\ c \notin s[Home[v]].wh,
         v \notin s[Home[v]].opq,
         HideRest(Put(s, Home[v], v, Absent), data, v)
  PROVE  Inv' /\ (Bare(S) => Bare(S)')
<1> DEFINE h == Home[v]
           e == Put(s, h, v, Absent)
<1>1. Good(s) /\ Masked(s) /\ h \in Stores /\ Holds(h, v) /\ data \in [Inodes -> Contents]
  BY HomeBelongs DEF Sound, Inv, Belongs
<1>2. /\ Good(e) /\ (Masked(s) => Masked(e)) /\ (Bare(s) => Bare(e))
      /\ e[h].tree[v] = Absent
      /\ \A g \in Stores : \A p \in Paths : g # h \/ p # v => e[g].tree[p] = s[g].tree[p]
      /\ Unhidden(e, v)
  BY <1>1, TakeGood
<1>3. \A p \in Paths : Within(p, v) => s[h].tree[p] = Absent \/ p = v
  BY <1>1, NothingInside
<1> HIDE DEF e
<1>4. \A p \in Paths : Within(p, v) => e[Wl].tree[p] = Absent
  <2> SUFFICES ASSUME NEW p \in Paths, Within(p, v) PROVE e[Wl].tree[p] = Absent
    OBVIOUS
  <2>1. CASE h = Wl
    BY <1>1, <1>2, <1>3, <2>1
  <2>2. CASE h # Wl
    <3>1. Home[p] = h /\ h \in Kept
      BY <2>2, HomeBelow, HomeIs
    <3>2. Within(p, KeptRoot[h])
      BY <3>1, HomeIs
    <3>3. s[Wl].tree[p] = Absent
      <4>1. p # Root
        BY PathsAre, WithinRoot
      <4> QED BY <1>1, <3>1, <3>2, <4>1 DEF Good, Apart
    <3> QED BY <1>2, <2>2, <3>3, StoresAre
  <2> QED BY <2>1, <2>2
<1>5. Clear(e, HidesIn(v), v)
  <2>1. \A a \in Above[HidesIn(v)][v] : a \in Paths /\ a # v /\ HidesIn(v) \in Stores
    BY HidesInBelongs, AboveAre
  <2> QED BY <1>2, <2>1 DEF Clear
<1>6. Sound(Bare(S), e)
  BY <1>1, <1>2 DEF Sound
<1> QED BY <1>1, <1>2, <1>4, <1>5, <1>6, HideRestSound DEF e

\* VfsUnlink.
LEMMA UnlinkSound ==
  ASSUME KeptOnTop, Inv, NEW v \in Paths, VfsUnlink(v)
  PROVE  Inv' /\ (Bare(S) => Bare(S)')
<1> DEFINE h == Home[v]
<1>1. v # Root /\ Reachable(S, v) /\ Exists(S, v) /\ ~IsDirectory(S, v)
  BY DEF VfsUnlink, Positive
<1>2. /\ Good(S) /\ Sound(Bare(S), S) /\ HostTree(S) /\ data \in [Inodes -> Contents]
      /\ h \in Stores /\ Holds(h, v)
  BY HomeBelongs DEF Inv, Sound, Good, Belongs
<1>3. S[h].tree[v] # Dir
  BY <1>1, <1>2, DirectoryIs
<1>4. CASE Stops("unlink", S, data)
  BY <1>2, <1>4, StopsSound
<1>5. CASE HideRest(Put(S, h, v, Absent), data, v)
  <2>1. v # StoreRoot(h) /\ v \notin S[h].opq
    BY <1>2, <1>3 DEF HostTree
  <2>2. \A c \in Children(v) : c \in Paths /\ Within(c, v) /\ c # v
    BY PathsAre, ParentIs DEF Children
  <2>3. \A c \in Children(v) : S[h].tree[c] = Absent /\ c \notin S[h].wh
    BY <1>2, <1>3, <2>2, EmptyBelow
  <2> QED BY <1>1, <1>2, <1>5, <2>1, <2>3, PositiveIs, TakenSound
<1> QED BY <1>4, <1>5 DEF VfsUnlink

\* The markers inside a directory go with their masks, in either kind of store.
LEMMA SweptSound ==
  ASSUME KeptOnTop, NEW bare, NEW s, Sound(bare, s), NEW v \in Paths, NEW h, h = Home[v]
  PROVE  LET e == IF h = Wl THEN Sweep(s, v) ELSE KeptDropMarkersUnder(s, h, v)
         IN  /\ Sound(bare, e) /\ \A g \in Stores : e[g].tree = s[g].tree
             /\ \A w : Unhidden(s, w) => Unhidden(e, w)
             /\ v \notin e[h].opq /\ \A c \in Children(v) : c \notin e[h].wh
<1> DEFINE e == IF h = Wl THEN Sweep(s, v) ELSE KeptDropMarkersUnder(s, h, v)
           W == Inside(s[h].wh, v)
<1>1. /\ Good(s) /\ Masked(s) /\ s \in VfsState /\ HostTree(s) /\ Apart(s)
      /\ h \in Stores /\ Wl \in Stores
  BY HomeBelongs, StoresAre DEF Sound, Good
\* What is inside v on disk is there because v is a directory.
<1>2. s[h].tree[v] # Dir => W = {} /\ v \notin s[h].opq
  <2>1. ASSUME NEW w \in W PROVE s[h].tree[v] = Dir
    <3>1. w \in Paths /\ w # StoreRoot(h) /\ w \in s[h].wh /\ ParentVRel(w) = v
      BY <1>1, <2>1, FieldsAre DEF Inside, Apart
    <3> QED BY <1>1, <3>1 DEF HostTree
  <2>2. v \in s[h].opq => s[h].tree[v] = Dir
    BY <1>1 DEF HostTree
  <2> QED BY <2>1, <2>2
\* The four sets of names of store h, which e sets anew.
<1> DEFINE A == s[h].wh \ W
           D == s[h].deleted \ (IF h = Wl THEN W ELSE Inside(s[h].deleted, v))
           O == s[h].opq \ {v}
           Q == s[h].opaque \ (IF h = Wl THEN {v} \cap s[h].opq ELSE {v})
           r == [s[h] EXCEPT !.wh = A, !.deleted = D, !.opq = O, !.opaque = Q]
           Store == [tree : [Paths -> Inodes \cup {Dir, Absent}],
                     wh : SUBSET Paths, opq : SUBSET Paths, deleted : SUBSET Paths, opaque : SUBSET Paths]
<1>3. e = [s EXCEPT ![h].wh = A, ![h].deleted = D, ![h].opq = O, ![h].opaque = Q]
  <2>1. CASE h = Wl
    <3>1. O = s[h].opq \ ({v} \cap s[h].opq)
      OBVIOUS
    <3>2. s[Wl].tree[v] # Dir => W = {} /\ {v} \cap s[Wl].opq = {}
      BY <1>2, <2>1
    <3> HIDE DEF W
    <3> QED BY <1>1, <2>1, <3>1, <3>2 DEF Sweep, VfsState, W
  <2>2. CASE h # Wl
    <3>1. (IF s[h].tree[v] = Dir THEN s[h].wh \ Inside(s[h].wh, v) ELSE s[h].wh) = A
      BY <1>2
    <3>2. (IF s[h].tree[v] = Dir THEN s[h].opq \ {v} ELSE s[h].opq) = O
      BY <1>2
    <3>3. D = s[h].deleted \ Inside(s[h].deleted, v) /\ Q = s[h].opaque \ {v}
      BY <2>2
    <3> HIDE DEF A, D, O, Q
    <3> QED BY <1>1, <2>2, <3>1, <3>2, <3>3 DEF KeptDropMarkersUnder, VfsState
  <2> QED BY <2>1, <2>2
<1>9. W \subseteq Inside(s[h].deleted, v) /\ Inside(s[h].deleted, v) \subseteq s[h].deleted
  BY <1>1 DEF Masked, Inside
<1>10. A \in SUBSET Paths /\ D \in SUBSET Paths /\ O \in SUBSET Paths /\ Q \in SUBSET Paths
  BY <1>1, FieldsAre
<1>11. /\ s[h].deleted \ Inside(s[h].deleted, v) \subseteq D
       /\ D \subseteq s[h].deleted \ W
       /\ Q \subseteq s[h].opaque /\ s[h].opaque \ {v} \subseteq Q
       /\ v \in s[h].opq => v \notin Q
       /\ s[h].wh = s[h].deleted => D = A
  BY <1>9
<1>12. A = s[h].wh \ W /\ O = s[h].opq \ {v}
  OBVIOUS
<1> HIDE DEF e, A, D, O, Q
<1>13. s[h] \in Store
  BY <1>1 DEF VfsState
<1>14. r \in Store /\ r.tree = s[h].tree /\ r.wh = A /\ r.deleted = D /\ r.opq = O /\ r.opaque = Q
  BY <1>10, <1>13
<1>15. e = [s EXCEPT ![h] = r]
  BY <1>1, <1>3 DEF VfsState
<1> HIDE DEF r
<1>16. e \in VfsState /\ e[h] = r /\ \A g \in Stores : e[g].tree = s[g].tree /\ (g # h => e[g] = s[g])
  <2>1. s \in [Stores -> Store]
    BY <1>1 DEF VfsState
  <2> HIDE DEF Store
  <2>2. e \in [Stores -> Store] /\ e[h] = r /\ \A g \in Stores : g # h => e[g] = s[g]
    BY <1>1, <1>14, <1>15, <2>1
  <2>3. e \in VfsState
    BY <2>2 DEF VfsState, Store
  <2> QED BY <1>14, <2>2, <2>3
<1>4. e[h].wh = s[h].wh \ W /\ e[h].deleted = D /\ e[h].opq = s[h].opq \ {v} /\ e[h].opaque = Q
  BY <1>12, <1>14, <1>16
<1>5. \A g \in Stores : /\ e[g].wh \subseteq s[g].wh /\ e[g].opq \subseteq s[g].opq
                        /\ e[g].deleted \subseteq s[g].deleted /\ e[g].opaque \subseteq s[g].opaque
  BY <1>4, <1>9, <1>11, <1>16
<1>6. Good(e) /\ (Bare(s) => Bare(e)) /\ \A w : Unhidden(s, w) => Unhidden(e, w)
  BY <1>1, <1>5, <1>16, RemovalGood
<1>7. Masked(e)
  <2> SUFFICES ASSUME NEW g \in Stores
               PROVE  /\ e[g].wh \subseteq e[g].deleted /\ e[g].opq \subseteq e[g].opaque
                      /\ "marker" \notin HostFaults => e[g].deleted = e[g].wh /\ e[g].opaque = e[g].opq
    BY DEF Masked
  <2>1. CASE g # h
    BY <1>1, <1>16, <2>1 DEF Masked
  <2>2. CASE g = h
    <3>1. s[h].wh \subseteq s[h].deleted /\ s[h].opq \subseteq s[h].opaque
      BY <1>1 DEF Masked
    <3>2. \A w \in e[h].wh : w \notin Inside(s[h].deleted, v)
      BY <1>4 DEF Inside
    <3>3. e[h].wh \subseteq e[h].deleted /\ e[h].opq \subseteq e[h].opaque
      BY <1>4, <1>11, <3>1, <3>2
    <3>4. "marker" \notin HostFaults => e[h].deleted = e[h].wh /\ e[h].opaque = e[h].opq
      <4>1. "marker" \notin HostFaults => s[h].wh = s[h].deleted /\ s[h].opq = s[h].opaque
        BY <1>1 DEF Masked
      <4> QED BY <1>4, <1>11, <1>12, <4>1
    <3> QED BY <2>2, <3>3, <3>4
  <2> QED BY <2>1, <2>2
<1>8. \A c \in Children(v) : c \notin e[h].wh
  BY <1>4 DEF Inside, Children
<1> QED BY <1>1, <1>4, <1>6, <1>7, <1>8, <1>16 DEF e, Sound

\* VfsRmdir, of a directory that is listed as empty.
LEMMA RmdirSound ==
  ASSUME KeptOnTop, Inv, NEW v \in Paths, VfsRmdir(v)
  PROVE  Inv' /\ (Bare(S) => Bare(S)')
<1> DEFINE h == Home[v]
           s1 == IF h = Wl THEN Sweep(S, v) ELSE KeptDropMarkersUnder(S, h, v)
           s2 == HostRmdir(s1, h, v)
<1>1. v # Root /\ Reachable(S, v) /\ Exists(S, v) /\ IsDirectory(S, v)
  BY DEF VfsRmdir, Positive
<1>2. /\ Good(S) /\ Masked(S) /\ Sound(Bare(S), S) /\ HostTree(S) /\ Apart(S)
      /\ h \in Stores /\ Holds(h, v) /\ data \in [Inodes -> Contents] /\ open \in SUBSET Inodes
      /\ ENOTEMPTY \in Codes /\ "ok" \in Codes
  BY HomeBelongs DEF Inv, Sound, Good, Belongs, ENOTEMPTY, Codes
<1>3. /\ Sound(Bare(S), s1) /\ \A g \in Stores : s1[g].tree = S[g].tree
      /\ \A w : Unhidden(S, w) => Unhidden(s1, w)
      /\ v \notin s1[h].opq /\ \A c \in Children(v) : c \notin s1[h].wh
  BY <1>2, SweptSound
<1>4. Unhidden(s1, v) /\ Clear(S, HidesIn(v), v)
  BY <1>1, <1>3, PositiveIs
<1>5. HidesIn(v) \in Stores
  BY <1>1, HidesInBelongs
<1>6. Clear(s1, HidesIn(v), v)
  BY <1>3, <1>4, <1>5 DEF Clear
\* All that the listing leaves out is under a marker, and nothing else is.
<1>7. ASSUME CollectChildren(S, v) = {}, Bare(S), h = Wl, NEW c \in Children(v)
      PROVE  S[Wl].tree[c] = Absent
  <2>1. c \in Paths /\ Within(c, c)
    BY PathsAre, WithinReflexive DEF Children
  <2>2. c \in S[Wl].wh => S[Wl].tree[c] = Absent
    BY <1>7, <2>1 DEF Bare
  <2>3. S[Wl].tree[c] # Absent /\ c \notin S[Wl].wh => c \in CollectChildren(S, v)
    <3> HAVE S[Wl].tree[c] # Absent /\ c \notin S[Wl].wh
    <3>1. \A k \in Kept, w \in Paths : w \in S[k].wh => Holds(k, w)
      BY <1>2, StoresAre DEF HostTree, Apart
    <3>2. \A k \in Kept : c \notin S[k].wh
      <4> SUFFICES ASSUME NEW k \in Kept, c \in S[k].wh PROVE FALSE
        OBVIOUS
      <4>1. Within(c, KeptRoot[k])
        BY <2>1, <3>1, StoresAre DEF Holds
      <4> QED BY <1>2, <1>7, <2>1, <4>1 DEF Apart, Children
    <3>3. KeptOver[v] \subseteq Kept
      BY DEF KeptOver
    <3> QED BY <1>7, <3>2, <3>3 DEF CollectChildren
  <2> QED BY <1>7, <2>2, <2>3
<1> HIDE DEF s1
\* So the host's directory is empty, in the writelayer at least.
<1>8. ASSUME CollectChildren(S, v) = {}, Bare(S), h = Wl PROVE ~HostBusy(s1, h, v)
  BY <1>2, <1>3, <1>7, <1>8 DEF HostBusy
<1>9. ASSUME CollectChildren(S, v) = {}, v # StoreRoot(h), h = Wl \/ ~HostBusy(s1, h, v),
             HideRest(s2, data, v)
      PROVE  Inv' /\ (Bare(S) => Bare(S)')
  <2>1. CASE HostBusy(s1, h, v)
    <3>1. s2 = s1 /\ h = Wl /\ ~Bare(S)
      BY <1>8, <1>9, <2>1 DEF HostRmdir
    <3> QED BY <1>1, <1>2, <1>3, <1>6, <1>9, <3>1, HideRestSound
  <2>2. CASE ~HostBusy(s1, h, v)
    <3>1. s2 = Put(s1, h, v, Absent) /\ \A c \in Children(v) : s1[h].tree[c] = Absent
      BY <2>2 DEF HostRmdir, HostBusy
    <3> QED BY <1>1, <1>3, <1>4, <1>6, <1>9, <3>1, TakenSound
  <2> QED BY <2>1, <2>2
<1>10. CASE Reply(S, open, data, ENOTEMPTY)
  BY <1>2, <1>10, ReplySound
<1>11. CASE Killed(s1, data)
  BY <1>2, <1>3, <1>11, KilledSound DEF Sound
<1>12. CASE Reply(s1, open, data, ENOTEMPTY)
  BY <1>2, <1>3, <1>12, ReplySound
\* A kept folder itself stays, emptied, and is hidden by the writelayer.
<1>13. ASSUME h # Wl, v = StoreRoot(h), NEW r \in Opaque(s1, v),
              \/ r.code # "ok" /\ Reply(s1, open, data, r.code)
              \/ Killed(r.s, data)
              \/ \E w \in MarkerWritten : Reply(CreateWhiteout(r.s, v, w), open, data, "ok")
       PROVE  Inv' /\ (Bare(S) => Bare(S)')
  <2>1. s1[Home[v]].tree[v] = Dir /\ Good(s1) /\ Masked(s1)
    BY <1>2, <1>3, <1>13 DEF HostTree, Sound
  <2>2. /\ Sound(Bare(S), r.s) /\ r.code \in Codes
        /\ \A g \in Stores : r.s[g].tree = s1[g].tree
        /\ Unhidden(r.s, v)
    BY <1>3, <1>4, <1>13, <2>1, OpaqueGood DEF Sound
  <2>3. CASE Reply(s1, open, data, r.code)
    BY <1>2, <1>3, <2>2, <2>3, ReplySound
  <2>4. CASE Killed(r.s, data)
    BY <1>2, <2>2, <2>4, KilledSound DEF Sound
  <2>5. ASSUME NEW w \in MarkerWritten, Reply(CreateWhiteout(r.s, v, w), open, data, "ok")
        PROVE  Inv' /\ (Bare(S) => Bare(S)')
    <3>1. Outcome(CreateWhiteout(r.s, v, w), "ok") \in HideLower(r.s, v)
      BY <1>13 DEF HideLower
    <3>2. HidesIn(v) = Wl /\ Clear(r.s, HidesIn(v), v)
      BY <1>5, <1>6, <1>13, <2>2 DEF HidesIn, Clear
    <3>3. \A p \in Paths : Within(p, v) => r.s[Wl].tree[p] = Absent
      <4>1. h \in Kept /\ KeptRoot[h] = v
        BY <1>2, <1>13, StoresAre
      <4>2. \A p \in Paths : Within(p, v) => p # Root
        BY <1>1, PathsAre, WithinRoot
      <4> QED BY <1>2, <1>3, <2>2, <4>1, <4>2, StoresAre DEF Apart
    <3>4. /\ Good(r.s) /\ Masked(r.s) /\ (Bare(S) => Bare(r.s))
          /\ Outcome(CreateWhiteout(r.s, v, w), "ok").s = CreateWhiteout(r.s, v, w)
      BY <2>2 DEF Sound, Outcome
    <3>5. /\ Good(CreateWhiteout(r.s, v, w)) /\ Masked(CreateWhiteout(r.s, v, w))
          /\ Bare(r.s) => Bare(CreateWhiteout(r.s, v, w))
      BY <1>1, <2>2, <3>1, <3>2, <3>3, <3>4, HideLowerGood
    <3>6. Sound(Bare(S), CreateWhiteout(r.s, v, w))
      BY <3>4, <3>5 DEF Sound
    <3> QED BY <1>2, <2>5, <3>6, ReplySound
  <2> QED BY <1>13, <2>3, <2>4, <2>5
<1>14. \/ Reply(S, open, data, ENOTEMPTY)
       \/ /\ CollectChildren(S, v) = {}
          /\ \/ Killed(s1, data)
             \/ /\ h # Wl /\ v = StoreRoot(h)
                /\ \E r \in Opaque(s1, v) :
                     \/ r.code # "ok" /\ Reply(s1, open, data, r.code)
                     \/ Killed(r.s, data)
                     \/ \E w \in MarkerWritten : Reply(CreateWhiteout(r.s, v, w), open, data, "ok")
             \/ h = Wl /\ HideRest(s2, data, v)
             \/ h # Wl /\ v # StoreRoot(h) /\ HostBusy(s1, h, v) /\ Reply(s1, open, data, ENOTEMPTY)
             \/ h # Wl /\ v # StoreRoot(h) /\ ~HostBusy(s1, h, v) /\ HideRest(s2, data, v)
  BY DEF VfsRmdir, s1
<1>15. h = Wl => v # StoreRoot(h)
  BY <1>1, StoresAre
<1> HIDE DEF s2, h
<1> QED BY <1>9, <1>10, <1>11, <1>12, <1>13, <1>14, <1>15

(***************************************************************************)
(* Renaming.                                                               *)
(***************************************************************************)
\* A directory is renamed within one store, neither out of nor over kept
\* folders, and has left no marker of its name behind.
Homely(vf, vt) ==
  IsDirectory(S, vf) =>
    /\ Home[vf] = Home[vt] /\ ~IsDeleted(S, Home[vf], vf)
    /\ \A k \in Kept : ~Within(KeptRoot[k], vf) /\ (Within(KeptRoot[k], vt) => KeptRoot[k] = vt)

\* The state in which the host renames: the source's store has what the copy-up
\* left there, the target's has it prepared.
LEMMA RenameReady ==
  ASSUME KeptOnTop, Inv, NEW vf \in Paths, NEW vt \in Paths, MayRename(vf, vt), Homely(vf, vt),
         NEW up, AfterCopyUp(up, vf), NEW s1, s1 = Prepare(up.s, vt)
  PROVE  LET hf == Home[vf]
             ht == Home[vt]
         IN  /\ Sound(Bare(S), s1)
             /\ Bare(S) => Unhidden(s1, vt)
             /\ Unhidden(s1, vf)
             /\ ht = Wl => vt \notin s1[Wl].wh
             /\ vt # StoreRoot(ht) => s1[ht].tree[ParentVRel(vt)] = Dir
             /\ s1[hf].tree[vf] = up.s[hf].tree[vf] /\ s1[ht].tree[vt] = up.s[ht].tree[vt]
             /\ IF IsDirectory(S, vf) THEN s1[hf].tree[vf] \in {Dir, Absent} ELSE s1[hf].tree[vf] # Dir
             /\ Clear(s1, HidesIn(vf), vf)
             /\ IsDirectory(S, vf) => vf \notin s1[hf].deleted
             /\ vf # StoreRoot(hf)
<1> DEFINE hf == Home[vf]
           ht == Home[vt]
<1>1. /\ vf # Root /\ Reachable(S, vf) /\ Exists(S, vf)
      /\ vt # Root /\ Reachable(S, vt) /\ ~Within(vt, vf) /\ ~Within(vf, vt)
  BY DEF MayRename, Positive
<1>2. /\ hf \in Stores /\ ht \in Stores /\ Belongs(hf, vf) /\ Belongs(ht, vt)
      /\ Holds(hf, vf) /\ Holds(ht, vt) /\ vf \in VPath /\ vt \in VPath
  BY HomeBelongs, PathsAre DEF Belongs
<1>3. Good(S) /\ HostTree(S) /\ Masked(S)
  BY DEF Inv, Good
<1>4. /\ Good(up.s) /\ Masked(up.s) /\ (Bare(S) => Bare(up.s))
      /\ Clear(up.s, ht, vt) /\ Clear(up.s, HidesIn(vf), vf)
  BY <1>1, <1>2, HidesInBelongs DEF AfterCopyUp, Sound
<1>5. Unhidden(up.s, vf) /\ Unhidden(up.s, vt)
  BY <1>1, <1>3, PositiveIs, ReachableClear DEF AfterCopyUp
<1>6. IF IsDirectory(S, vf) THEN up.s[hf].tree[vf] \in {Dir, Absent} ELSE up.s[hf].tree[vf] # Dir
  BY <1>1 DEF AfterCopyUp
<1>7. up.s[hf].deleted = S[hf].deleted
  BY <1>2 DEF AfterCopyUp
<1>8. /\ Good(s1) /\ Masked(s1) /\ (Bare(S) => Bare(s1) /\ Unhidden(s1, vt))
      /\ vt # StoreRoot(ht) => s1[ht].tree[ParentVRel(vt)] = Dir
  BY <1>4, <1>5, PrepareGood
<1>9. \A g \in Stores : \A p \in Paths :
        /\ s1[g].tree[p] = up.s[g].tree[p] \/ (up.s[g].tree[p] = Absent /\ s1[g].tree[p] = Dir)
        /\ ~Within(vt, p) \/ p = vt => s1[g].tree[p] = up.s[g].tree[p]
  BY <1>4, PrepareGood
<1>10. \A g \in Stores : s1[g].wh = IF g = Wl /\ Home[vt] = Wl THEN up.s[g].wh \ {vt} ELSE up.s[g].wh
  BY <1>4, PrepareGood
<1>17. \A g \in Stores : s1[g].deleted = IF g = Wl /\ Home[vt] = Wl THEN up.s[g].deleted \ {vt}
                                         ELSE up.s[g].deleted
  BY <1>4, PrepareGood
<1>11. s1[hf].tree[vf] = up.s[hf].tree[vf] /\ s1[ht].tree[vt] = up.s[ht].tree[vt]
  BY <1>1, <1>2, <1>9
<1>12. Clear(s1, HidesIn(vf), vf)
  <2>1. HidesIn(vf) \in Stores /\ \A a \in Above[HidesIn(vf)][vf] : a \in Paths
    BY <1>1, HidesInBelongs, AboveAre
  <2> QED BY <1>4, <1>9, <2>1 DEF Clear
<1>13. Unhidden(s1, vf)
  BY <1>5, <1>10, StoresAre DEF Unhidden
<1>14. ht = Wl => vt \notin s1[Wl].wh
  BY <1>10, StoresAre
<1>15. vf # StoreRoot(hf)
  <2>1. CASE hf = Wl
    BY <1>1, <2>1, StoresAre
  <2>2. CASE hf # Wl
    <3> SUFFICES ASSUME vf = StoreRoot(hf) PROVE FALSE
      OBVIOUS
    <3>1. hf \in Kept /\ KeptRoot[hf] = vf
      BY <1>2, <2>2, StoresAre
    <3>2. S[hf].tree[vf] = Dir
      BY <1>2, <1>3 DEF HostTree
    <3>3. IsDirectory(S, vf)
      BY <1>1, <1>3, <3>2, DirectoryIs
    <3> QED BY <1>2, <3>1, <3>3, WithinReflexive DEF Homely
  <2> QED BY <2>1, <2>2
<1>16. IsDirectory(S, vf) => vf \notin s1[hf].deleted
  BY <1>2, <1>7, <1>15, <1>17 DEF Homely, IsDeleted
<1> QED BY <1>6, <1>8, <1>11, <1>12, <1>13, <1>14, <1>15, <1>16 DEF Sound

\* The host renames only where it can: what Movable asks for is there.
LEMMA RenameMovable ==
  ASSUME KeptOnTop, Inv, NEW vf \in Paths, NEW vt \in Paths, MayRename(vf, vt), Homely(vf, vt),
         NEW up, AfterCopyUp(up, vf), NEW s1, s1 = Prepare(up.s, vt),
         s1[Home[vf]].tree[vf] # Absent, Fits(s1, Home[vf], vf, vt),
         ~(s1[Home[vt]].tree[vt] # Absent /\ (IsDirectory(S, vf) # (s1[Home[vt]].tree[vt] = Dir))),
         ~(IsDirectory(S, vf) /\ HostBusy(s1, Home[vt], vt))
  PROVE  Movable(s1, Home[vf], vf, Home[vt], vt) /\ vt # StoreRoot(Home[vt])
<1> DEFINE hf == Home[vf]
           ht == Home[vt]
           onto == s1[ht].tree[vt]
           isDir == IsDirectory(S, vf)
<1>1. vf # Root /\ vt # Root /\ ~Within(vt, vf) /\ ~Within(vf, vt)
  BY DEF MayRename, Positive
<1>2. /\ hf \in Stores /\ ht \in Stores /\ Holds(hf, vf) /\ Holds(ht, vt)
      /\ vf \in VPath /\ vt \in VPath
  BY HomeBelongs, PathsAre DEF Belongs
<1>3. /\ Good(s1) /\ HostTree(s1)
      /\ vt # StoreRoot(ht) => s1[ht].tree[ParentVRel(vt)] = Dir
      /\ IF isDir THEN s1[hf].tree[vf] \in {Dir, Absent} ELSE s1[hf].tree[vf] # Dir
      /\ vf # StoreRoot(hf)
  BY RenameReady DEF Sound, Good
<1>4. onto # Absent => (isDir <=> onto = Dir)
  <2>1. isDir \in BOOLEAN
    BY DEF IsDirectory
  <2> QED BY <2>1
<1>5. isDir => hf = ht
  BY DEF Homely
<1>6. vt # StoreRoot(ht)
  <2> SUFFICES ASSUME vt = StoreRoot(ht) PROVE FALSE
    OBVIOUS
  <2>1. onto = Dir
    BY <1>2, <1>3 DEF HostTree
  <2>2. hf = ht
    BY <1>4, <1>5, <2>1, Distinct
  <2> QED BY <1>1, <1>2, <2>2 DEF Holds
<1>7. /\ vt \notin s1[ht].opq
      /\ \A p \in Paths : Within(p, vt) /\ p # vt =>
           s1[ht].tree[p] = Absent /\ p \notin s1[ht].wh /\ p \notin s1[ht].opq
  <2>1. CASE onto = Dir
    <3>1. ~HostBusy(s1, ht, vt)
      BY <1>4, <2>1, Distinct
    <3>2. vt \notin s1[ht].opq /\ \A c \in Children(vt) : s1[ht].tree[c] = Absent /\ c \notin s1[ht].wh
      BY <3>1 DEF HostBusy
    <3> QED BY <1>2, <1>3, <3>2, NothingInside
  <2>2. CASE onto # Dir
    <3>1. vt \notin s1[ht].opq
      BY <1>2, <1>3, <2>2 DEF HostTree
    <3> QED BY <1>2, <1>3, <2>2, <3>1, EmptyBelow
  <2> QED BY <2>1, <2>2
<1>8. ht = Wl => \A k \in Kept : /\ ~Within(vt, KeptRoot[k])
                                 /\ Within(KeptRoot[k], vt) => s1[hf].tree[vf] # Dir
  <2> SUFFICES ASSUME ht = Wl, NEW k \in Kept
               PROVE  ~Within(vt, KeptRoot[k]) /\ (Within(KeptRoot[k], vt) => s1[hf].tree[vf] # Dir)
    OBVIOUS
  <2>1. ~Within(vt, KeptRoot[k])
    BY HomeIs, StoresAre
  <2>2. isDir => ~Within(KeptRoot[k], vt)
    BY <1>2, <2>1, WithinReflexive DEF Homely
  <2> QED BY <1>3, <2>1, <2>2
<1> QED BY <1>1, <1>2, <1>3, <1>5, <1>6, <1>7, <1>8 DEF Movable

\* After the host's rename: what is left of the old name is hidden.
LEMMA RenameEnds ==
  ASSUME KeptOnTop, Inv, NEW vf \in Paths, NEW vt \in Paths, vf # Root, ~Within(vf, vt),
         NEW s1, Clear(s1, HidesIn(vf), vf), Unhidden(s1, vf),
         NEW s2 \in VfsState,
         \A g \in Stores : \A p \in Paths :
           ~Within(p, vf) /\ ~Within(p, vt) => s2[g].tree[p] = s1[g].tree[p],
         NEW bare, bare => \A p \in Paths : Within(p, vf) => s2[Wl].tree[p] = Absent,
         NEW t, Sound(bare, t), Unhidden(t, vf), \A g \in Stores : t[g].tree = s2[g].tree,
         NEW d \in [Inodes -> Contents], HideRest(t, d, vf)
  PROVE  Inv' /\ (bare => Bare(S)')
<1>1. HidesIn(vf) \in Stores /\ Wl \in Stores
  BY HidesInBelongs, StoresAre
<1>2. ASSUME NEW a \in Above[HidesIn(vf)][vf]
      PROVE  t[HidesIn(vf)].tree[a] \in {Dir, Absent}
  <2>1. a \in Paths /\ Within(vf, a) /\ a # vf /\ a \in VPath /\ vf \in VPath /\ vt \in VPath
    BY <1>1, AboveAre, PathsAre
  <2>2. ~Within(a, vf) /\ ~Within(a, vt)
    BY <2>1, WithinAntisymmetric, WithinTransitive
  <2>3. t[HidesIn(vf)].tree[a] = s1[HidesIn(vf)].tree[a]
    BY <1>1, <2>1, <2>2
  <2> QED BY <2>3 DEF Clear
<1>3. Clear(t, HidesIn(vf), vf)
  BY <1>2 DEF Clear
<1>4. bare => \A p \in Paths : Within(p, vf) => t[Wl].tree[p] = Absent
  BY <1>1
<1> QED BY <1>3, <1>4, HideRestSound

\* VfsRename once the source is writable.
LEMMA FinishRenameSound ==
  ASSUME KeptOnTop, Inv, NEW vf \in Paths, NEW vt \in Paths, MayRename(vf, vt), Homely(vf, vt),
         NEW up, AfterCopyUp(up, vf), NEW bare \in BOOLEAN,
         bare => /\ Bare(S)
                 /\ IsDirectory(S, vf) \/ up.s[Home[vf]].tree[vf] # up.s[Home[vt]].tree[vt],
         FinishRename(up.s, up.d, up.at, vf, vt)
  PROVE  Inv' /\ (bare => Bare(S)')
<1> DEFINE isDir == IsDirectory(S, vf)
           hf == Home[vf]
           ht == Home[vt]
           over == ht # Wl /\ IsDeleted(up.s, ht, vt)
           s1 == Prepare(up.s, vt)
           from == s1[hf].tree[vf]
           onto == s1[ht].tree[vt]
           s2 == IF from = onto /\ ~isDir THEN s1 ELSE HostRename(s1, hf, vf, ht, vt)
           s3 == IF isDir THEN KeptRenamePrefix(s2, vf, vt) ELSE s2
           clash == onto # Absent /\ (isDir # (onto = Dir))
           busy == isDir /\ HostBusy(s1, ht, vt)
           d == up.d
<1>1. /\ vf # Root /\ vt # Root /\ ~Within(vt, vf) /\ ~Within(vf, vt)
      /\ vf \in VPath /\ vt \in VPath /\ hf \in Stores /\ ht \in Stores
      /\ Holds(hf, vf) /\ Holds(ht, vt)
  BY HomeBelongs, PathsAre DEF MayRename, Positive, Belongs
<1>2. Sound(bare, up.s) /\ d \in [Inodes -> Contents] /\ up.at = hf
  BY DEF AfterCopyUp, Sound
<1>3. /\ Good(s1) /\ Masked(s1) /\ (bare => Bare(s1) /\ Unhidden(s1, vt))
      /\ Unhidden(s1, vf) /\ (ht = Wl => vt \notin s1[Wl].wh)
      /\ (bare => isDir \/ from # onto)
      /\ Clear(s1, HidesIn(vf), vf)
  BY RenameReady DEF Sound
<1>4. /\ IF isDir THEN from \in {Dir, Absent} ELSE from # Dir
      /\ isDir => vf \notin s1[hf].deleted
      /\ vf # StoreRoot(hf)
  BY RenameReady
<1>5. Sound(bare, s1)
  BY <1>3 DEF Sound
<1>6. s1 \in VfsState /\ open \in SUBSET Inodes /\ {"ok", "error"} \subseteq Codes /\ Wl \in Stores
  BY <1>3, StoresAre DEF Good, Inv, Codes
<1>7. \/ Stops("parent", up.s, d)
      \/ Stops("rename", s1, d)
      \/ \E code \in Codes : Reply(s1, open, d, code)
      \/ /\ from # Absent /\ ~clash /\ ~busy
         /\ Fits(s1, hf, vf, vt)
         /\ \/ Killed(s2, d)
            \/ \E r \in IF isDir /\ over THEN Opaque(s3, vt) ELSE {Outcome(s3, "ok")} :
                 \/ r.code # "ok" /\ Reply(r.s, open, d, r.code)
                 \/ /\ r.code = "ok"
                    /\ \/ Killed(r.s, d)
                       \/ \E s4 \in Settle(r.s, vt) :
                            HideRest(IF isDir THEN RenameMaskPrefix(s4, vf, vt) ELSE s4, d, vf)
  BY <1>2, <1>6 DEF FinishRename, ENOENT, EXDEV, ENOTDIR, EISDIR, ENOTEMPTY
<1>8. CASE Stops("parent", up.s, d)
  BY <1>2, <1>8, StopsSound
<1>9. CASE Stops("rename", s1, d)
  BY <1>2, <1>5, <1>9, StopsSound
<1>10. CASE \E code \in Codes : Reply(s1, open, d, code)
  BY <1>2, <1>5, <1>6, <1>10, ReplySound
<1>11. ASSUME from # Absent, ~clash, ~busy, Fits(s1, hf, vf, vt)
       PROVE  /\ Movable(s1, hf, vf, ht, vt) /\ vt # StoreRoot(ht)
              /\ Good(s2) /\ (bare => Bare(s2)) /\ Unhidden(s2, vf)
              /\ isDir => s2[ht].tree[vt] = from
              /\ \A g \in Stores : \A p \in Paths :
                   ~Within(p, vf) /\ ~Within(p, vt) => s2[g].tree[p] = s1[g].tree[p]
              /\ bare => \A p \in Paths : Within(p, vf) => s2[Wl].tree[p] = Absent
              /\ ~isDir => Masked(s2)
  <2>1. Movable(s1, hf, vf, ht, vt) /\ vt # StoreRoot(ht)
    <3>1. ~(onto # Absent /\ (isDir # (onto = Dir))) /\ ~(isDir /\ HostBusy(s1, ht, vt))
      BY <1>11
    <3> QED BY <1>11, <3>1, RenameMovable
  <2> DEFINE e == HostRename(s1, hf, vf, ht, vt)
  <2>2. /\ Good(e) /\ e[ht].tree[vt] = s1[hf].tree[vf]
        /\ \A g \in Stores : \A p \in Paths :
             ~Within(p, vf) /\ ~Within(p, vt) => e[g].tree[p] = s1[g].tree[p]
        /\ hf = Wl => \A p \in Paths : Within(p, vf) => e[Wl].tree[p] = Absent
        /\ Unhidden(s1, vf) => Unhidden(e, vf)
    BY <1>3, <2>1, HostRenameGood
  <2>3. bare => Bare(e)
    BY <1>3, <2>1, HostRenameBare
  <2>4. ~isDir => Masked(e)
    BY <1>3, <1>4, <2>1, FileMoved
  <2>5. s2 = e \/ (~isDir /\ ~bare /\ s2 = s1)
    BY <1>3
  <2>6. hf # Wl => \A p \in Paths : Within(p, vf) => e[Wl].tree[p] = Absent
    <3> SUFFICES ASSUME hf # Wl, NEW p \in Paths, Within(p, vf)
                 PROVE  e[Wl].tree[p] = Absent
      OBVIOUS
    <3>1. hf \in Kept /\ Holds(hf, p) /\ StoreRoot(hf) = KeptRoot[hf]
      <4>1. hf \in Kept /\ StoreRoot(hf) = KeptRoot[hf]
        BY <1>1, StoresAre
      <4>2. KeptRoot[hf] \in VPath /\ p \in VPath
        BY <4>1, KeptAre, PathsAre
      <4> QED BY <1>1, <4>1, <4>2, WithinTransitive DEF Holds
    <3>2. p # Root
      BY <1>1, PathsAre, WithinRoot
    <3> QED BY <2>2, <3>1, <3>2 DEF Good, Apart, Holds
  <2> HIDE DEF e
  <2>7. CASE s2 = e
    <3> HIDE DEF s2, s1
    <3> QED BY <1>3, <2>1, <2>2, <2>3, <2>4, <2>6, <2>7
  <2>8. CASE ~isDir /\ ~bare /\ s2 = s1
    <3> HIDE DEF s2, s1
    <3> QED BY <1>3, <2>1, <2>8
  <2> QED BY <2>5, <2>7, <2>8
<1>12. ASSUME NEW t, Good(s2), Sound(bare, t), Unhidden(t, vf), \A g \in Stores : t[g].tree = s2[g].tree,
              \A g \in Stores : \A p \in Paths :
                ~Within(p, vf) /\ ~Within(p, vt) => s2[g].tree[p] = s1[g].tree[p],
              bare => \A p \in Paths : Within(p, vf) => s2[Wl].tree[p] = Absent,
              HideRest(t, d, vf)
       PROVE  Inv' /\ (bare => Bare(S)')
  <2> HIDE DEF s1, s2, d
  <2>1. s2 \in VfsState
    BY <1>12 DEF Good
  <2> QED BY <1>1, <1>2, <1>3, <1>12, <2>1, RenameEnds
<1>13. CASE /\ from # Absent /\ ~clash /\ ~busy /\ Fits(s1, hf, vf, vt)
            /\ Killed(s2, d)
  <2> HIDE DEF s2
  <2> QED BY <1>2, <1>11, <1>13, KilledSound
<1>14. CASE /\ from # Absent /\ ~clash /\ ~busy /\ Fits(s1, hf, vf, vt) /\ ~isDir
            /\ \E r \in {Outcome(s2, "ok")} :
                 /\ r.code = "ok"
                 /\ \/ Killed(r.s, d)
                    \/ \E s4 \in Settle(r.s, vt) : HideRest(s4, d, vf)
  <2> HIDE DEF s2, s1, d, clash, busy
  <2>1. CASE Killed(s2, d)
    BY <1>2, <1>11, <1>14, <2>1, KilledSound
  <2>2. CASE \E s4 \in Settle(s2, vt) : HideRest(s4, d, vf)
    <3>1. PICK s4 \in Settle(s2, vt) : HideRest(s4, d, vf)
      BY <2>2
    <3>2. /\ Good(s4) /\ Masked(s4) /\ (bare => Bare(s4)) /\ Unhidden(s4, vf)
          /\ \A g \in Stores : s4[g].tree = s2[g].tree
      BY <1>11, <1>14, <3>1, SettleGood
    <3> QED BY <1>11, <1>12, <1>14, <3>1, <3>2 DEF Sound
  <2> QED BY <1>14, <2>1, <2>2 DEF Outcome
<1>15. ASSUME from # Absent, ~clash, ~busy, Fits(s1, hf, vf, vt), isDir
       PROVE  LET t == MovedMasks(s2, hf, vf, vt)
              IN  /\ hf = ht /\ Sound(bare, t) /\ Unhidden(t, vf) /\ t[ht].tree[vt] = Dir
                  /\ \A g \in Stores : t[g].tree = s2[g].tree
  <2> DEFINE t == MovedMasks(s2, hf, vf, vt)
             e == HostRename(s1, hf, vf, hf, vt)
  <2>1. hf = ht /\ from = Dir
    BY <1>4, <1>15 DEF Homely
  <2>2. s2 = e
    BY <1>15, <2>1
  <2>3. Movable(s1, hf, vf, hf, vt) /\ vt # StoreRoot(hf)
    BY <1>11, <1>15, <2>1
  <2>4. \A g \in Stores : e[g].deleted = s1[g].deleted /\ e[g].opaque = s1[g].opaque
    BY <1>3, <2>3, HostRenameGood
  <2>5. \A p \in e[hf].deleted \cup e[hf].opaque : Within(p, vf) => Rebase(p, vf, vt) \in Paths
    <3> SUFFICES ASSUME NEW p \in e[hf].deleted \cup e[hf].opaque, Within(p, vf)
                 PROVE  Rebase(p, vf, vt) \in Paths
      OBVIOUS
    <3>1. p \in UNION {s1[g].deleted \cup s1[g].opaque : g \in {hf, Wl}}
      BY <1>1, <2>4
    <3> QED BY <1>15, <3>1 DEF Fits
  <2>6. hf = Wl => \A k \in Kept : ~Within(vt, KeptRoot[k]) /\ ~Within(KeptRoot[k], vt)
    <3> SUFFICES ASSUME hf = Wl, NEW k \in Kept
                 PROVE  ~Within(vt, KeptRoot[k]) /\ ~Within(KeptRoot[k], vt)
      OBVIOUS
    <3>1. ~Within(vt, KeptRoot[k])
      BY <2>1, HomeIs, StoresAre
    <3> QED BY <1>1, <1>15, <3>1, WithinReflexive DEF Homely
  <2>7. Landing(s2, hf, vf, vt)
    BY <1>1, <2>1, <2>2, <2>3, <2>5, <2>6 DEF Landing
  <2>8. /\ Good(s2) /\ (bare => Bare(s2)) /\ Unhidden(s2, vf) /\ s2[ht].tree[vt] = from
    BY <1>11, <1>15
  <2> HIDE DEF s2
  <2>9. /\ Good(t) /\ (Bare(s2) => Bare(t)) /\ \A w : Unhidden(s2, w) => Unhidden(t, w)
        /\ \A g \in Stores : /\ t[g].tree = s2[g].tree
                             /\ t[g].wh = s2[g].wh /\ t[g].opq = s2[g].opq
                             /\ g # hf => t[g] = s2[g]
        /\ t[hf].deleted = RewritePrefix(s2[hf].deleted, vf, vt)
        /\ t[hf].opaque = RewritePrefix(s2[hf].opaque, vf, vt)
    BY <2>7, <2>8, MovedMasksGood
  <2>10. Masked(t)
    <3> HIDE DEF t, s1
    <3>1. Good(s1) /\ Masked(s1) /\ vf \notin s1[hf].deleted
      BY <1>3, <1>4, <1>15
    <3>2. \A f : /\ \A g \in Stores : f[g].wh = e[g].wh /\ f[g].opq = e[g].opq /\ (g # hf => f[g] = e[g])
                 /\ f[hf].deleted = RewritePrefix(s1[hf].deleted, vf, vt)
                 /\ f[hf].opaque = RewritePrefix(s1[hf].opaque, vf, vt)
                 => Masked(f)
      BY <2>3, <3>1, MasksFollow
    <3>3. \A g \in Stores : t[g].wh = e[g].wh /\ t[g].opq = e[g].opq /\ (g # hf => t[g] = e[g])
      BY <2>2, <2>9
    <3>4. /\ t[hf].deleted = RewritePrefix(s1[hf].deleted, vf, vt)
          /\ t[hf].opaque = RewritePrefix(s1[hf].opaque, vf, vt)
      BY <1>1, <2>2, <2>4, <2>9
    <3> QED BY <3>2, <3>3, <3>4
  <2> HIDE DEF t
  <2>11. Sound(bare, t)
    BY <2>8, <2>9, <2>10 DEF Sound
  <2>12. Unhidden(t, vf) /\ t[ht].tree[vt] = Dir /\ \A g \in Stores : t[g].tree = s2[g].tree
    BY <1>1, <2>1, <2>8, <2>9
  <2> HIDE DEF ht
  <2> QED BY <2>1, <2>11, <2>12 DEF t
<1>16. CASE /\ from # Absent /\ ~clash /\ ~busy /\ Fits(s1, hf, vf, vt) /\ isDir /\ hf = Wl
            /\ \E r \in {Outcome(s2, "ok")} :
                 /\ r.code = "ok"
                 /\ \/ Killed(r.s, d)
                    \/ HideRest(RenameMaskPrefix(r.s, vf, vt), d, vf)
  <2> DEFINE t == MovedMasks(s2, hf, vf, vt)
  <2>1. t = RenameMaskPrefix(s2, vf, vt)
    BY <1>16 DEF MovedMasks, RenameMaskPrefix
  <2>2. Sound(bare, t) /\ Unhidden(t, vf) /\ \A g \in Stores : t[g].tree = s2[g].tree
    BY <1>15, <1>16
  <2> HIDE DEF s2, s1, d, clash, busy, t
  <2>3. CASE Killed(s2, d)
    BY <1>2, <1>11, <1>16, <2>3, KilledSound
  <2>4. CASE HideRest(t, d, vf)
    BY <1>11, <1>12, <1>16, <2>2, <2>4
  <2> QED BY <1>16, <2>1, <2>3, <2>4 DEF Outcome
<1>17. CASE /\ from # Absent /\ ~clash /\ ~busy /\ Fits(s1, hf, vf, vt) /\ isDir /\ hf # Wl
            /\ \E r \in IF over THEN Opaque(MovedMasks(s2, hf, vf, vt), vt)
                        ELSE {Outcome(MovedMasks(s2, hf, vf, vt), "ok")} :
                 \/ r.code # "ok" /\ Reply(r.s, open, d, r.code)
                 \/ /\ r.code = "ok"
                    /\ \/ Killed(r.s, d)
                       \/ \E s4 \in Settle(r.s, vt) : HideRest(RenameMaskPrefix(s4, vf, vt), d, vf)
  <2> DEFINE t == MovedMasks(s2, hf, vf, vt)
  <2>1. /\ hf = ht /\ Sound(bare, t) /\ Unhidden(t, vf) /\ t[ht].tree[vt] = Dir
        /\ \A g \in Stores : t[g].tree = s2[g].tree
    BY <1>15, <1>17
  <2> HIDE DEF s2, s1, d, clash, busy, t
  <2>2. PICK r \in IF over THEN Opaque(t, vt) ELSE {Outcome(t, "ok")} :
                 \/ r.code # "ok" /\ Reply(r.s, open, d, r.code)
                 \/ /\ r.code = "ok"
                    /\ \/ Killed(r.s, d)
                       \/ \E s4 \in Settle(r.s, vt) : HideRest(RenameMaskPrefix(s4, vf, vt), d, vf)
    BY <1>17 DEF t
  <2>3. /\ Good(r.s) /\ Masked(r.s) /\ (bare => Bare(r.s)) /\ r.code \in Codes /\ Unhidden(r.s, vf)
        /\ \A g \in Stores : r.s[g].tree = s2[g].tree
    <3>1. CASE r \in Opaque(t, vt)
      <4>1. /\ Good(r.s) /\ (Masked(t) => Masked(r.s)) /\ (Bare(t) => Bare(r.s)) /\ r.code \in Codes
            /\ \A g \in Stores : r.s[g].tree = t[g].tree
            /\ \A w : Unhidden(t, w) => Unhidden(r.s, w)
        BY <2>1, <3>1, OpaqueGood DEF Sound
      <4> QED BY <2>1, <4>1 DEF Sound
    <3>2. CASE r \in {Outcome(t, "ok")}
      <4>1. r.s = t /\ r.code = "ok"
        BY <3>2 DEF Outcome
      <4> QED BY <1>6, <2>1, <4>1 DEF Sound
    <3> QED BY <2>2, <3>1, <3>2
  <2>4. CASE r.code # "ok" /\ Reply(r.s, open, d, r.code)
    BY <1>2, <1>6, <2>3, <2>4, ReplySound DEF Sound
  <2>5. CASE Killed(r.s, d)
    BY <1>2, <2>3, <2>5, KilledSound
  <2>6. CASE \E s4 \in Settle(r.s, vt) : HideRest(RenameMaskPrefix(s4, vf, vt), d, vf)
    <3>1. PICK s4 \in Settle(r.s, vt) : HideRest(RenameMaskPrefix(s4, vf, vt), d, vf)
      BY <2>6
    <3>2. /\ Good(s4) /\ Masked(s4) /\ (bare => Bare(s4)) /\ Unhidden(s4, vf)
          /\ \A g \in Stores : s4[g].tree = r.s[g].tree
      BY <2>3, <3>1, SettleGood
    <3>3. RenameMaskPrefix(s4, vf, vt) = s4
      <4>1. hf \in Kept
        BY <1>1, <1>17, StoresAre
      <4> QED BY <1>1, <1>4, <3>2, <4>1, WritelayerStays
    <3>4. \A g \in Stores : s4[g].tree = s2[g].tree
      BY <2>3, <3>2
    <3> QED BY <1>11, <1>12, <1>17, <3>1, <3>2, <3>3, <3>4 DEF Sound
  <2> QED BY <2>2, <2>4, <2>5, <2>6
<1>18. CASE /\ from # Absent /\ ~clash /\ ~busy /\ Fits(s1, hf, vf, vt)
            /\ \E r \in IF isDir /\ over THEN Opaque(s3, vt) ELSE {Outcome(s3, "ok")} :
                 \/ r.code # "ok" /\ Reply(r.s, open, d, r.code)
                 \/ /\ r.code = "ok"
                    /\ \/ Killed(r.s, d)
                       \/ \E s4 \in Settle(r.s, vt) :
                            HideRest(IF isDir THEN RenameMaskPrefix(s4, vf, vt) ELSE s4, d, vf)
  <2>1. isDir => hf = ht
    BY DEF Homely
  <2>2. CASE ~isDir
    <3>1. s3 = s2
      BY <2>2
    <3>2. \A r \in {Outcome(s2, "ok")} : r.code = "ok"
      BY DEF Outcome
    <3> HIDE DEF s1, s2, s3, d, over, clash, busy
    <3> QED BY <1>14, <1>18, <2>2, <3>1, <3>2
  <2>3. CASE isDir /\ hf = Wl
    <3>1. s3 = s2 /\ ~over
      BY <2>1, <2>3 DEF KeptRenamePrefix
    <3>2. \A r \in {Outcome(s2, "ok")} : r.code = "ok"
      BY DEF Outcome
    <3>3. \A r : Settle(r.s, vt) = {r.s}
      BY <2>1, <2>3 DEF Settle
    <3> HIDE DEF s1, s2, s3, d, over, clash, busy
    <3> QED BY <1>16, <1>18, <2>3, <3>1, <3>2, <3>3
  <2>4. CASE isDir /\ hf # Wl
    <3>1. s3 = MovedMasks(s2, hf, vf, vt)
      BY <2>1, <2>4 DEF KeptRenamePrefix, MovedMasks
    <3> HIDE DEF s1, s2, s3, d, over, clash, busy
    <3> QED BY <1>17, <1>18, <2>4, <3>1
  <2> QED BY <2>2, <2>3, <2>4
<1> HIDE DEF s1, s2, s3, d, over, clash, busy, from, onto
<1> QED BY <1>7, <1>8, <1>9, <1>10, <1>13, <1>18


\* A file that is copied up is a new host file: no name that is there has it.
LEMMA SourceIsNew ==
  ASSUME KeptOnTop, Inv, NEW vf \in Paths, NEW vt \in Paths, MayRename(vf, vt), ~IsDirectory(S, vf),
         LET host == S[Home[vf]].tree[vf]
         IN  host = Absent \/ host # S[Home[vt]].tree[vt],
         NEW up \in CopiedUp({vf}, vf)
  PROVE  up.s[Home[vf]].tree[vf] # up.s[Home[vt]].tree[vt]
<1> DEFINE hf == Home[vf]
           ht == Home[vt]
<1>0. PICK P : P = {vf}
  OBVIOUS
<1>1. /\ Reachable(S, vf) /\ Exists(S, vf) /\ vf # vt /\ hf \in Stores /\ ht \in Stores
      /\ P \subseteq Paths /\ \A p \in P : Reachable(S, p)
  BY <1>0, HomeBelongs, PathsAre, WithinReflexive DEF MayRename, Positive
<1>2. Good(S) /\ DOMAIN S = Stores
  BY DEF Inv, Good, VfsState
<1>3. PICK ino \in Allocations(NewFiles(S, P)) : up.s = CopyUp(S, P, ino)
  BY <1>0 DEF CopiedUp
<1>4. /\ ino \in [NewFiles(S, P) -> FreeInodes] /\ ino \in [NewFiles(S, P) -> Inodes]
      /\ DOMAIN ino \subseteq {vf} /\ vf \in P
  BY <1>0, <1>3, FreeInodesAre DEF Allocations, NewFiles
<1> DEFINE e == CopyUp(S, P, ino)
<1>5. \A h \in Stores : \A p \in Paths :
        \/ e[h].tree[p] = S[h].tree[p]
        \/ /\ S[h].tree[p] = Absent /\ Home[p] = h /\ p \in DOMAIN ino
           /\ e[h].tree[p] = ino[p]
        \/ S[h].tree[p] = Absent /\ e[h].tree[p] = Dir /\ IsDirectory(S, p)
  BY <1>1, <1>2, <1>4, CopyUpIs
<1>6. Resolve(S, vf).kind = "Lower" => e[hf].tree[vf] # Absent
  BY <1>1, <1>2, <1>4, CopyUpIs
<1>7. e[hf].tree[vf] # Dir
  BY <1>1, <1>2, <1>4, CopyUpGood
<1>8. e[ht].tree[vt] = S[ht].tree[vt] \/ e[ht].tree[vt] = Dir
  BY <1>1, <1>4, <1>5
<1> HIDE DEF e
<1>9. CASE Resolve(S, vf).kind = "Lower"
  <2>1. S[hf].tree[vf] = Absent
    BY <1>2, <1>9, LookupIs
  <2>2. vf \in DOMAIN ino /\ e[hf].tree[vf] = ino[vf]
    BY <1>1, <1>5, <1>6, <1>7, <1>9, <2>1
  <2>3. ino[vf] \in Inodes /\ ino[vf] \notin Named(S)
    BY <1>4, <2>2 DEF FreeInodes
  <2>4. S[ht].tree[vt] # ino[vf]
    BY <1>1, <2>3 DEF Named
  <2> QED BY <1>3, <1>7, <1>8, <2>2, <2>4 DEF e
<1>10. CASE Resolve(S, vf).kind # "Lower"
  <2>1. S[hf].tree[vf] # Absent
    BY <1>1, <1>2, <1>10, LookupIs DEF Exists
  <2>2. e[hf].tree[vf] = S[hf].tree[vf] /\ S[hf].tree[vf] # S[ht].tree[vt]
    BY <1>1, <1>5, <2>1
  <2> QED BY <1>3, <1>7, <1>8, <2>2 DEF e
<1> QED BY <1>9, <1>10

\* VfsRename, of a file or of a directory that stays within its store.
LEMMA RenameSound ==
  ASSUME KeptOnTop, Inv, NEW vf \in Paths, NEW vt \in Paths, Homely(vf, vt), NEW bare \in BOOLEAN,
         bare => /\ Bare(S)
                 /\ \/ IsDirectory(S, vf) \/ S[Home[vf]].tree[vf] = Absent
                    \/ S[Home[vf]].tree[vf] # S[Home[vt]].tree[vt],
         VfsRename(vf, vt)
  PROVE  Inv' /\ (bare => Bare(S)')
<1> DEFINE visits == IF IsDirectory(S, vf) THEN DeepWalk(S, vf) ELSE {vf}
<1>1. MayRename(vf, vt) /\ vf # Root /\ Reachable(S, vf) /\ Exists(S, vf)
  BY DEF VfsRename, MayRename, Positive
<1>2. \A p \in DeepWalk(S, vf) : p \in Paths /\ Reachable(S, p)
  BY <1>1, DeepWalkReachable
<1>3. visits \subseteq Paths /\ \A p \in visits : Reachable(S, p)
  BY <1>1, <1>2
<1>4. ASSUME NEW up \in CopiedUp(visits, vf), FinishRename(up.s, up.d, up.at, vf, vt)
      PROVE  Inv' /\ (bare => Bare(S)')
  <2>1. AfterCopyUp(up, vf)
    BY <1>3, <1>4, CopiedUpSound
  <2>2. bare => IsDirectory(S, vf) \/ up.s[Home[vf]].tree[vf] # up.s[Home[vt]].tree[vt]
    BY <1>1, <1>4, SourceIsNew
  <2> QED BY <1>1, <1>4, <2>1, <2>2, FinishRenameSound
<1>5. ASSUME NEW stop, NEW P \in PartialWalks(S, vf, stop), NEW up \in CopiedUp(P, vf),
             Reply(up.s, open, up.d, EIO) \/ Stops("copy", up.s, up.d)
      PROVE  Inv' /\ (bare => Bare(S)')
  <2>1. P \subseteq Paths /\ \A p \in P : Reachable(S, p)
    BY <1>2 DEF PartialWalks
  <2>2. AfterCopyUp(up, vf)
    BY <1>5, <2>1, CopiedUpSound
  <2>3. Sound(bare, up.s) /\ up.d \in [Inodes -> Contents] /\ open \in SUBSET Inodes /\ EIO \in Codes
    BY <2>2 DEF AfterCopyUp, Sound, Inv, EIO, Codes
  <2> QED BY <1>5, <2>3, ReplySound, StopsSound
<1>6. CASE CopyUpFails(vf)
  BY <1>1, <1>6, CopyUpFailsSound
<1>7. \/ \E up \in CopiedUp(visits, vf) : FinishRename(up.s, up.d, up.at, vf, vt)
      \/ \E stop : \E P \in PartialWalks(S, vf, stop) : \E up \in CopiedUp(P, vf) :
           Reply(up.s, open, up.d, EIO) \/ Stops("copy", up.s, up.d)
      \/ CopyUpFails(vf)
  BY DEF VfsRename, EIO, ENOENT
<1> QED BY <1>4, <1>5, <1>6, <1>7

(***************************************************************************)
(* The invariant.                                                          *)
(***************************************************************************)
\* A first mount finds empty stores, and no mask.
LEMMA InitSound ==
  ASSUME KeptOnTop, Init
  PROVE  Inv /\ Bare(S)
<1>1. \A h \in Stores : S[h] = EmptyStore(h)
  BY DEF Init
<1>2. S \in VfsState
  BY <1>1 DEF Init, VfsState, EmptyStore
<1>3. \A h \in Stores : /\ S[h].wh = {} /\ S[h].opq = {} /\ S[h].deleted = {} /\ S[h].opaque = {}
                        /\ \A p \in Paths : S[h].tree[p] = IF p = StoreRoot(h) THEN Dir ELSE Absent
  <2> TAKE h \in Stores
  <2>1. S[h] = EmptyStore(h)
    BY <1>1
  <2> QED BY <2>1 DEF EmptyStore
<1>4. HostTree(S)
  BY <1>3, StoresAre, Distinct DEF HostTree
<1>5. Apart(S)
  BY <1>3, StoresAre DEF Apart
<1>6. Masked(S) /\ Bare(S)
  BY <1>3, StoresAre DEF Masked, Bare
<1>7. data \in [Inodes -> Contents] /\ open \subseteq Inodes /\ rc \in Codes
  BY Distinct DEF Init, Codes
<1> QED BY <1>2, <1>4, <1>5, <1>6, <1>7 DEF Inv, Good

\* A step that leaves everything as it is.
LEMMA StutterSound ==
  ASSUME Inv, UNCHANGED vars
  PROVE  Inv' /\ (Bare(S) => Bare(S)')
<1>1. S' = S /\ data' = data /\ open' = open /\ rc' = rc
  BY DEF vars
<1> QED BY <1>1 DEF Inv

\* Every operation but a rename keeps the invariant; a link also keeps the
\* names below markers free when the server is not killed in the middle of it.
LEMMA StepSound ==
  ASSUME KeptOnTop, Inv, NameStep \/ DataStep \/ LinkStep \/ SessionStep
  PROVE  Inv' /\ (Bare(S) /\ "kill" \notin HostFaults => Bare(S)')
<1>1. CASE NameStep
  BY <1>1, CreateSound, MkdirSound, SymlinkSound, UnlinkSound, RmdirSound DEF NameStep
<1>2. CASE \E v \in Paths :
             (\E trunc \in BOOLEAN : VfsOpen(v, trunc)) \/ VfsTruncate(v) \/ VfsChmod(v)
  BY <1>2, OpenSound, TruncateSound, ChmodSound
<1>3. CASE \E i \in Inodes : VfsRelease(i) \/ \E c \in Payloads : VfsWrite(i, c)
  BY <1>3, SessionSound
<1>4. CASE LinkStep
  BY <1>4, LinkSound DEF LinkStep
<1>5. CASE SessionStep
  BY <1>5, SessionSound
<1> QED BY <1>1, <1>2, <1>3, <1>4, <1>5 DEF DataStep

\* A tame rename keeps directories within their stores, and no file moves onto
\* a hard link of itself.
LEMMA TameIsHomely ==
  ASSUME KeptOnTop, Inv, NEW vf \in Paths, NEW vt \in Paths, TameRename(vf, vt)
  PROVE  /\ Homely(vf, vt)
         /\ \/ IsDirectory(S, vf) \/ S[Home[vf]].tree[vf] = Absent
            \/ S[Home[vf]].tree[vf] # S[Home[vt]].tree[vt]
<1>1. CASE IsDirectory(S, vf)
  <2>1. /\ Home[vf] = Home[vt] /\ \A k \in Kept : ~Within(KeptRoot[k], vf)
        /\ ~IsDeleted(S, Home[vf], vf) /\ (LowerFree(vt) \/ Home[vt] # Wl)
    BY <1>1 DEF TameRename
  <2>2. ASSUME NEW k \in Kept, Within(KeptRoot[k], vt) PROVE KeptRoot[k] = vt
    <3>1. KeptRoot[k] \in Paths
      BY KeptAre
    <3>2. CASE LowerFree(vt)
      BY <2>2, <3>1, <3>2 DEF LowerFree
    <3>3. CASE Home[vt] # Wl
      BY <2>2, <3>3, KeptApart
    <3> QED BY <2>1, <3>2, <3>3
  <2> QED BY <1>1, <2>1, <2>2 DEF Homely
<1>2. CASE ~IsDirectory(S, vf)
  <2>1. WriteStore(vf) = Home[vf]
    BY LookupIs DEF WriteStore, Inv
  <2>2. \/ S[WriteStore(vf)].tree[vf] = Absent
        \/ S[WriteStore(vf)].tree[vf] # S[Home[vt]].tree[vt]
    BY <1>2 DEF TameRename
  <2>3. Homely(vf, vt)
    BY <1>2 DEF Homely
  <2> HIDE DEF Homely
  <2> QED BY <2>1, <2>2, <2>3
<1> QED BY <1>1, <1>2

\* A rename keeps the invariant: every tame one, and any one at all where no
\* folder is kept.
LEMMA RenameStepSound ==
  ASSUME KeptOnTop, Inv, NEW vf \in Paths, NEW vt \in Paths, VfsRename(vf, vt),
         Kept = {} \/ TameRename(vf, vt)
  PROVE  Inv' /\ (Bare(S) /\ TameRename(vf, vt) => Bare(S)')
<1>1. CASE TameRename(vf, vt)
  <2>1. PICK bare \in BOOLEAN : bare <=> Bare(S)
    OBVIOUS
  <2>2. Homely(vf, vt)
    BY <1>1, TameIsHomely
  <2>3. \/ IsDirectory(S, vf) \/ S[Home[vf]].tree[vf] = Absent
        \/ S[Home[vf]].tree[vf] # S[Home[vt]].tree[vt]
    BY <1>1, TameIsHomely
  <2> QED BY <2>1, <2>2, <2>3, RenameSound
<1>2. CASE Kept = {} /\ ~TameRename(vf, vt)
  <2>1. Homely(vf, vt)
    <3> SUFFICES ASSUME IsDirectory(S, vf)
                 PROVE  Home[vf] = Home[vt] /\ ~IsDeleted(S, Home[vf], vf)
      BY <1>2 DEF Homely
    <3>1. Home[vf] = Wl /\ Home[vt] = Wl
      BY <1>2, HomeIs
    <3> QED BY <3>1, DirectoryIs DEF Inv
  <2>2. FALSE \in BOOLEAN
    OBVIOUS
  <2>3. Inv'
    BY <2>1, <2>2, RenameSound
  <2> QED BY <1>2, <2>3
<1> QED BY <1>1, <1>2

\* The invariant is kept for as long as no rename goes out of its bounds.
LEMMA TameAlways ==
  ASSUME KeptOnTop
  PROVE  TameSpec => []Inv
<1>1. Init => Inv
  BY InitSound
<1>2. Inv /\ [TameNext]_vars => Inv'
  <2> SUFFICES ASSUME Inv, [TameNext]_vars PROVE Inv'
    OBVIOUS
  <2>1. CASE \E vf, vt \in Paths : TameRename(vf, vt)
    BY <2>1, RenameStepSound DEF TameRename
  <2>2. CASE NameStep \/ DataStep \/ LinkStep \/ SessionStep
    BY <2>2, StepSound
  <2>3. CASE UNCHANGED vars
    BY <2>3, StutterSound
  <2> QED BY <2>1, <2>2, <2>3 DEF TameNext
<1> QED BY <1>1, <1>2, PTL DEF TameSpec

\* Where no folder is kept, every rename may be made.
LEMMA UnkeptAlways ==
  ASSUME Kept = {}
  PROVE  Spec => []Inv
<1>0. KeptOnTop
  BY DEF KeptOnTop
<1>1. Init => Inv
  BY <1>0, InitSound
<1>2. Inv /\ [Next]_vars => Inv'
  <2> SUFFICES ASSUME Inv, [Next]_vars PROVE Inv'
    OBVIOUS
  <2>1. CASE RenameStep
    BY <1>0, <2>1, RenameStepSound DEF RenameStep
  <2>2. CASE NameStep \/ DataStep \/ LinkStep \/ SessionStep
    BY <1>0, <2>2, StepSound
  <2>3. CASE UNCHANGED vars
    BY <2>3, StutterSound
  <2> QED BY <2>1, <2>2, <2>3 DEF Next
<1> QED BY <1>1, <1>2, PTL DEF Spec

\* The invariant, and the names below markers free: without kills.
LEMMA BareAlways ==
  ASSUME KeptOnTop, "kill" \notin HostFaults
  PROVE  TameSpec => [](Inv /\ Bare(S))
<1>1. Init => Inv /\ Bare(S)
  BY InitSound
<1>2. (Inv /\ Bare(S)) /\ [TameNext]_vars => (Inv /\ Bare(S))'
  <2> SUFFICES ASSUME Inv, Bare(S), [TameNext]_vars PROVE Inv' /\ Bare(S)'
    OBVIOUS
  <2>1. CASE \E vf, vt \in Paths : TameRename(vf, vt)
    BY <2>1, RenameStepSound DEF TameRename
  <2>2. CASE NameStep \/ DataStep \/ LinkStep \/ SessionStep
    BY <2>2, StepSound
  <2>3. CASE UNCHANGED vars
    BY <2>3, StutterSound
  <2> QED BY <2>1, <2>2, <2>3 DEF TameNext
<1> QED BY <1>1, <1>2, PTL DEF TameSpec

\* What the invariant says of the state.
LEMMA InvMeans ==
  ASSUME Inv
  PROVE  /\ TypeOK /\ HostTreeOK /\ MarkersAreMasked
         /\ "marker" \notin HostFaults => MasksMirrorMarkers
<1>1. Good(S) /\ Masked(S) /\ S \in VfsState
  BY DEF Inv, Good
<1>2. TypeOK
  BY <1>1 DEF TypeOK, Inv
<1>3. HostTreeOK
  BY <1>1 DEF Good, HostTree, HostTreeOK
<1> DEFINE e == SeedMasks(S)
<1>4. \A h \in Stores : /\ e[h].tree = S[h].tree
                        /\ e[h].wh = S[h].wh /\ e[h].opq = S[h].opq
                        /\ e[h].deleted = S[h].wh /\ e[h].opaque = S[h].opq
  BY <1>1, SeedMasksIs
<1>5. e \in VfsState
  BY <1>1, SeedMasksIs DEF Good
<1> HIDE DEF e
<1>6. MarkersAreMasked
  BY <1>1, <1>4 DEF Masked, MarkersAreMasked, e
<1>7. ASSUME "marker" \notin HostFaults PROVE S = e
  <2>1. \A h \in Stores : S[h] = e[h]
    <3> TAKE h \in Stores
    <3>1. /\ e[h].tree = S[h].tree /\ e[h].wh = S[h].wh /\ e[h].opq = S[h].opq
          /\ e[h].deleted = S[h].deleted /\ e[h].opaque = S[h].opaque
      BY <1>1, <1>4, <1>7 DEF Masked
    <3> QED BY <1>1, <1>5, <3>1 DEF VfsState
  <2> QED BY <1>1, <1>5, <2>1 DEF VfsState
<1> QED BY <1>2, <1>3, <1>6, <1>7 DEF MasksMirrorMarkers, e

(***************************************************************************)
(* The theorems.  Kept folders lie on top of the layers and apart from one *)
(* another (KeptOnTop), and directories stay within their stores           *)
(* (TameSpec); or no folder is kept, and every operation may be made.      *)
(***************************************************************************)
\* Whatever the host does, a mask never names what cannot be, and no host file
\* holds anything but a content: overlay.cpp, vfsops.cpp.
THEOREM TypeCorrect ==
  ASSUME KeptOnTop
  PROVE  TameSpec => []TypeOK
<1>1. Inv => TypeOK
  BY InvMeans
<1> QED BY <1>1, TameAlways, PTL

\* Whatever the host does, and wherever the server is killed, every store stays
\* a tree whose markers lie in directories: overlay.cpp, vfsops.cpp.
THEOREM TreeCorrect ==
  ASSUME KeptOnTop
  PROVE  TameSpec => []HostTreeOK
<1>1. Inv => HostTreeOK
  BY InvMeans
<1> QED BY <1>1, TameAlways, PTL

\* Whatever the host does, and wherever the server is killed, a marker on disk
\* has its mask in memory: overlay.cpp.
THEOREM MarkersCorrect ==
  ASSUME KeptOnTop
  PROVE  TameSpec => []MarkersAreMasked
<1>1. Inv => MarkersAreMasked
  BY InvMeans
<1> QED BY <1>1, TameAlways, PTL

\* As long as markers can be written, a remount brings back exactly the masks
\* that are there: overlay.h, every runtime mutation updates both.
THEOREM MirrorCorrect ==
  ASSUME KeptOnTop, "marker" \notin HostFaults
  PROVE  TameSpec => []MasksMirrorMarkers
<1>1. Inv => MasksMirrorMarkers
  BY InvMeans
<1> QED BY <1>1, TameAlways, PTL

\* As long as markers can be written and the server is not killed between a
\* link and the removal of its marker, the writelayer has no copy at or below
\* what it hides: vfsops.cpp removes or moves its own copy first.
THEOREM WhiteoutCorrect ==
  ASSUME KeptOnTop, "marker" \notin HostFaults, "kill" \notin HostFaults
  PROVE  TameSpec => []WhiteoutHasNoCopy
<1>1. Inv /\ Bare(S) => WhiteoutHasNoCopy
  BY StoresAre DEF Inv, Masked, Bare, WhiteoutHasNoCopy
<1> QED BY <1>1, BareAlways, PTL

\* The same for all operations where no folder is kept: types.
THEOREM UnkeptTypeCorrect ==
  ASSUME Kept = {}
  PROVE  Spec => []TypeOK
<1>1. Inv => TypeOK
  BY InvMeans
<1> QED BY <1>1, UnkeptAlways, PTL

\* The writelayer stays a tree, whatever directory is renamed onto whatever.
THEOREM UnkeptTreeCorrect ==
  ASSUME Kept = {}
  PROVE  Spec => []HostTreeOK
<1>1. Inv => HostTreeOK
  BY InvMeans
<1> QED BY <1>1, UnkeptAlways, PTL

\* Its markers are masked, whatever directory is renamed onto whatever.
THEOREM UnkeptMarkersCorrect ==
  ASSUME Kept = {}
  PROVE  Spec => []MarkersAreMasked
<1>1. Inv => MarkersAreMasked
  BY InvMeans
<1> QED BY <1>1, UnkeptAlways, PTL

\* Its masks come back by a remount, whatever directory is renamed onto
\* whatever, as long as markers can be written.
THEOREM UnkeptMirrorCorrect ==
  ASSUME Kept = {}, "marker" \notin HostFaults
  PROVE  Spec => []MasksMirrorMarkers
<1>1. Inv => MasksMirrorMarkers
  BY InvMeans
<1> QED BY <1>1, UnkeptAlways, PTL

=============================================================================
