-------------------------- MODULE OverlayViewProofs --------------------------
(***************************************************************************)
(* What programs see: deletions delete, failures take nothing away, every  *)
(* operation is the one of an ordinary tree, a kill reaches what the       *)
(* operation in flight was working on only, and a new session finds in the *)
(* kept folders what the last one left.  The invariant is that of          *)
(* OverlayProofs; the last takes one of its own (Durable).                 *)
(***************************************************************************)
EXTENDS OverlayProofs

(***************************************************************************)
(* Deletions.                                                              *)
(***************************************************************************)
\* A path that does not exist is not served.
LEMMA MissingIsAbsent ==
  ASSUME KeptOnTop, NEW s, Good(s), NEW d, NEW v \in Paths, ~Exists(s, v)
  PROVE  Serves(s, d, v) = Absent
<1>1. Resolve(s, v).entry = Absent
  BY LookupIs DEF Exists
<1> QED BY <1>1, Distinct DEF Serves, Content

\* A path hidden by its own name, with nothing of its own there, is missing.
LEMMA HiddenIsMissing ==
  ASSUME KeptOnTop, NEW s, Good(s), NEW v \in Paths, v # Root,
         \/ v \in s[Wl].deleted
         \/ /\ Home[v] # Wl /\ v # StoreRoot(Home[v])
            /\ v \in s[Home[v]].deleted /\ s[Home[v]].tree[v] = Absent
  PROVE  ~Exists(s, v)
<1>1. CASE v \in s[Wl].deleted
  BY <1>1, LookupIs, StoresAre DEF Exists, IsDeleted
<1>2. CASE /\ Home[v] # Wl /\ v # StoreRoot(Home[v])
           /\ v \in s[Home[v]].deleted /\ s[Home[v]].tree[v] = Absent
  <2>1. KeptMasked(s, Home[v], v)
    BY <1>2 DEF KeptMasked, IsDeleted
  <2> QED BY <1>2, <2>1, LookupIs DEF Exists
<1> QED BY <1>1, <1>2

\* Once the rest of a name is hidden, and the handler returns success, it is gone.
LEMMA HideRestHides ==
  ASSUME KeptOnTop, NEW s \in VfsState, NEW v \in Paths, v # Root, NEW d,
         Home[v] = Wl \/ v = StoreRoot(Home[v]) \/ s[Home[v]].tree[v] = Absent,
         HideRest(s, d, v), rc' = "ok", Good(S')
  PROVE  ~Exists(S', v)
<1>1. CASE ~Exists(s, v) /\ Reply(s, open, d, "ok")
  BY <1>1 DEF Reply
<1>2. ASSUME NEW r \in HideLower(s, v), Reply(r.s, open, d, r.code)
      PROVE  ~Exists(S', v)
  <2>1. S' = r.s /\ r.code = "ok"
    BY <1>2 DEF Reply
  <2>2. CASE Home[v] = Wl \/ v = StoreRoot(Home[v])
    <3>1. PICK w \in MarkerWritten : r = Outcome(CreateWhiteout(s, v, w), "ok")
      BY <1>2, <2>2 DEF HideLower
    <3>2. S' = CreateWhiteout(s, v, w)
      BY <2>1, <3>1 DEF Outcome
    <3>3. EnsureParent(s, Wl, v) \in VfsState
      BY <2>1, EnsureParentIs, StoresAre
    <3>4. v \in S'[Wl].deleted
      BY <3>2, <3>3, StoresAre DEF CreateWhiteout, VfsState
    <3> QED BY <3>4, HiddenIsMissing
  <2>3. CASE ~(Home[v] = Wl \/ v = StoreRoot(Home[v]))
    <3>1. EIO # "ok"
      BY DEF EIO
    <3>2. r = Outcome(KeptHide(s, Home[v], v), "ok")
      BY <1>2, <2>1, <2>3, <3>1 DEF HideLower, Outcome
    <3>3. S' = KeptHide(s, Home[v], v) /\ Home[v] \in Stores
      BY <2>1, <3>2, HomeBelongs DEF Outcome
    <3>4. /\ EnsureParent(s, Home[v], v) \in VfsState
          /\ EnsureParent(s, Home[v], v)[Home[v]].tree[v] = s[Home[v]].tree[v]
      <4>1. v \notin Above[Home[v]][v]
        BY <3>3, AboveAre
      <4> QED BY <2>1, <3>3, <4>1, EnsureParentIs
    <3>5. v \in S'[Home[v]].deleted /\ S'[Home[v]].tree[v] = Absent
      BY <2>3, <3>3, <3>4 DEF KeptHide, VfsState
    <3> QED BY <2>3, <3>5, HiddenIsMissing
  <2> QED BY <2>2, <2>3
<1>3. ~Killed(s, d)
  BY DEF Killed
<1> QED BY <1>1, <1>2, <1>3 DEF HideRest

\* A deletion that returns success has deleted.
LEMMA DeletionDeletes ==
  ASSUME KeptOnTop, Inv, NEW v \in Paths, VfsUnlink(v) \/ VfsRmdir(v), rc' = "ok"
  PROVE  View'[v] = Absent
<1>1. Good(S) /\ Good(S') /\ S \in VfsState
  BY UnlinkSound, RmdirSound DEF Inv, Good
<1>2. v # Root /\ Home[v] \in Stores
  BY HomeBelongs DEF VfsUnlink, VfsRmdir, Positive
<1>3. SUFFICES ~Exists(S', v)
  <2>1. Serves(S', data', v) = Absent
    BY <1>1, <1>3, MissingIsAbsent
  <2> QED BY <2>1 DEF View
<1>4. \A s, d, call : ~Killed(s, d) /\ ~Stops(call, s, d)
  BY DEF Killed, Stops, Reply, EIO
<1>5. CASE VfsUnlink(v)
  <2>1. HideRest(Put(S, Home[v], v, Absent), data, v)
    BY <1>4, <1>5 DEF VfsUnlink
  <2>2. Put(S, Home[v], v, Absent) \in VfsState /\ Put(S, Home[v], v, Absent)[Home[v]].tree[v] = Absent
    BY <1>1, <1>2, Distinct DEF Put, VfsState
  <2> QED BY <1>1, <1>2, <2>1, <2>2, HideRestHides
<1>6. CASE VfsRmdir(v)
  <2> DEFINE h == Home[v]
             s1 == IF h = Wl THEN Sweep(S, v) ELSE KeptDropMarkersUnder(S, h, v)
             s2 == HostRmdir(s1, h, v)
  <2>1. ENOTEMPTY # "ok"
    BY DEF ENOTEMPTY
  <2>2. \A s, o, d, code : Reply(s, o, d, code) => code = "ok"
    BY DEF Reply
  <2>3. \/ /\ h # Wl /\ v = StoreRoot(h)
           /\ \E r \in Opaque(s1, v) : \E w \in MarkerWritten :
                Reply(CreateWhiteout(r.s, v, w), open, data, "ok")
        \/ (h = Wl \/ ~HostBusy(s1, h, v)) /\ HideRest(s2, data, v)
    <3> HIDE DEF s1, s2, h
    <3>1. \/ Reply(S, open, data, ENOTEMPTY)
          \/ Killed(s1, data)
          \/ /\ h # Wl /\ v = StoreRoot(h)
             /\ \E r \in Opaque(s1, v) :
                  \/ r.code # "ok" /\ Reply(s1, open, data, r.code)
                  \/ Killed(r.s, data)
                  \/ \E w \in MarkerWritten : Reply(CreateWhiteout(r.s, v, w), open, data, "ok")
          \/ h = Wl /\ HideRest(s2, data, v)
          \/ Reply(s1, open, data, ENOTEMPTY)
          \/ ~HostBusy(s1, h, v) /\ HideRest(s2, data, v)
      BY <1>6 DEF VfsRmdir, s1, s2, h
    <3> QED BY <1>4, <2>1, <2>2, <3>1
  <2>4. s1 \in VfsState /\ Good(s1) /\ Masked(s1) /\ \A g \in Stores : s1[g].tree = S[g].tree
    BY <1>1, SweptSound DEF Sound, Inv, Good
  <2> HIDE DEF s1
  <2>5. CASE (h = Wl \/ ~HostBusy(s1, h, v)) /\ HideRest(s2, data, v)
    <3>1. s2 \in VfsState /\ (h = Wl \/ s2[h].tree[v] = Absent)
      <4>1. h \in Stores /\ (s2 = s1 \/ s2 = Put(s1, h, v, Absent))
        BY <1>2 DEF HostRmdir
      <4>2. h = Wl \/ s2 = Put(s1, h, v, Absent)
        BY <2>5 DEF HostRmdir
      <4> HIDE DEF h, s2
      <4>3. Put(s1, h, v, Absent) \in VfsState /\ Put(s1, h, v, Absent)[h].tree[v] = Absent
        BY <2>4, <4>1, Distinct DEF Put, VfsState
      <4> QED BY <2>4, <4>1, <4>2, <4>3
    <3> QED BY <1>1, <1>2, <2>5, <3>1, HideRestHides
  <2>6. ASSUME h # Wl, v = StoreRoot(h), NEW r \in Opaque(s1, v), NEW w \in MarkerWritten,
               Reply(CreateWhiteout(r.s, v, w), open, data, "ok")
        PROVE  ~Exists(S', v)
    <3>1. S' = CreateWhiteout(r.s, v, w)
      BY <2>6 DEF Reply
    <3>2. r.s \in VfsState
      BY <1>1, <1>2, <2>4, <2>6, OpaqueGood DEF Inv, Good, HostTree
    <3>3. EnsureParent(r.s, Wl, v) \in VfsState
      BY <3>2, EnsureParentIs, StoresAre
    <3>4. v \in S'[Wl].deleted
      BY <3>1, <3>3, StoresAre DEF CreateWhiteout, VfsState
    <3> QED BY <1>1, <1>2, <3>4, HiddenIsMissing
  <2> QED BY <2>3, <2>5, <2>6
<1> QED BY <1>5, <1>6

\* Whatever host call fails, a deletion that returns success has deleted:
\* overlay.h, a deletion that cannot be recorded must fail.
THEOREM DeletionsCorrect ==
  ASSUME KeptOnTop
  PROVE  TameSpec => DeletionsAreTrue
<1>1. Inv /\ [TameNext]_vars =>
        [\A v \in Paths : rc' = "ok" /\ (VfsUnlink(v) \/ VfsRmdir(v)) => View'[v] = Absent]_vars
  BY DeletionDeletes
<1> QED BY <1>1, TameAlways, PTL DEF TameSpec, DeletionsAreTrue

\* The same for all operations where no folder is kept.
THEOREM UnkeptDeletionsCorrect ==
  ASSUME Kept = {}
  PROVE  Spec => DeletionsAreTrue
<1>0. KeptOnTop
  BY DEF KeptOnTop
<1>1. Inv /\ [Next]_vars =>
        [\A v \in Paths : rc' = "ok" /\ (VfsUnlink(v) \/ VfsRmdir(v)) => View'[v] = Absent]_vars
  BY <1>0, DeletionDeletes
<1> QED BY <1>1, UnkeptAlways, PTL DEF Spec, DeletionsAreTrue

(***************************************************************************)
(* Lookup where no folder is kept.                                         *)
(***************************************************************************)
\* What the layers alone serve at v.
Base(v) ==
  IF Hits[v] # {} THEN LayerEntry[Topmost(Hits[v])][v] ELSE IF v \in ImplicitDirs THEN Dir ELSE Absent

Entry(s, v) == Resolve(s, v).entry

\* The writelayer is the only store, and its entries come first.
LEMMA EntryIs ==
  ASSUME Kept = {}, NEW s, Good(s), NEW v \in Paths
  PROVE  /\ Home[v] = Wl /\ Stores = {Wl} /\ KeptOnTop
         /\ Base(v) \in Contents \cup {Dir, Packed, Absent}
         /\ Entry(s, v) = IF v # Root /\ v \in s[Wl].deleted THEN Absent
                          ELSE IF s[Wl].tree[v] # Absent THEN s[Wl].tree[v]
                          ELSE IF IsUnderMask(s, Wl, v) THEN Absent ELSE Base(v)
         /\ Entry(s, v) \in Inodes \cup Contents \cup {Dir, Packed, Absent}
         /\ Exists(s, v) <=> Entry(s, v) # Absent
         /\ LowerFile(Resolve(s, v)) <=> s[Wl].tree[v] = Absent /\ Entry(s, v) \notin {Dir, Absent}
         /\ Resolve(s, v).kind = "Lower" <=> s[Wl].tree[v] = Absent /\ Entry(s, v) # Absent
<1>1. KeptOnTop /\ KeptOver[v] = {}
  BY DEF KeptOnTop, KeptOver
<1>2. Home[v] = Wl /\ Stores = {Wl}
  BY <1>1, HomeIs DEF Stores
<1>3. Hits[v] # {} => Topmost(Hits[v]) \in Hits[v]
  <2> SUFFICES ASSUME Hits[v] # {} PROVE Topmost(Hits[v]) \in Hits[v]
    OBVIOUS
  <2>1. Hits[v] \subseteq DOMAIN Layers /\ Hits[v] \subseteq Int
    BY HitsAre
  <2>2. PICK i \in Hits[v] : \A j \in Hits[v] : j <= i
    BY <2>1, GreatestExists
  <2> QED BY <2>1, <2>2, GreatestIs DEF Topmost
<1>4. Base(v) \in Contents \cup {Dir, Packed, Absent}
  BY <1>3, LayerEntryIs DEF Base
<1>5. \/ ResolveLayers(s, v) = None /\ Base(v) = Absent
      \/ \E i : ResolveLayers(s, v) = [kind |-> "Lower", at |-> i, entry |-> Base(v)] /\ Base(v) # Absent
  <2>1. ResolveLayers(s, v) = HighestAnswer(s, v, Hits[v])
    BY <1>1 DEF ResolveLayers
  <2>2. CASE Hits[v] # {}
    <3>1. ResolveLayers(s, v) = [kind |-> "Lower", at |-> Topmost(Hits[v]), entry |-> Base(v)]
      BY <2>1, <2>2 DEF HighestAnswer, Answer, Base
    <3>2. Base(v) # Absent
      BY <1>3, <2>2, LayerEntryIs, Distinct DEF Base
    <3> QED BY <3>1, <3>2
  <2>3. CASE Hits[v] = {}
    BY <2>1, <2>3, Distinct DEF HighestAnswer, Base
  <2> QED BY <2>2, <2>3
<1>6. s[Wl].tree[v] \in Inodes \cup {Dir, Absent}
  BY <1>2, FieldsAre DEF Good
<1>7. IsDeleted(s, Wl, v) <=> v # Root /\ v \in s[Wl].deleted
  BY StoresAre DEF IsDeleted
<1> DEFINE r == Resolve(s, v)
<1>8. \/ r = None /\ Base(v) \in Contents \cup {Dir, Packed, Absent}
         /\ \/ v # Root /\ v \in s[Wl].deleted
            \/ s[Wl].tree[v] = Absent /\ (IsUnderMask(s, Wl, v) \/ Base(v) = Absent)
      \/ /\ ~(v # Root /\ v \in s[Wl].deleted) /\ s[Wl].tree[v] # Absent
         /\ r = [kind |-> "WriteLayer", at |-> Wl, entry |-> s[Wl].tree[v]]
      \/ /\ ~(v # Root /\ v \in s[Wl].deleted) /\ s[Wl].tree[v] = Absent
         /\ ~IsUnderMask(s, Wl, v) /\ Base(v) # Absent
         /\ \E i : r = [kind |-> "Lower", at |-> i, entry |-> Base(v)]
  BY <1>4, <1>5, <1>7 DEF Resolve
<1>9. None.kind = "None" /\ None.entry = Absent
  BY DEF None
<1> HIDE DEF r
<1>10. /\ r.entry = IF v # Root /\ v \in s[Wl].deleted THEN Absent
                    ELSE IF s[Wl].tree[v] # Absent THEN s[Wl].tree[v]
                    ELSE IF IsUnderMask(s, Wl, v) THEN Absent ELSE Base(v)
       /\ r.kind # "None" <=> r.entry # Absent
       /\ r.kind = "Lower" <=> s[Wl].tree[v] = Absent /\ r.entry # Absent
  BY <1>6, <1>8, <1>9, Distinct
<1> QED BY <1>1, <1>2, <1>4, <1>6, <1>10 DEF Entry, Exists, LowerFile, r

\* What a program reads is a directory where the entry is one.
LEMMA ContentIs ==
  ASSUME Kept = {}, NEW s, Good(s), NEW v \in Paths, NEW d \in [Inodes -> Contents]
  PROVE  /\ Content(d, Entry(s, v)) \in Contents \cup {Dir, Packed, Absent}
         /\ Content(d, Entry(s, v)) = Dir <=> Entry(s, v) = Dir
         /\ Content(d, Entry(s, v)) = Absent <=> Entry(s, v) = Absent
         /\ IsDirectory(s, v) <=> Entry(s, v) = Dir
<1>1. Entry(s, v) \in Inodes \cup Contents \cup {Dir, Packed, Absent}
  BY EntryIs
<1> QED BY <1>1, Distinct DEF Content, IsDirectory, Entry

\* A path is reached by way of the directories above it.
LEMMA ReachableIs ==
  ASSUME NEW s, NEW v \in Paths
  PROVE  /\ Reachable(s, v) <=> \A a \in Paths : Within(v, a) /\ a # v => IsDirectory(s, a)
         /\ Reachable(s, v) => \A a \in Paths : Within(v, a) => Reachable(s, a)
         /\ v # Root => (Reachable(s, v) <=> Reachable(s, ParentVRel(v)) /\ IsDirectory(s, ParentVRel(v)))
<1>1. \A w \in Paths : Reachable(s, w) <=> \A a \in Paths : Within(w, a) /\ a # w => IsDirectory(s, a)
  <2> TAKE w \in Paths
  <2>1. \A a \in Paths : a \in Above[Wl][w] <=> Within(w, a) /\ a # w
    BY AboveAre, PathsAre, WithinRoot, StoresAre
  <2>2. Above[Wl][w] \subseteq Paths
    BY AboveAre, StoresAre
  <2> QED BY <2>1, <2>2 DEF Reachable
<1>2. ASSUME Reachable(s, v), NEW a \in Paths, Within(v, a) PROVE Reachable(s, a)
  <2> SUFFICES ASSUME NEW b \in Paths, Within(a, b), b # a PROVE IsDirectory(s, b)
    BY <1>1
  <2>1. Within(v, b) /\ b # v
    BY <1>2, PathsAre, WithinTransitive, WithinAntisymmetric
  <2> QED BY <1>1, <1>2, <2>1
<1>3. ASSUME v # Root
      PROVE  Reachable(s, v) <=> Reachable(s, ParentVRel(v)) /\ IsDirectory(s, ParentVRel(v))
  <2>1. /\ ParentVRel(v) \in Paths /\ Within(v, ParentVRel(v)) /\ ParentVRel(v) # v
        /\ \A a \in Paths : Within(v, a) /\ a # v <=> Within(ParentVRel(v), a)
    BY <1>3, PathsAre, ParentIs
  <2>2. Within(ParentVRel(v), ParentVRel(v))
    BY <2>1, PathsAre, WithinReflexive
  <2> QED BY <1>1, <2>1, <2>2
<1> QED BY <1>1, <1>2, <1>3

\* Two states serve the same outside Q, of which nothing is above what is not
\* in it, if they resolve the same what the first one reaches there.
LEMMA ServesAgree ==
  ASSUME Kept = {}, NEW s, Good(s), NEW d \in [Inodes -> Contents],
         NEW e, Good(e), NEW f \in [Inodes -> Contents],
         NEW Q, \A p, q \in Paths : q \in Q /\ Within(p, q) => p \in Q,
         \A p \in Paths : p \notin Q /\ Reachable(s, p) => Content(d, Entry(s, p)) = Content(f, Entry(e, p))
  PROVE  /\ \A p \in Paths : p \notin Q => Serves(e, f, p) = Serves(s, d, p)
         /\ \A p \in Paths : p \notin Q => (Reachable(e, p) <=> Reachable(s, p))
         /\ \A p \in Paths : p \notin Q /\ Reachable(s, p) => (IsDirectory(e, p) <=> IsDirectory(s, p))
<1>1. \A p \in Paths : p \notin Q /\ Reachable(s, p) => (IsDirectory(e, p) <=> IsDirectory(s, p))
  BY ContentIs
<1>2. ASSUME NEW p \in Paths, p \notin Q, Reachable(s, p) PROVE Reachable(e, p)
  <2> SUFFICES ASSUME NEW a \in Paths, Within(p, a), a # p PROVE IsDirectory(e, a)
    BY ReachableIs
  <2>1. IsDirectory(s, a) /\ Reachable(s, a) /\ a \notin Q
    BY <1>2, ReachableIs
  <2> QED BY <1>1, <2>1
<1>3. ASSUME NEW p \in Paths, p \notin Q, Reachable(e, p) PROVE Reachable(s, p)
  <2> DEFINE T == {a \in Paths : Within(p, a) /\ a # p /\ ~IsDirectory(s, a)}
  <2> SUFFICES ASSUME T # {} PROVE FALSE
    BY ReachableIs
  <2>1. T \subseteq VPath
    BY PathsAre
  <2>2. PICK a \in T : \A b \in T : Len(a) <= Len(b)
    BY <2>1, ShortestPath
  <2>3. a \in Paths /\ Within(p, a) /\ a # p /\ ~IsDirectory(s, a) /\ a \notin Q
    BY <1>3, <2>2
  <2>4. Reachable(s, a)
    <3> SUFFICES ASSUME NEW b \in Paths, Within(a, b), b # a PROVE IsDirectory(s, b)
      BY <2>3, ReachableIs
    <3>1. Within(p, b) /\ b # p
      BY <2>3, PathsAre, WithinTransitive, WithinAntisymmetric
    <3>2. Len(b) <= Len(a) /\ Len(a) \in Nat /\ Len(b) \in Nat
      BY <2>3, PathsAre DEF Within, VPath
    <3>3. Len(b) # Len(a)
      <4>1. SUFFICES ASSUME Len(b) = Len(a) PROVE Within(b, a)
        BY <2>3, PathsAre, WithinAntisymmetric
      <4>2. SubSeq(a, 1, Len(a)) = b
        BY <4>1 DEF Within
      <4>3. a \in VPath /\ SubSeq(a, 1, Len(a)) = a
        BY <2>3, PathsAre DEF VPath
      <4> QED BY <4>2, <4>3, WithinReflexive
    <3> QED BY <2>2, <3>1, <3>2, <3>3
  <2>5. IsDirectory(e, a)
    BY <1>3, <2>3, ReachableIs
  <2> QED BY <1>1, <2>3, <2>4, <2>5
<1>4. \A p \in Paths : p \notin Q => Serves(e, f, p) = Serves(s, d, p)
  BY <1>2, <1>3 DEF Serves, Entry
<1> QED BY <1>1, <1>2, <1>3, <1>4

\* What a program sees of a path says whether it is reached and is there.
LEMMA ServesIs ==
  ASSUME Kept = {}, NEW s, Good(s), NEW d \in [Inodes -> Contents], NEW v \in Paths
  PROVE  /\ Serves(s, d, v) \in Contents \cup {Dir, Packed, Absent}
         /\ Serves(s, d, v) = Dir <=> Reachable(s, v) /\ IsDirectory(s, v)
         /\ Serves(s, d, v) # Absent <=> Reachable(s, v) /\ Exists(s, v)
         /\ v # Root => (Reachable(s, v) <=> Serves(s, d, ParentVRel(v)) = Dir)
         /\ Reachable(s, Root) /\ Serves(s, d, Root) = Dir
<1>1. \A w \in Paths : /\ Serves(s, d, w) \in Contents \cup {Dir, Packed, Absent}
                       /\ Serves(s, d, w) = Dir <=> Reachable(s, w) /\ IsDirectory(s, w)
                       /\ Serves(s, d, w) # Absent <=> Reachable(s, w) /\ Exists(s, w)
  <2> TAKE w \in Paths
  <2>1. /\ Content(d, Entry(s, w)) \in Contents \cup {Dir, Packed, Absent}
        /\ Content(d, Entry(s, w)) = Dir <=> IsDirectory(s, w)
        /\ Content(d, Entry(s, w)) = Absent <=> ~Exists(s, w)
    BY ContentIs, EntryIs
  <2> QED BY <2>1, Distinct DEF Serves, Entry
<1>2. v # Root => (Reachable(s, v) <=> Serves(s, d, ParentVRel(v)) = Dir)
  BY <1>1, ReachableIs, PathsAre
<1>3. Root \in Paths /\ Reachable(s, Root)
  BY PathsAre, WithinRoot, ReachableIs
<1>4. IsDirectory(s, Root)
  <2>1. s[Wl].tree[Root] = Dir
    BY StoresAre DEF Good, HostTree
  <2> QED BY <1>3, <2>1, EntryIs, Distinct DEF IsDirectory, Entry
<1> QED BY <1>1, <1>2, <1>3, <1>4

\* A program sees the same in both states.
Same(s, d, e, f) == \A p \in Paths : Serves(e, f, p) = Serves(s, d, p)

\* A program sees in the second state what it saw in the first.
Keeps(s, d, e, f) ==
  \A p \in Paths : Serves(s, d, p) # Absent => Serves(e, f, p) = Serves(s, d, p)

\* So it reaches the same, too.
LEMMA SameReach ==
  ASSUME Kept = {}, NEW s, Good(s), NEW d \in [Inodes -> Contents],
         NEW e, Good(e), NEW f \in [Inodes -> Contents], Same(s, d, e, f), NEW v \in Paths
  PROVE  /\ Reachable(e, v) <=> Reachable(s, v)
         /\ Reachable(s, v) => (Exists(e, v) <=> Exists(s, v)) /\ (IsDirectory(e, v) <=> IsDirectory(s, v))
<1>1. \A w \in Paths : Serves(e, f, w) = Serves(s, d, w)
  BY DEF Same
<1>2. Reachable(e, v) <=> Reachable(s, v)
  BY <1>1, ServesIs, PathsAre
<1> QED BY <1>1, <1>2, ServesIs

\* An inode that is served is named in the writelayer.
LEMMA ServedInode ==
  ASSUME Kept = {}, NEW s, Good(s), NEW v \in Paths, Entry(s, v) \in Inodes
  PROVE  s[Wl].tree[v] = Entry(s, v) /\ Entry(s, v) \in Named(s)
<1>1. s[Wl].tree[v] = Entry(s, v)
  BY EntryIs, Distinct
<1> QED BY <1>1, StoresAre DEF Named

\* The inodes that the host frees are not served.
LEMMA ReclaimServes ==
  ASSUME Kept = {}, NEW s, Good(s), NEW d \in [Inodes -> Contents], NEW o
  PROVE  Same(s, d, s, Reclaim(s, o, d))
<1> SUFFICES ASSUME NEW p \in Paths
             PROVE  Content(Reclaim(s, o, d), Entry(s, p)) = Content(d, Entry(s, p))
  BY DEF Same, Serves, Entry
<1>1. Entry(s, p) \in Inodes => Entry(s, p) \in Named(s)
  BY ServedInode
<1> QED BY <1>1 DEF Content, Reclaim

\* The directories that the host makes above a path were served already.
LEMMA EnsureParentServes ==
  ASSUME Kept = {}, NEW s, Good(s), NEW d \in [Inodes -> Contents], NEW v \in Paths, Reachable(s, v)
  PROVE  LET e == EnsureParent(s, Wl, v) IN Good(e) /\ Same(s, d, e, d)
<1> DEFINE e == EnsureParent(s, Wl, v)
<1>1. Wl \in Stores /\ s \in VfsState /\ KeptOnTop /\ Belongs(Wl, v)
  BY StoresAre, EntryIs, HomeBelongs DEF Good
<1>2. Good(e)
  BY <1>1, ReachableClear, EnsureParentGood
<1>3. /\ e[Wl].deleted = s[Wl].deleted /\ e[Wl].opaque = s[Wl].opaque
      /\ \A p \in Paths : e[Wl].tree[p] = IF p \in Above[Wl][v] /\ s[Wl].tree[p] = Absent THEN Dir
                                          ELSE s[Wl].tree[p]
  BY <1>1, EnsureParentIs
<1> HIDE DEF e
<1>4. ASSUME NEW p \in Paths PROVE Entry(e, p) = Entry(s, p)
  <2>1. IsUnderMask(e, Wl, p) <=> IsUnderMask(s, Wl, p)
    BY <1>3 DEF IsUnderMask, IsDeleted
  <2>2. CASE e[Wl].tree[p] = s[Wl].tree[p]
    BY <1>2, <1>3, <2>1, <2>2, EntryIs
  <2>3. CASE e[Wl].tree[p] # s[Wl].tree[p]
    <3>1. p \in Above[Wl][v] /\ s[Wl].tree[p] = Absent /\ e[Wl].tree[p] = Dir
      BY <1>3, <2>3
    <3>2. Entry(s, p) = Dir
      BY <3>1 DEF Reachable, IsDirectory, Entry
    <3> QED BY <1>2, <1>3, <3>1, <3>2, EntryIs, Distinct
  <2> QED BY <2>2, <2>3
<1>5. \A p \in Paths : Serves(e, d, p) = Serves(s, d, p)
  <2>1. \A p, q \in Paths : q \in {} /\ Within(p, q) => p \in {}
    OBVIOUS
  <2>2. PICK Q : Q = {}
    OBVIOUS
  <2> QED BY <1>2, <1>4, <2>2, ServesAgree
<1> QED BY <1>2, <1>5 DEF Same, e

\* A whiteout that is removed hid nothing but what is at its name or below.
LEMMA RemoveWhiteoutServes ==
  ASSUME Kept = {}, NEW s, Good(s), NEW d \in [Inodes -> Contents], NEW v \in Paths, v # Root
  PROVE  LET e == RemoveWhiteout(s, v)
         IN  /\ Good(e)
             /\ \A p \in Paths : ~Within(p, v) => Serves(e, d, p) = Serves(s, d, p)
             /\ Reachable(e, v) <=> Reachable(s, v)
             /\ Exists(s, v) => Same(s, d, e, d)
             /\ Keeps(s, d, e, d)
<1> DEFINE e == RemoveWhiteout(s, v)
<1>1. /\ Good(e) /\ e[Wl].deleted = s[Wl].deleted \ {v}
      /\ e[Wl].tree = s[Wl].tree /\ e[Wl].opaque = s[Wl].opaque
  BY RemoveWhiteoutGood, StoresAre
<1> HIDE DEF e
<1>2. ASSUME NEW p \in Paths, ~Within(p, v) \/ v \notin s[Wl].deleted PROVE Entry(e, p) = Entry(s, p)
  <2>1. p \in s[Wl].deleted <=> p \in e[Wl].deleted
    BY <1>1, <1>2, PathsAre, WithinReflexive
  <2>2. \A a \in Above[Wl][p] : a # v \/ v \notin s[Wl].deleted
    BY <1>2, AboveAre, StoresAre
  <2>3. IsUnderMask(e, Wl, p) <=> IsUnderMask(s, Wl, p)
    BY <1>1, <2>2 DEF IsUnderMask, IsDeleted
  <2> QED BY <1>1, <2>1, <2>3, EntryIs
<1>3. PICK Q : Q = {p \in Paths : Within(p, v)}
  OBVIOUS
<1>4. \A p, q \in Paths : q \in Q /\ Within(p, q) => p \in Q
  BY <1>3, PathsAre, WithinTransitive
<1>5. \A p \in Paths : ~Within(p, v) => Serves(e, d, p) = Serves(s, d, p)
  BY <1>1, <1>2, <1>3, <1>4, ServesAgree
<1>6. Reachable(e, v) <=> Reachable(s, v)
  <2>1. ParentVRel(v) \in Paths /\ ~Within(ParentVRel(v), v)
    BY PathsAre, ParentIs, WithinAntisymmetric
  <2> QED BY <1>1, <1>5, <2>1, ServesIs
<1>7. Exists(s, v) => Same(s, d, e, d)
  <2> SUFFICES ASSUME Exists(s, v) PROVE Same(s, d, e, d)
    OBVIOUS
  <2>1. v \notin s[Wl].deleted
    BY EntryIs
  <2>2. PICK R : R = {}
    OBVIOUS
  <2> QED BY <1>1, <1>2, <2>1, <2>2, ServesAgree DEF Same
<1>8. Keeps(s, d, e, d)
  <2> SUFFICES ASSUME NEW p \in Paths, Serves(s, d, p) # Absent PROVE Serves(e, d, p) = Serves(s, d, p)
    BY DEF Keeps
  <2>1. CASE Within(p, v)
    <3>1. Exists(s, v)
      <4>1. p = v => Exists(s, v)
        BY <2>1, ServesIs
      <4>2. p # v => IsDirectory(s, v)
        BY <2>1, ServesIs, ReachableIs
      <4> QED BY <4>1, <4>2, EntryIs, Distinct DEF IsDirectory, Entry
    <3> QED BY <1>7, <3>1 DEF Same
  <2> QED BY <1>5, <2>1
<1> QED BY <1>1, <1>5, <1>6, <1>7, <1>8 DEF e

\* Same is transitive, and so is Keeps after it.
LEMMA SameThen ==
  ASSUME NEW s, NEW d, NEW e, NEW f, NEW g, NEW h, Same(s, d, e, f)
  PROVE  /\ Same(e, f, g, h) => Same(s, d, g, h)
         /\ Keeps(e, f, g, h) => Keeps(s, d, g, h)
<1> QED BY DEF Same, Keeps

\* In e the paths of P are copied up, the masks and the copies of s are there.
Copies(s, e, P) ==
  /\ e[Wl].deleted = s[Wl].deleted /\ e[Wl].opaque = s[Wl].opaque
  /\ \A p \in Paths : s[Wl].tree[p] # Absent => e[Wl].tree[p] = s[Wl].tree[p]
  /\ \A p \in P : Exists(s, p) => e[Wl].tree[p] = Entry(e, p) /\ Entry(e, p) # Absent

\* A copy-up is invisible.
LEMMA CopiedUpServes ==
  ASSUME Kept = {}, Inv, NEW P, P \subseteq Paths, \A p \in P : Reachable(S, p),
         NEW v \in Paths, NEW up \in CopiedUp(P, v)
  PROVE  /\ Good(up.s) /\ Masked(up.s) /\ (Bare(S) => Bare(up.s))
         /\ up.d \in [Inodes -> Contents] /\ up.at = Wl
         /\ Same(S, data, up.s, up.d)
         /\ Copies(S, up.s, P)
<1>1. /\ Good(S) /\ data \in [Inodes -> Contents] /\ KeptOnTop /\ Stores = {Wl}
      /\ \A p \in Paths : Home[p] = Wl
  BY EntryIs DEF Inv
<1>2. PICK ino \in Allocations(NewFiles(S, P)) :
        up = [s |-> CopyUp(S, P, ino), d |-> CopyData(S, data, ino), at |-> WriteStore(v)]
  BY DEF CopiedUp
<1>3. ino \in [NewFiles(S, P) -> Inodes] /\ \A p, q \in NewFiles(S, P) : ino[p] = ino[q] => p = q
  BY <1>2, FreeInodesAre DEF Allocations
<1>4. \A p \in DOMAIN ino : ino[p] \notin Named(S)
  BY <1>2 DEF Allocations, FreeInodes
<1>5. /\ Sound(Bare(S), up.s) /\ up.d \in [Inodes -> Contents] /\ up.at = Wl
  <2>1. AfterCopyUp(up, v)
    BY <1>1, CopiedUpSound
  <2> QED BY <1>1, <2>1 DEF AfterCopyUp
<1> DEFINE e == CopyUp(S, P, ino)
           f == CopyData(S, data, ino)
<1>6. /\ Good(e) /\ Masked(e) /\ (Bare(S) => Bare(e)) /\ f \in [Inodes -> Contents]
      /\ up.s = e /\ up.d = f
  BY <1>2, <1>5 DEF Sound
<1>7. /\ e[Wl].deleted = S[Wl].deleted /\ e[Wl].opaque = S[Wl].opaque
      /\ \A p \in Paths :
           \/ e[Wl].tree[p] = S[Wl].tree[p]
           \/ S[Wl].tree[p] = Absent /\ p \in DOMAIN ino /\ e[Wl].tree[p] = ino[p]
           \/ S[Wl].tree[p] = Absent /\ e[Wl].tree[p] = Dir /\ IsDirectory(S, p)
      /\ \A q \in P : Resolve(S, q).kind = "Lower" => e[Wl].tree[q] # Absent
  BY <1>1, <1>3, StoresAre, CopyUpIs
<1>8. \A i \in Inodes : f[i] = IF \E p \in DOMAIN ino : ino[p] = i
                               THEN Resolve(S, CHOOSE p \in DOMAIN ino : ino[p] = i).entry ELSE data[i]
  BY DEF CopyData
<1> HIDE DEF e, f
<1>9. ASSUME NEW p \in Paths PROVE Content(f, Entry(e, p)) = Content(data, Entry(S, p))
  <2>1. IsUnderMask(e, Wl, p) <=> IsUnderMask(S, Wl, p)
    BY <1>7 DEF IsUnderMask, IsDeleted
  <2>2. CASE e[Wl].tree[p] = S[Wl].tree[p]
    <3>1. Entry(e, p) = Entry(S, p)
      BY <1>1, <1>6, <1>7, <2>1, <2>2, EntryIs
    <3>2. Entry(S, p) \in Inodes => f[Entry(S, p)] = data[Entry(S, p)]
      BY <1>1, <1>4, <1>8, ServedInode
    <3> QED BY <3>1, <3>2 DEF Content
  <2>3. CASE S[Wl].tree[p] = Absent /\ p \in DOMAIN ino /\ e[Wl].tree[p] = ino[p]
    <3>1. p \in NewFiles(S, P) /\ ino[p] \in Inodes
      BY <1>3, <2>3
    <3>2. Entry(S, p) \notin {Dir, Absent} /\ Entry(S, p) \notin Inodes
      <4>1. LowerFile(Resolve(S, p))
        BY <3>1 DEF NewFiles
      <4> QED BY <1>1, <2>3, <4>1, EntryIs, ServedInode, Distinct
    <3>3. Entry(e, p) = ino[p]
      BY <1>1, <1>6, <1>7, <2>3, <3>1, <3>2, EntryIs, Distinct
    <3>4. (CHOOSE q \in DOMAIN ino : ino[q] = ino[p]) = p
      BY <1>3, <2>3
    <3>5. f[ino[p]] = Entry(S, p)
      BY <1>8, <2>3, <3>1, <3>4 DEF Entry
    <3> QED BY <3>1, <3>2, <3>3, <3>5 DEF Content
  <2>4. CASE S[Wl].tree[p] = Absent /\ e[Wl].tree[p] = Dir /\ IsDirectory(S, p)
    <3>1. Entry(S, p) = Dir
      BY <2>4 DEF IsDirectory, Entry
    <3>2. Entry(e, p) = Dir
      BY <1>1, <1>6, <1>7, <2>4, <3>1, EntryIs, Distinct
    <3> QED BY <3>1, <3>2, Distinct DEF Content
  <2> QED BY <1>7, <2>2, <2>3, <2>4
<1>10. Same(S, data, e, f)
  <2>1. PICK Q : Q = {}
    OBVIOUS
  <2>2. \A p, q \in Paths : q \in Q /\ Within(p, q) => p \in Q
    BY <2>1
  <2>3. \A p \in Paths :
          p \notin Q /\ Reachable(S, p) => Content(data, Entry(S, p)) = Content(f, Entry(e, p))
    BY <1>9
  <2>4. Good(S) /\ data \in [Inodes -> Contents] /\ Good(e) /\ f \in [Inodes -> Contents]
    BY <1>1, <1>6
  <2>5. \A p \in Paths : p \notin Q => Serves(e, f, p) = Serves(S, data, p)
    BY <2>2, <2>3, <2>4, ServesAgree
  <2> QED BY <2>1, <2>5 DEF Same
<1>11. \A p \in Paths : S[Wl].tree[p] # Absent => e[Wl].tree[p] = S[Wl].tree[p]
  BY <1>7
<1>12. ASSUME NEW p \in P, Exists(S, p) PROVE e[Wl].tree[p] = Entry(e, p) /\ Entry(e, p) # Absent
  <2>1. Entry(S, p) # Absent /\ e[Wl].tree[p] # Absent
    BY <1>1, <1>7, <1>11, <1>12, EntryIs
  <2>2. ~(p # Root /\ p \in e[Wl].deleted)
    BY <1>1, <1>7, <1>12, <2>1, EntryIs
  <2> QED BY <1>6, <2>1, <2>2, EntryIs
<1>13. Copies(S, e, P)
  BY <1>7, <1>11, <1>12 DEF Copies
<1> QED BY <1>5, <1>6, <1>7, <1>10, <1>13

\* What is made before a name is: see Prepare.
LEMMA PrepareServes ==
  ASSUME Kept = {}, NEW s, Good(s), NEW d \in [Inodes -> Contents], NEW v \in Paths, v # Root,
         Reachable(s, v)
  PROVE  LET e == Prepare(s, v)
         IN  /\ Good(e)
             /\ \A p \in Paths : ~Within(p, v) => Serves(e, d, p) = Serves(s, d, p)
             /\ Reachable(e, v)
             /\ Exists(s, v) => Same(s, d, e, d)
             /\ Keeps(s, d, e, d)
<1> DEFINE r == RemoveWhiteout(s, v)
           e == EnsureParent(r, Wl, v)
<1>1. Prepare(s, v) = e
  BY EntryIs DEF Prepare
<1>2. /\ Good(r) /\ Reachable(r, v)
      /\ \A p \in Paths : ~Within(p, v) => Serves(r, d, p) = Serves(s, d, p)
      /\ Exists(s, v) => Same(s, d, r, d)
      /\ Keeps(s, d, r, d)
  BY RemoveWhiteoutServes
<1> HIDE DEF r
<1>3. Good(e) /\ Same(r, d, e, d)
  BY <1>2, EnsureParentServes
<1> HIDE DEF e
<1>4. Reachable(e, v)
  BY <1>2, <1>3, SameReach
<1> QED BY <1>1, <1>2, <1>3, <1>4 DEF Same, Keeps

(***************************************************************************)
(* Failures, where no folder is kept.                                      *)
(***************************************************************************)
\* The step leaves all that a program sees.
KeepsView == \A v \in Paths : View[v] # Absent => View'[v] = View[v]

\* A handler that returns with what was seen before.
LEMMA ReplyServes ==
  ASSUME Kept = {}, NEW s, Good(s), NEW d \in [Inodes -> Contents], NEW o, NEW code, Reply(s, o, d, code)
  PROVE  /\ Keeps(S, data, s, d) => KeepsView
         /\ Same(S, data, s, d) => UNCHANGED View
         /\ \A p \in Paths : View'[p] = Serves(s, d, p)
<1>1. Same(s, d, s, Reclaim(s, o, d))
  BY ReclaimServes
<1>2. S' = s /\ data' = Reclaim(s, o, d)
  BY DEF Reply
<1>3. /\ \A p \in Paths : View[p] = Serves(S, data, p)
      /\ \A p \in Paths : View'[p] = Serves(S', data', p)
  BY DEF View
<1>4. \A p \in Paths : View'[p] = Serves(s, d, p)
  BY <1>1, <1>2, <1>3 DEF Same
<1>5. Same(S, data, s, d) => UNCHANGED View
  <2>1. Same(S, data, s, d) => \A p \in Paths : View'[p] = View[p]
    BY <1>3, <1>4 DEF Same
  <2> QED BY <2>1 DEF View
<1> QED BY <1>3, <1>4, <1>5 DEF Keeps, KeepsView

\* A step that ends with an error is not a kill; nor does it hide a name.
LEMMA ErrorIs ==
  ASSUME Kept = {}, rc' = "error"
  PROVE  /\ \A s, d : ~Killed(s, d)
         /\ \A s, d, call : Stops(call, s, d) => Reply(s, open, d, EIO)
         /\ \A s, o, d, v : v \in Paths => ~Made(s, o, d, v) /\ ~HideRest(s, d, v)
         /\ \A s, o, d, code : Reply(s, o, d, code) => code = "error"
<1>1. \A s, d : ~Killed(s, d)
  BY DEF Killed
<1>2. \A s, d, call : Stops(call, s, d) => Reply(s, open, d, EIO)
  BY <1>1 DEF Stops
<1>3. \A s, o, d, code : Reply(s, o, d, code) => code = "error"
  BY DEF Reply
<1>4. ASSUME NEW s, NEW o, NEW d, NEW v \in Paths PROVE ~Made(s, o, d, v) /\ ~HideRest(s, d, v)
  <2>1. Home[v] = Wl
    BY HomeIs DEF KeptOnTop
  <2>2. \A r \in HideLower(s, v) : r.code = "ok"
    BY <2>1 DEF HideLower, Outcome
  <2> QED BY <1>1, <1>3, <2>2 DEF Made, HideRest
<1> QED BY <1>1, <1>2, <1>3, <1>4

\* What a name step can leave behind when it fails.
LEMMA NameStepKeeps ==
  ASSUME Kept = {}, Inv, NEW v \in Paths, rc' = "error",
         VfsCreate(v) \/ VfsMkdir(v) \/ VfsSymlink(v) \/ VfsUnlink(v) \/ VfsRmdir(v)
  PROVE  KeepsView
<1>1. /\ Good(S) /\ data \in [Inodes -> Contents] /\ Home[v] = Wl
  BY EntryIs DEF Inv
<1>2. v # Root /\ Reachable(S, v)
  BY DEF VfsCreate, VfsMkdir, VfsSymlink, VfsUnlink, VfsRmdir, Negative, Positive
<1>3. \/ \E o : Reply(S, o, data, "error")
      \/ \E o : Reply(RemoveWhiteout(S, v), o, data, "error")
      \/ \E o : Reply(Prepare(S, v), o, data, "error")
  <2>1. CASE VfsCreate(v)
    BY <1>1, <2>1, ErrorIs DEF VfsCreate, ParentFails
  <2>2. CASE VfsSymlink(v)
    BY <1>1, <2>2, ErrorIs DEF VfsSymlink, ParentFails
  <2>3. CASE VfsMkdir(v)
    <3>1. ~RootShownAgain(v)
      BY <1>1 DEF RootShownAgain
    <3>2. \A s : \A r \in Opaque(s, v) : r.code = "ok"
      BY <1>1 DEF Opaque, Outcome
    <3>3. \A s : \A r \in {Outcome(s, "ok")} : r.code = "ok"
      BY DEF Outcome
    <3> QED BY <1>1, <2>3, <3>1, <3>2, <3>3, ErrorIs DEF VfsMkdir, ParentFails
  <2>4. CASE VfsUnlink(v)
    BY <2>4, ErrorIs DEF VfsUnlink
  <2>5. CASE VfsRmdir(v)
    BY <1>1, <2>5, ErrorIs DEF VfsRmdir
  <2> QED BY <2>1, <2>2, <2>3, <2>4, <2>5
<1>4. Keeps(S, data, S, data)
  BY DEF Keeps
<1>5. Good(RemoveWhiteout(S, v)) /\ Keeps(S, data, RemoveWhiteout(S, v), data)
  BY <1>1, <1>2, RemoveWhiteoutServes
<1>6. Good(Prepare(S, v)) /\ Keeps(S, data, Prepare(S, v), data)
  BY <1>1, <1>2, PrepareServes
<1> QED BY <1>1, <1>3, <1>4, <1>5, <1>6, ReplyServes

\* What a copy-up that fails leaves behind.
LEMMA CopyUpFailsServes ==
  ASSUME Kept = {}, Inv, NEW v \in Paths, Reachable(S, v), CopyUpFails(v), rc' = "error"
  PROVE  UNCHANGED View
<1>1. Good(S) /\ data \in [Inodes -> Contents] /\ Home[v] = Wl
  BY EntryIs DEF Inv
<1>2. \E o : Reply(EnsureParent(S, Wl, v), o, data, "error")
  BY <1>1, ErrorIs DEF CopyUpFails
<1>3. Good(EnsureParent(S, Wl, v)) /\ Same(S, data, EnsureParent(S, Wl, v), data)
  BY <1>1, EnsureParentServes
<1> QED BY <1>1, <1>2, <1>3, ReplyServes

\* An operation on a file's data, or on its permissions, that fails.
LEMMA DataStepKeeps ==
  ASSUME Kept = {}, Inv, rc' = "error", DataStep
  PROVE  UNCHANGED View
<1>1. Good(S) /\ data \in [Inodes -> Contents]
  BY DEF Inv
<1>2. PICK v \in Paths : (\E trunc \in BOOLEAN : VfsOpen(v, trunc)) \/ VfsTruncate(v) \/ VfsChmod(v)
  BY ErrorIs DEF DataStep, VfsRelease, VfsWrite
<1>3. Reachable(S, v)
  BY <1>2 DEF VfsOpen, VfsTruncate, VfsChmod, Regular, Positive
<1>4. CopyUpFails(v) \/ \E up \in CopiedUp({v}, v) : \E o : Reply(up.s, o, up.d, "error")
  BY <1>2, ErrorIs DEF VfsOpen, VfsTruncate, VfsChmod
<1>5. ASSUME NEW up \in CopiedUp({v}, v) PROVE Good(up.s) /\ up.d \in [Inodes -> Contents] /\ Same(S, data, up.s, up.d)
  <2>1. PICK P : P = {v}
    OBVIOUS
  <2> QED BY <1>3, <1>5, <2>1, CopiedUpServes
<1> QED BY <1>3, <1>4, <1>5, CopyUpFailsServes, ReplyServes

\* What a link that fails leaves behind.
LEMMA LinkStepKeeps ==
  ASSUME Kept = {}, Inv, rc' = "error", NEW vf \in Paths, NEW vt \in Paths, VfsLink(vf, vt)
  PROVE  UNCHANGED View
<1>1. /\ Good(S) /\ data \in [Inodes -> Contents] /\ Home[vt] = Wl
      /\ Reachable(S, vf) /\ Reachable(S, vt)
  BY EntryIs DEF Inv, VfsLink, Positive, Negative
<1>2. \/ CopyUpFails(vf)
      \/ \E up \in CopiedUp({vf}, vf) : \E o :
           Reply(up.s, o, up.d, "error") \/ Reply(EnsureParent(up.s, Wl, vt), o, up.d, "error")
  BY <1>1, ErrorIs DEF VfsLink
<1>3. ASSUME NEW up \in CopiedUp({vf}, vf)
      PROVE  /\ Good(up.s) /\ up.d \in [Inodes -> Contents] /\ Same(S, data, up.s, up.d)
             /\ Good(EnsureParent(up.s, Wl, vt)) /\ Same(S, data, EnsureParent(up.s, Wl, vt), up.d)
  <2>1. PICK P : P = {vf}
    OBVIOUS
  <2>2. Good(up.s) /\ up.d \in [Inodes -> Contents] /\ Same(S, data, up.s, up.d)
    BY <1>1, <1>3, <2>1, CopiedUpServes
  <2>3. Reachable(up.s, vt)
    BY <1>1, <2>2, SameReach
  <2>4. /\ Good(EnsureParent(up.s, Wl, vt))
        /\ Same(up.s, up.d, EnsureParent(up.s, Wl, vt), up.d)
    BY <2>2, <2>3, EnsureParentServes
  <2> QED BY <2>2, <2>4, SameThen
<1> QED BY <1>1, <1>2, <1>3, CopyUpFailsServes, ReplyServes

\* A rename that fails has copied up, and may have made room for the new name.
LEMMA RenameStepKeeps ==
  ASSUME Kept = {}, Inv, rc' = "error", NEW vf \in Paths, NEW vt \in Paths, VfsRename(vf, vt)
  PROVE  KeepsView /\ (Exists(S, vt) => UNCHANGED View)
<1>1. /\ Good(S) /\ data \in [Inodes -> Contents] /\ Home[vf] = Wl /\ Home[vt] = Wl /\ KeptOnTop
      /\ Reachable(S, vf) /\ vf # Root /\ Reachable(S, vt) /\ vt # Root
  BY EntryIs DEF Inv, VfsRename, MayRename, Positive
<1> DEFINE visits == IF IsDirectory(S, vf) THEN DeepWalk(S, vf) ELSE {vf}
<1>2. visits \subseteq Paths /\ \A p \in visits : Reachable(S, p)
  BY <1>1, DeepWalkReachable DEF Inv
<1>3. \A P, stop : P \in PartialWalks(S, vf, stop) => P \subseteq DeepWalk(S, vf)
  BY DEF PartialWalks
<1>4. ASSUME NEW s, NEW d, FinishRename(s, d, Wl, vf, vt)
      PROVE  \E o : Reply(s, o, d, "error") \/ Reply(Prepare(s, vt), o, d, "error")
  <2>1. \A x : \A r \in {Outcome(x, "ok")} : r.code = "ok"
    BY DEF Outcome
  <2> QED BY <1>1, <1>4, <2>1, ErrorIs DEF FinishRename
<1>5. ASSUME NEW P, P \subseteq Paths, \A p \in P : Reachable(S, p), NEW up \in CopiedUp(P, vf)
      PROVE  /\ Good(up.s) /\ up.d \in [Inodes -> Contents] /\ up.at = Wl
             /\ Same(S, data, up.s, up.d) /\ Keeps(S, data, up.s, up.d)
             /\ Good(Prepare(up.s, vt)) /\ Keeps(S, data, Prepare(up.s, vt), up.d)
             /\ Exists(S, vt) => Same(S, data, Prepare(up.s, vt), up.d)
  <2>1. Good(up.s) /\ up.d \in [Inodes -> Contents] /\ up.at = Wl /\ Same(S, data, up.s, up.d)
    BY <1>5, CopiedUpServes
  <2>2. Reachable(up.s, vt) /\ (Exists(S, vt) => Exists(up.s, vt))
    BY <1>1, <2>1, SameReach
  <2>3. /\ Good(Prepare(up.s, vt)) /\ Keeps(up.s, up.d, Prepare(up.s, vt), up.d)
        /\ Exists(up.s, vt) => Same(up.s, up.d, Prepare(up.s, vt), up.d)
    BY <1>1, <2>1, <2>2, PrepareServes
  <2>4. Keeps(S, data, up.s, up.d)
    BY <2>1 DEF Keeps, Same
  <2> QED BY <2>1, <2>2, <2>3, <2>4, SameThen
<1>6. ASSUME NEW P, P \subseteq Paths, \A p \in P : Reachable(S, p), NEW up \in CopiedUp(P, vf), NEW o,
             Reply(up.s, o, up.d, "error") \/ Reply(Prepare(up.s, vt), o, up.d, "error")
      PROVE  KeepsView /\ (Exists(S, vt) => UNCHANGED View)
  BY <1>5, <1>6, ReplyServes
<1>7. CASE \E up \in CopiedUp(visits, vf) : FinishRename(up.s, up.d, up.at, vf, vt)
  <2>1. PICK up \in CopiedUp(visits, vf) : FinishRename(up.s, up.d, up.at, vf, vt)
    BY <1>7
  <2> HIDE DEF visits
  <2>2. up.at = Wl
    BY <1>2, <1>5
  <2>3. \E o : Reply(up.s, o, up.d, "error") \/ Reply(Prepare(up.s, vt), o, up.d, "error")
    BY <1>4, <2>1, <2>2
  <2> QED BY <1>2, <1>6, <2>3
<1>8. CASE IsDirectory(S, vf) /\ \E stop : \E P \in PartialWalks(S, vf, stop) : \E up \in CopiedUp(P, vf) :
             Reply(up.s, open, up.d, "error")
  <2>0. PICK stop : \E P \in PartialWalks(S, vf, stop) : \E up \in CopiedUp(P, vf) :
                      Reply(up.s, open, up.d, "error")
    BY <1>8
  <2>1. PICK P \in PartialWalks(S, vf, stop) : \E up \in CopiedUp(P, vf) : Reply(up.s, open, up.d, "error")
    BY <2>0
  <2>2. P \subseteq Paths /\ \A p \in P : Reachable(S, p)
    BY <1>2, <1>3, <1>8
  <2> QED BY <1>6, <2>1, <2>2
<1>9. CASE CopyUpFails(vf)
  <2>1. UNCHANGED View
    BY <1>1, <1>9, CopyUpFailsServes
  <2> QED BY <2>1 DEF KeepsView
<1>10. \/ \E up \in CopiedUp(visits, vf) : FinishRename(up.s, up.d, up.at, vf, vt)
       \/ IsDirectory(S, vf) /\ \E stop : \E P \in PartialWalks(S, vf, stop) : \E up \in CopiedUp(P, vf) :
            Reply(up.s, open, up.d, "error")
       \/ CopyUpFails(vf)
  BY ErrorIs DEF VfsRename
<1> QED BY <1>7, <1>8, <1>9, <1>10

\* An operation that fails, whatever the host did, takes nothing away.
LEMMA FailureKeeps ==
  ASSUME Kept = {}, Inv, rc' = "error", Next
  PROVE  KeepsView
<1>1. CASE NameStep
  BY <1>1, NameStepKeeps DEF NameStep
<1>2. CASE DataStep
  BY <1>2, DataStepKeeps DEF KeepsView
<1>3. CASE RenameStep
  BY <1>3, RenameStepKeeps DEF RenameStep
<1>4. CASE LinkStep
  BY <1>4, LinkStepKeeps DEF LinkStep, KeepsView
<1>5. ~SessionStep
  BY DEF SessionStep, Remount, Relaunch, Reply
<1> QED BY <1>1, <1>2, <1>3, <1>4, <1>5 DEF Next

\* Where no folder is kept, an operation that returns an error takes nothing
\* away, whatever host call failed: vfsops.cpp, overlay.cpp (CopyUp).
THEOREM UnkeptFailureCorrect ==
  ASSUME Kept = {}
  PROVE  Spec => FailureLosesNothing
<1>1. Inv /\ [Next]_vars =>
        [rc' = "error" => \A v \in Paths : View[v] # Absent => View'[v] = View[v]]_vars
  BY FailureKeeps DEF KeepsView
<1> QED BY <1>1, UnkeptAlways, PTL DEF Spec, FailureLosesNothing

(***************************************************************************)
(* The layers where no folder is kept.                                     *)
(***************************************************************************)
\* What is mounted, and where, are paths.
LEMMA LayerPaths ==
  ASSUME NEW i \in DOMAIN Layers
  PROVE  LET L == Layers[i]
         IN  /\ L.target \in VPath /\ L.subpath \in VPath /\ L.fileVPath \in VPath
             /\ L.maskedUnder \subseteq VPath /\ DOMAIN L.tree \subseteq VPath
             /\ Presence(L) \in VPath
             /\ \A v : SourceRel(L, v) = IF L.type = "File" THEN Root ELSE Rebase(v, L.target, L.subpath)
<1> DEFINE L == Layers[i]
<1>1. {L.target, L.subpath, L.fileVPath} \cup L.maskedUnder \cup DOMAIN L.tree \subseteq Seq(STRING)
  BY LayersAssumption
<1> HIDE DEF L
<1>2. /\ L.target \in VPath /\ L.subpath \in VPath /\ L.fileVPath \in VPath
      /\ L.maskedUnder \subseteq VPath /\ DOMAIN L.tree \subseteq VPath
  BY <1>1 DEF VPath
<1> QED BY <1>2 DEF L, Presence, SourceRel, RelUnder, Rebase

\* The directories above what a source holds are in it, too.
LEMMA SourceUpward ==
  ASSUME NEW i \in DOMAIN Layers, NEW q \in DOMAIN Layers[i].tree, NEW a \in VPath, Within(q, a)
  PROVE  a \in DOMAIN Layers[i].tree
<1> DEFINE D == DOMAIN Layers[i].tree
           T == {x \in VPath : Within(q, x) /\ Within(x, a) /\ x \in D}
<1>1. D \subseteq VPath /\ \A x \in D : x # Root => ParentVRel(x) \in D
  BY LayerPaths, LayersAssumption
<1>2. q \in T
  BY <1>1, WithinReflexive
<1> HIDE DEF D
<1>3. PICK x \in T : \A y \in T : Len(x) <= Len(y)
  <2>1. T \subseteq VPath /\ T # {}
    BY <1>2
  <2> HIDE DEF T
  <2> QED BY <2>1, ShortestPath
<1>4. SUFFICES ASSUME x # a PROVE FALSE
  BY <1>3 DEF D
<1>5. x # Root
  BY <1>3, <1>4, WithinRoot
<1>6. /\ ParentVRel(x) \in VPath /\ Within(x, ParentVRel(x)) /\ Len(ParentVRel(x)) = Len(x) - 1
      /\ Within(ParentVRel(x), a)
  BY <1>3, <1>4, <1>5, ParentIs
<1>7. Within(q, ParentVRel(x)) /\ ParentVRel(x) \in D
  BY <1>1, <1>2, <1>3, <1>5, <1>6, WithinTransitive
<1>8. ParentVRel(x) \in T /\ Len(x) \in Nat
  BY <1>3, <1>6, <1>7 DEF VPath
<1> QED BY <1>3, <1>6, <1>8

\* A mask hides all that is below.
LEMMA MaskedBelow ==
  ASSUME NEW i \in DOMAIN Layers, NEW v \in VPath, NEW p \in VPath, Within(p, v),
         LayerMasked(Layers[i], v)
  PROVE  LayerMasked(Layers[i], p)
<1>1. Layers[i].maskedUnder \subseteq VPath
  BY LayerPaths
<1> QED BY <1>1, WithinTransitive DEF LayerMasked

\* A mount that is shown below v makes v a structural directory.
LEMMA StructuralAbove ==
  ASSUME NEW v \in VPath, v # Root, NEW i \in DOMAIN Layers,
         ~LayerMasked(Layers[i], Presence(Layers[i])),
         Within(Presence(Layers[i]), v), Presence(Layers[i]) # v
  PROVE  v \in ImplicitDirs
<1>1. v \in Ancestors(Presence(Layers[i]))
  BY LayerPaths, AncestorsAre
<1> DEFINE shown == {j \in DOMAIN Layers : ~LayerMasked(Layers[j], Presence(Layers[j]))}
           over == UNION {Ancestors(Presence(Layers[j])) : j \in shown}
<1>2. v \in over
  BY <1>1
<1>3. ImplicitDirs = over \ {Root}
  BY DEF ImplicitDirs
<1> QED BY <1>2, <1>3

\* There is a lower entry where a layer answers or a directory is structural.
LEMMA BaseIs ==
  ASSUME NEW v \in Paths
  PROVE  Base(v) # Absent <=> Hits[v] # {} \/ v \in ImplicitDirs
<1> SUFFICES ASSUME Hits[v] # {} PROVE Base(v) # Absent
  BY Distinct DEF Base
<1>1. Hits[v] \subseteq DOMAIN Layers /\ Hits[v] \subseteq Int
  BY HitsAre
<1>2. PICK i \in Hits[v] : \A j \in Hits[v] : j <= i
  BY <1>1, GreatestExists
<1>3. Topmost(Hits[v]) = i
  BY <1>1, <1>2, GreatestIs DEF Topmost
<1> QED BY <1>2, <1>3, LayerEntryIs, Distinct DEF Base

\* Where the layers have nothing they have nothing below.
LEMMA BaseIsTree ==
  ASSUME NEW v \in Paths, v # Root, NEW p \in Paths, Within(p, v), Base(p) # Absent
  PROVE  Base(v) # Absent
<1>1. v \in VPath /\ p \in VPath /\ p # Root
  BY PathsAre, WithinRoot
<1>2. SUFFICES Hits[v] # {} \/ v \in ImplicitDirs
  BY BaseIs
<1>3. ASSUME NEW i \in DOMAIN Layers, ~LayerMasked(Layers[i], Presence(Layers[i])),
             Within(Presence(Layers[i]), v), Presence(Layers[i]) # v
      PROVE  v \in ImplicitDirs
  BY <1>1, <1>3, StructuralAbove
<1>4. CASE Hits[p] # {}
  <2>1. PICK i \in Hits[p] : TRUE
    BY <1>4
  <2> DEFINE L == Layers[i]
  <2>2. i \in DOMAIN Layers /\ LayerHas(L, p)
    BY <2>1 DEF Hits
  <2>3. /\ L.target \in VPath /\ L.subpath \in VPath /\ Presence(L) \in VPath
        /\ \A w : SourceRel(L, w) = IF L.type = "File" THEN Root ELSE Rebase(w, L.target, L.subpath)
    BY <2>2, LayerPaths
  <2>4. \A w \in VPath : Within(p, w) => ~LayerMasked(L, w)
    BY <1>1, <2>2, MaskedBelow DEF LayerHas
  <2>5. ~L.rw /\ LayerCovers(L, p) /\ SourceRel(L, p) \in DOMAIN L.tree
    BY <2>2 DEF LayerHas
  <2>6. CASE p = v
    BY <1>4, <2>6
  <2>7. CASE p # v /\ L.type = "File"
    <3>1. Presence(L) = p
      BY <2>5, <2>7 DEF LayerCovers, Presence
    <3> QED BY <1>1, <1>3, <2>2, <2>4, <2>7, <3>1, WithinReflexive
  <2>8. CASE p # v /\ L.type # "File"
    <3>1. Presence(L) = L.target /\ Within(p, L.target)
      BY <2>5, <2>8 DEF LayerCovers, Presence
    <3>2. CASE Within(v, L.target)
      <4>0. /\ SourceRel(L, p) = Rebase(p, L.target, L.subpath)
            /\ SourceRel(L, v) = Rebase(v, L.target, L.subpath)
        BY <2>3, <2>8
      <4> HIDE DEF L
      <4>1. Within(SourceRel(L, p), SourceRel(L, v)) /\ SourceRel(L, v) \in VPath
        <5>1. Within(Rebase(p, L.target, L.subpath), Rebase(v, L.target, L.subpath))
          BY <1>1, <2>3, <3>1, <3>2, RebaseOrder
        <5>2. Rebase(v, L.target, L.subpath) \in VPath
          BY <1>1, <2>3, <3>2, RebaseBack
        <5> QED BY <4>0, <5>1, <5>2
      <4> USE DEF L
      <4>2. SourceRel(L, v) \in DOMAIN L.tree
        BY <2>2, <2>5, <4>1, SourceUpward
      <4>3. LayerHas(L, v)
        BY <1>1, <2>4, <2>5, <2>8, <3>2, <4>2 DEF LayerHas, LayerCovers
      <4> QED BY <2>2, <4>3 DEF Hits
    <3>3. CASE ~Within(v, L.target)
      <4>1. Within(L.target, v) /\ L.target # v
        BY <1>1, <2>3, <3>1, <3>3, WithinChain, WithinReflexive
      <4> QED BY <1>3, <2>2, <2>3, <2>4, <3>1, <4>1
    <3> QED BY <3>2, <3>3
  <2> QED BY <2>6, <2>7, <2>8
<1>5. CASE p \in ImplicitDirs
  <2>1. PICK i \in DOMAIN Layers : /\ ~LayerMasked(Layers[i], Presence(Layers[i]))
                                   /\ p \in Ancestors(Presence(Layers[i]))
    BY <1>5 DEF ImplicitDirs
  <2>2. Presence(Layers[i]) \in VPath
    BY LayerPaths
  <2>3. Within(Presence(Layers[i]), p) /\ Presence(Layers[i]) # p
    BY <1>1, <2>1, <2>2, AncestorsAre
  <2>4. Within(Presence(Layers[i]), v) /\ Presence(Layers[i]) # v
    BY <1>1, <2>2, <2>3, WithinTransitive, WithinAntisymmetric
  <2> QED BY <1>3, <2>1, <2>4
<1> QED BY <1>4, <1>5 DEF Base

\* What the layers have in a directory they list there.
LEMMA BaseIsListed ==
  ASSUME SourcesAgree, Kept = {}, NEW v \in Paths, NEW c \in Children(v), Base(c) # Absent
  PROVE  c \in LowerNames[v][0]
<1>1. c \in Paths /\ c \in VPath /\ v \in VPath /\ c # Root /\ ParentVRel(c) = v /\ Within(c, c)
  BY PathsAre, WithinReflexive DEF Children
<1>2. /\ Within(c, v) /\ c # v
      /\ \A a \in VPath : Within(c, a) /\ a # c <=> Within(v, a)
  BY <1>1, ParentIs
<1>3. Len(Layers) \in Nat /\ 0 \in 0 .. Len(Layers) /\ \A j \in DOMAIN Layers : 0 <= j
  BY LayersAssumption
<1>4. LowerNames[v][0] = (UNION {LayerLists(Layers[i], v) : i \in DOMAIN Layers})
                           \cup {x \in Children(v) : \E d \in ImplicitDirs : Within(d, x)}
  <2>1. {j \in DOMAIN Layers : 0 <= j} = DOMAIN Layers
    BY <1>3
  <2> QED BY <1>3, <2>1 DEF LowerNames
<1>5. CASE c \in ImplicitDirs
  <2>1. c \in {x \in Children(v) : \E d \in ImplicitDirs : Within(d, x)}
    BY <1>1, <1>5
  <2> QED BY <1>4, <2>1
<1>6. CASE Hits[c] # {}
  <2>1. PICK i \in Hits[c] : TRUE
    BY <1>6
  <2> DEFINE L == Layers[i]
  <2>2. i \in DOMAIN Layers /\ LayerHas(L, c)
    BY <1>1, <2>1 DEF Hits
  <2>3. /\ L.target \in VPath /\ L.subpath \in VPath /\ Presence(L) \in VPath
        /\ \A w : SourceRel(L, w) = IF L.type = "File" THEN Root ELSE Rebase(w, L.target, L.subpath)
    BY <2>2, LayerPaths
  <2>4. ~LayerMasked(L, v)
    BY <1>1, <1>2, <2>2, MaskedBelow DEF LayerHas
  <2>5. ~L.rw /\ LayerCovers(L, c) /\ SourceRel(L, c) \in DOMAIN L.tree
    BY <2>2 DEF LayerHas
  <2>6. c \in LayerLists(L, v)
    <3>1. CASE L.type = "File"
      BY <2>4, <2>5, <3>1 DEF LayerLists, LayerCovers
    <3>2. CASE L.type # "File" /\ c = L.target
      BY <1>1, <2>4, <3>2 DEF LayerLists, Presence
    <3>3. CASE L.type # "File" /\ c # L.target
      <4>1. Within(c, L.target)
        BY <2>5, <3>3 DEF LayerCovers
      <4>2. Within(v, L.target)
        BY <1>2, <2>3, <3>3, <4>1
      <4>3. SourceRel(L, c) # Root /\ ParentVRel(SourceRel(L, c)) = SourceRel(L, v)
        BY <1>1, <2>3, <3>3, <4>1, RebaseParent
      <4>4. SourceRel(L, v) \in DOMAIN L.lists /\ SourceRel(L, c) \in L.lists[SourceRel(L, v)]
        BY <2>2, <2>5, <4>3 DEF SourcesAgree, SourceAgrees
      <4> QED BY <2>4, <2>5, <3>3, <4>2, <4>4 DEF LayerLists, LayerCovers
    <3> QED BY <3>1, <3>2, <3>3
  <2> QED BY <1>4, <2>2, <2>6
<1> QED BY <1>5, <1>6 DEF Base

\* What the layers list in a directory they have there.
LEMMA ListedIsServed ==
  ASSUME SourcesAgree, MountsAreServed, Kept = {},
         NEW v \in Paths, NEW c \in LowerNames[v][0]
  PROVE  Hits[c] # {} \/ c \in ImplicitDirs
<1>3. Len(Layers) \in Nat /\ 0 \in 0 .. Len(Layers) /\ \A j \in DOMAIN Layers : 0 <= j
  BY LayersAssumption
<1>4. LowerNames[v][0] = (UNION {LayerLists(Layers[i], v) : i \in DOMAIN Layers})
                           \cup {x \in Children(v) : \E d \in ImplicitDirs : Within(d, x)}
  <2>1. {j \in DOMAIN Layers : 0 <= j} = DOMAIN Layers
    BY <1>3
  <2> QED BY <1>3, <2>1 DEF LowerNames
<1>5. c \in Children(v)
  BY <1>4 DEF LayerLists
<1>1. c \in Paths /\ c \in VPath /\ v \in VPath /\ c # Root /\ ParentVRel(c) = v
  BY <1>5, PathsAre DEF Children
<1>2. /\ Within(c, v) /\ c # v
      /\ \A a \in VPath : Within(c, a) /\ a # c <=> Within(v, a)
  BY <1>1, ParentIs
\* A structural directory may lie below one.
<1>6. CASE \E d \in ImplicitDirs : Within(d, c)
  <2>1. PICK d \in ImplicitDirs : Within(d, c)
    BY <1>6
  <2>2. PICK i \in DOMAIN Layers : /\ ~LayerMasked(Layers[i], Presence(Layers[i]))
                                   /\ d \in Ancestors(Presence(Layers[i])) /\ d # Root
    BY <2>1 DEF ImplicitDirs
  <2>3. Presence(Layers[i]) \in VPath
    BY <2>2, LayerPaths
  <2>4. d \in VPath
    BY <2>2, <2>3, AncestorsArePaths
  <2>5. Within(Presence(Layers[i]), d) /\ Presence(Layers[i]) # d
    BY <2>2, <2>3, <2>4, AncestorsAre
  <2>6. Within(Presence(Layers[i]), c) /\ Presence(Layers[i]) # c
    BY <1>1, <2>1, <2>3, <2>4, <2>5, WithinTransitive, WithinAntisymmetric
  <2> QED BY <1>1, <2>2, <2>3, <2>6, StructuralAbove
<1>7. CASE \E i \in DOMAIN Layers : c \in LayerLists(Layers[i], v)
  <2>1. PICK i \in DOMAIN Layers : c \in LayerLists(Layers[i], v)
    BY <1>7
  <2> DEFINE L == Layers[i]
  <2>2. /\ L.target \in VPath /\ L.subpath \in VPath /\ Presence(L) \in VPath
        /\ L.maskedUnder \subseteq VPath
        /\ \A w : SourceRel(L, w) = IF L.type = "File" THEN Root ELSE Rebase(w, L.target, L.subpath)
    BY <2>1, LayerPaths
  <2>3. ~LayerMasked(L, v) /\ ~L.rw
    BY <2>1 DEF LayerLists, Kept
  <2>4. \A m \in L.maskedUnder : Within(c, m) => m = c
    BY <1>2, <2>2, <2>3 DEF LayerMasked
  \* Where a delta hides what is listed, it surfaces itself.
  <2>5. CASE c \in L.maskedUnder \cup {Presence(L)}
    BY <1>1, <2>1, <2>3, <2>5 DEF MountsAreServed
  <2>6. CASE c \notin L.maskedUnder /\ Within(Presence(L), c) /\ c # Presence(L)
    <3>1. CASE ~LayerMasked(L, Presence(L))
      BY <1>1, <2>1, <2>2, <2>6, <3>1, StructuralAbove
    <3>2. CASE LayerMasked(L, Presence(L))
      <4>1. PICK m \in L.maskedUnder : Within(Presence(L), m)
        BY <3>2 DEF LayerMasked
      <4>2. Within(m, c) /\ m # c /\ m # Root
        <5>1. m \in VPath /\ ~Within(c, m)
          BY <2>2, <2>4, <2>6, <4>1
        <5>2. Within(m, c)
          BY <1>1, <2>2, <2>6, <4>1, <5>1, WithinChain
        <5>3. m # Root
          BY <1>1, <5>1, WithinRoot
        <5> QED BY <2>6, <5>2, <5>3
      <4>3. m \in Paths /\ (Hits[m] # {} \/ m \in ImplicitDirs)
        BY <2>1, <2>3, <4>1, <4>2 DEF MountsAreServed
      <4> QED BY <1>1, <4>2, <4>3, BaseIsTree, BaseIs
    <3> QED BY <3>1, <3>2
  <2>7. CASE c \notin L.maskedUnder \cup {Presence(L)} /\ ~Within(Presence(L), c)
    <3>1. /\ LayerCovers(L, v) /\ SourceRel(L, v) \in DOMAIN L.lists
          /\ SourceRel(L, c) \in L.lists[SourceRel(L, v)]
      <4>1. L.type = "File" => Presence(L) = L.fileVPath
        BY DEF Presence
      <4> QED BY <2>1, <2>7, <4>1 DEF LayerLists
    <3>2. SourceRel(L, c) \in DOMAIN L.tree \ {Root}
      BY <2>1, <2>3, <3>1 DEF SourcesAgree, SourceAgrees
    <3>3. L.type # "File" /\ Within(v, L.target)
      BY <2>2, <3>1, <3>2 DEF LayerCovers
    <3>4. LayerCovers(L, c)
      BY <1>1, <1>2, <2>2, <3>3, WithinTransitive DEF LayerCovers
    <3>5. ~LayerMasked(L, c)
      BY <2>4, <2>7 DEF LayerMasked
    <3>6. LayerHas(L, c)
      BY <2>3, <3>2, <3>4, <3>5 DEF LayerHas
    <3> QED BY <1>1, <2>1, <3>6 DEF Hits
  <2>8. \/ (c \notin L.maskedUnder /\ Within(Presence(L), c) /\ c # Presence(L))
        \/ (c \in L.maskedUnder \cup {Presence(L)})
        \/ (c \notin L.maskedUnder \cup {Presence(L)} /\ ~Within(Presence(L), c))
    OBVIOUS
  <2> QED BY <2>5, <2>6, <2>7, <2>8
<1>8. (\E i \in DOMAIN Layers : c \in LayerLists(Layers[i], v)) \/ \E d \in ImplicitDirs : Within(d, c)
  BY <1>4
<1> QED BY <1>6, <1>7, <1>8

\* What is served in a directory is listed there; and all that is listed is
\* served if the layers serve what they list and the directory has no mask
\* above it.
LEMMA ListingIs ==
  ASSUME SourcesAgree, Kept = {}, NEW s, Good(s), Masked(s), NEW v \in Paths, NEW c \in Children(v)
  PROVE  /\ Exists(s, c) => c \in CollectChildren(s, v)
         /\ /\ c \in CollectChildren(s, v) /\ (Base(c) # Absent \/ c \notin LowerNames[v][0])
            /\ "marker" \notin HostFaults /\ ~IsDeleted(s, Wl, v) /\ ~IsUnderMask(s, Wl, v)
            => Exists(s, c)
<1>1. /\ c \in Paths /\ c # Root /\ ParentVRel(c) = v /\ KeptOver[v] = {}
      /\ Stores = {Wl} /\ StoreRoot(Wl) = Root
  BY EntryIs, StoresAre DEF Children, KeptOver
<1>2. /\ Above[Wl][c] = Above[Wl][v] \cup {v}
  BY <1>1, AboveAre, HomeBelongs, EntryIs
<1>3. CollectChildren(s, v) =
        (IF v \in s[Wl].opq THEN {x \in Children(v) : s[Wl].tree[x] # Absent}
         ELSE {x \in Children(v) : s[Wl].tree[x] # Absent} \cup LowerNames[v][0]) \ s[Wl].wh
  <2>1. Topmost({Wl} \cup {k \in KeptOver[v] : v \in s[k].opaque}) = 0
    <3>1. {Wl} \cup {k \in KeptOver[v] : v \in s[k].opaque} = {Wl}
      BY <1>1
    <3> QED BY <3>1 DEF Topmost, Wl
  <2> QED BY <1>1, <2>1 DEF CollectChildren
<1>4. /\ s[Wl].wh \subseteq s[Wl].deleted /\ s[Wl].opq \subseteq s[Wl].opaque
      /\ "marker" \notin HostFaults => s[Wl].deleted = s[Wl].wh /\ s[Wl].opaque = s[Wl].opq
  BY <1>1 DEF Masked
<1>5. Exists(s, c) <=> Entry(s, c) # Absent
  BY <1>1, EntryIs
<1>6. IsUnderMask(s, Wl, c) <=> IsUnderMask(s, Wl, v) \/ IsDeleted(s, Wl, v) \/ v \in s[Wl].opaque
  BY <1>2 DEF IsUnderMask
<1>7. Exists(s, c) => c \in CollectChildren(s, v)
  <2> SUFFICES ASSUME Exists(s, c) PROVE c \in CollectChildren(s, v)
    OBVIOUS
  <2>1. c \notin s[Wl].wh
    BY <1>1, <1>4, <1>5, EntryIs
  <2>2. CASE s[Wl].tree[c] # Absent
    BY <1>3, <2>1, <2>2
  <2>3. CASE s[Wl].tree[c] = Absent
    <3>1. ~IsUnderMask(s, Wl, c) /\ Base(c) # Absent
      BY <1>1, <1>5, <2>3, EntryIs
    <3>2. v \notin s[Wl].opq /\ c \in LowerNames[v][0]
      BY <1>4, <1>6, <3>1, BaseIsListed
    <3> QED BY <1>3, <2>1, <3>2
  <2> QED BY <2>2, <2>3
<1>8. ASSUME c \in CollectChildren(s, v), Base(c) # Absent \/ c \notin LowerNames[v][0],
             "marker" \notin HostFaults, ~IsDeleted(s, Wl, v), ~IsUnderMask(s, Wl, v)
      PROVE  Exists(s, c)
  <2>1. c \notin s[Wl].deleted
    BY <1>3, <1>4, <1>8
  <2>2. CASE s[Wl].tree[c] # Absent
    BY <1>1, <1>5, <2>1, <2>2, EntryIs
  <2>3. CASE s[Wl].tree[c] = Absent
    <3>1. v \notin s[Wl].opaque /\ Base(c) # Absent
      BY <1>3, <1>4, <1>8, <2>3
    <3> QED BY <1>1, <1>5, <1>6, <1>8, <2>1, <2>3, <3>1, EntryIs
  <2> QED BY <2>2, <2>3
<1> QED BY <1>7, <1>8

\* What is served in a directory is what is listed there.
LEMMA ListingHolds ==
  ASSUME SourcesAgree, MountsAreServed, Kept = {}, "marker" \notin HostFaults, Inv
  PROVE  ListingExact
<1> SUFFICES ASSUME NEW v \in Paths, NEW c \in Children(v)
             PROVE  /\ Exists(S, c) => c \in CollectChildren(S, v)
                    /\ c \in CollectChildren(S, v) /\ ~IsDeleted(S, Wl, v) /\ ~IsUnderMask(S, Wl, v)
                       => Exists(S, c)
  <2>1. ASSUME NEW v \in Paths PROVE CollectChildren(S, v) \subseteq Children(v)
    <3>1. Good(S) /\ KeptOver[v] = {} /\ Stores = {Wl}
      BY EntryIs DEF Inv, KeptOver
    <3>2. 0 \in 0 .. Len(Layers)
      BY LayersAssumption
    <3>3. LowerNames[v][0] \subseteq Children(v)
      BY <3>2 DEF LowerNames, LayerLists
    <3>4. Topmost({Wl} \cup {k \in KeptOver[v] : v \in S[k].opaque}) = 0
      <4>1. {Wl} \cup {k \in KeptOver[v] : v \in S[k].opaque} = {Wl}
        BY <3>1
      <4> QED BY <4>1 DEF Topmost, Wl
    <3> QED BY <3>1, <3>3, <3>4 DEF CollectChildren
  <2>2. \A v : Stores = {Wl} /\ (\A h \in Stores : ~(IsDeleted(S, h, v) \/ IsUnderMask(S, h, v)))
               => ~IsDeleted(S, Wl, v) /\ ~IsUnderMask(S, Wl, v)
    OBVIOUS
  <2>3. Stores = {Wl}
    BY DEF Stores
  <2> QED BY <2>1, <2>2, <2>3 DEF ListingExact
<1>1. Good(S) /\ Masked(S)
  BY DEF Inv
<1>2. Base(c) # Absent \/ c \notin LowerNames[v][0]
  BY BaseIs, ListedIsServed DEF Children
<1> QED BY <1>1, <1>2, ListingIs

\* Where no folder is kept and every marker can be written, VfsReaddir and
\* VfsGetattr agree (ListingExact), whatever else fails or is killed.
THEOREM UnkeptListingCorrect ==
  ASSUME Kept = {}, SourcesAgree, MountsAreServed, "marker" \notin HostFaults
  PROVE  Spec => []ListingExact
<1>1. Inv => ListingExact
  BY ListingHolds
<1> QED BY <1>1, UnkeptAlways, PTL

(***************************************************************************)
(* The ordinary tree: every operation that succeeds is one step of it.     *)
(***************************************************************************)
\* The tree of PlainTree in the terms of Overlay.
LEMMA PlainIs ==
  ASSUME NEW p \in Paths, NEW v \in Paths
  PROVE  /\ Plain!IsBelow(p, v) <=> Within(p, v) /\ p # v
         /\ p \in Plain!Below(v) <=> Within(p, v) /\ p # v
         /\ Plain!Parent(v) = ParentVRel(v)
<1>1. p \in VPath /\ v \in VPath /\ Len(p) \in Nat /\ Len(v) \in Nat
  BY PathsAre DEF VPath
<1>2. ASSUME Within(p, v), p # v PROVE Len(v) < Len(p)
  <2>1. SUFFICES ASSUME Len(v) = Len(p) PROVE FALSE
    BY <1>1, <1>2 DEF Within
  <2>2. SubSeq(p, 1, Len(p)) = p
    BY <1>1 DEF VPath
  <2> QED BY <1>2, <2>1, <2>2 DEF Within
<1>3. Plain!IsBelow(p, v) <=> Within(p, v) /\ p # v
  BY <1>1, <1>2 DEF Plain!IsBelow, Within
<1> QED BY <1>3 DEF Plain!Below, Plain!Parent, ParentVRel

\* Nothing is seen below what is not seen as a directory, nor in a directory
\* that has no child.
LEMMA NothingBelow ==
  ASSUME Kept = {}, NEW s, Good(s), NEW d \in [Inodes -> Contents], NEW v \in Paths,
         IsDirectory(s, v) => \A c \in Children(v) : ~Exists(s, c),
         NEW p \in Paths, Within(p, v), p # v
  PROVE  Serves(s, d, p) = Absent
<1>1. p \in VPath /\ v \in VPath /\ KeptOnTop
  BY PathsAre, EntryIs
<1>2. SUFFICES ~Reachable(s, p) \/ ~Exists(s, p)
  BY ServesIs
<1>3. SUFFICES ASSUME Reachable(s, p) PROVE ~Exists(s, p)
  BY <1>2
<1>4. IsDirectory(s, v)
  BY <1>3, ReachableIs
<1>5. PICK c \in VPath : Within(p, c) /\ c # Root /\ ParentVRel(c) = v
  BY <1>1, ChildTowards
<1>6. c \in Children(v) /\ c \in Paths
  BY <1>5, UpwardClosed DEF Children
<1>7. ~Exists(s, c) /\ ~IsDirectory(s, c)
  BY <1>1, <1>4, <1>6, DirectoryIs
<1> QED BY <1>3, <1>5, <1>6, <1>7, ReachableIs

\* Two states differ at and below v and w alone, but for directories that the
\* host made above v or w.
Beside(s, e, v, w) ==
  \A p \in Paths : ~Within(p, v) /\ ~Within(p, w) =>
    /\ \/ e[Wl].tree[p] = s[Wl].tree[p]
       \/ s[Wl].tree[p] = Absent /\ e[Wl].tree[p] = Dir /\ p \in Above[Wl][v] \cup Above[Wl][w]
    /\ p \in e[Wl].deleted <=> p \in s[Wl].deleted
    /\ p \in e[Wl].opaque <=> p \in s[Wl].opaque

LEMMA BesideThen ==
  ASSUME NEW s, NEW e, NEW g, NEW v, NEW w, Beside(s, e, v, w), Beside(e, g, v, w)
  PROVE  Beside(s, g, v, w)
<1> QED BY DEF Beside

\* Then a program sees the same elsewhere.
LEMMA BesideServes ==
  ASSUME Kept = {}, NEW s, Good(s), NEW d \in [Inodes -> Contents],
         NEW e, Good(e), NEW f \in [Inodes -> Contents], NEW v \in Paths, NEW w \in Paths,
         v # Root, w # Root, ~Within(v, w) \/ v = w, ~Within(w, v) \/ v = w,
         Reachable(s, v), Reachable(s, w), Beside(s, e, v, w),
         \A p \in Paths : ~Within(p, v) /\ ~Within(p, w) /\ s[Wl].tree[p] \in Inodes =>
           f[s[Wl].tree[p]] = d[s[Wl].tree[p]]
  PROVE  /\ \A p \in Paths : ~Within(p, v) /\ ~Within(p, w) => Serves(e, f, p) = Serves(s, d, p)
         /\ Reachable(e, v) /\ Reachable(e, w)
<1>1. PICK Q : Q = {p \in Paths : Within(p, v) \/ Within(p, w)}
  OBVIOUS
<1>2. \A p, q \in Paths : q \in Q /\ Within(p, q) => p \in Q
  BY <1>1, PathsAre, WithinTransitive
<1>3. ASSUME NEW p \in Paths, p \notin Q, Reachable(s, p)
      PROVE  Content(d, Entry(s, p)) = Content(f, Entry(e, p))
  <2>1. ~Within(p, v) /\ ~Within(p, w) /\ p \in VPath
    BY <1>1, <1>3, PathsAre
  <2>2. \A a \in Above[Wl][p] : ~Within(a, v) /\ ~Within(a, w) /\ a \in Paths
    <3> TAKE a \in Above[Wl][p]
    <3>1. a \in Paths /\ Within(p, a)
      BY AboveAre, StoresAre
    <3> QED BY <2>1, <3>1, PathsAre, WithinTransitive
  <2>3. IsUnderMask(e, Wl, p) <=> IsUnderMask(s, Wl, p)
    BY <2>2 DEF Beside, IsUnderMask, IsDeleted
  <2>4. p \in e[Wl].deleted <=> p \in s[Wl].deleted
    BY <2>1 DEF Beside
  <2>5. CASE e[Wl].tree[p] = s[Wl].tree[p]
    <3>1. Entry(e, p) = Entry(s, p)
      BY <2>3, <2>4, <2>5, EntryIs
    <3>2. Entry(s, p) \in Inodes => f[Entry(s, p)] = d[Entry(s, p)]
      BY <2>1, ServedInode
    <3> QED BY <3>1, <3>2 DEF Content
  <2>6. CASE s[Wl].tree[p] = Absent /\ e[Wl].tree[p] = Dir /\ p \in Above[Wl][v] \cup Above[Wl][w]
    <3>1. Entry(s, p) = Dir
      BY <2>6 DEF Reachable, IsDirectory, Entry
    <3>2. Entry(e, p) = Dir
      BY <2>3, <2>4, <2>6, <3>1, EntryIs, Distinct
    <3> QED BY <3>1, <3>2, Distinct DEF Content
  <2> QED BY <2>1, <2>5, <2>6 DEF Beside
<1>4. /\ \A p \in Paths : p \notin Q => Serves(e, f, p) = Serves(s, d, p)
      /\ \A p \in Paths : p \notin Q => (Reachable(e, p) <=> Reachable(s, p))
  BY <1>2, <1>3, ServesAgree
<1>5. /\ ParentVRel(v) \in Paths /\ ParentVRel(v) \notin Q
      /\ ParentVRel(w) \in Paths /\ ParentVRel(w) \notin Q
  <2>1. /\ ParentVRel(v) \in Paths /\ Within(v, ParentVRel(v)) /\ ParentVRel(v) # v
        /\ ParentVRel(w) \in Paths /\ Within(w, ParentVRel(w)) /\ ParentVRel(w) # w
    BY PathsAre, ParentIs
  <2>2. ~Within(ParentVRel(v), v) /\ ~Within(ParentVRel(w), w)
    BY <2>1, PathsAre, WithinAntisymmetric
  <2>3. ~Within(ParentVRel(v), w) /\ ~Within(ParentVRel(w), v)
    BY <2>1, <2>2, PathsAre, WithinTransitive
  <2> QED BY <1>1, <2>1, <2>2, <2>3
<1> QED BY <1>1, <1>4, <1>5, ServesIs

\* The helpers that work on one name.
LEMMA EnsureParentBeside ==
  ASSUME NEW s \in VfsState, NEW v \in Paths, NEW w \in Paths
  PROVE  LET e == EnsureParent(s, Wl, v)
         IN  /\ e \in VfsState /\ Beside(s, e, v, w) /\ Beside(s, e, w, v)
             /\ e[Wl].deleted = s[Wl].deleted /\ e[Wl].opaque = s[Wl].opaque
             /\ \A p \in Paths : Within(p, v) => e[Wl].tree[p] = s[Wl].tree[p]
<1> DEFINE e == EnsureParent(s, Wl, v)
<1>1. /\ e \in VfsState
      /\ e[Wl].deleted = s[Wl].deleted /\ e[Wl].opaque = s[Wl].opaque
      /\ \A p \in Paths : e[Wl].tree[p] = IF p \in Above[Wl][v] /\ s[Wl].tree[p] = Absent THEN Dir
                                          ELSE s[Wl].tree[p]
  BY EnsureParentIs, StoresAre
<1> HIDE DEF e
<1>2. \A p \in Paths : Within(p, v) => p \notin Above[Wl][v]
  BY AboveAre, StoresAre, PathsAre, WithinAntisymmetric
<1> QED BY <1>1, <1>2 DEF Beside, e

LEMMA PutBeside ==
  ASSUME NEW s \in VfsState, NEW v \in Paths, NEW w \in Paths, NEW x \in Inodes \cup {Dir, Absent}
  PROVE  LET e == Put(s, Wl, v, x)
         IN  /\ e \in VfsState /\ Beside(s, e, v, w) /\ Beside(s, e, w, v)
             /\ e[Wl].deleted = s[Wl].deleted /\ e[Wl].opaque = s[Wl].opaque
             /\ e[Wl].tree[v] = x /\ \A p \in Paths : p # v => e[Wl].tree[p] = s[Wl].tree[p]
<1> DEFINE e == Put(s, Wl, v, x)
<1>1. /\ e \in VfsState
      /\ e[Wl].deleted = s[Wl].deleted /\ e[Wl].opaque = s[Wl].opaque
      /\ e[Wl].tree[v] = x /\ \A p \in Paths : p # v => e[Wl].tree[p] = s[Wl].tree[p]
  BY StoresAre DEF Put, VfsState
<1> HIDE DEF e
<1>2. \A p \in Paths : ~Within(p, v) => p # v
  BY PathsAre, WithinReflexive
<1> QED BY <1>1, <1>2 DEF Beside, e

LEMMA RemoveWhiteoutBeside ==
  ASSUME NEW s \in VfsState, NEW v \in Paths, NEW w \in Paths
  PROVE  LET e == RemoveWhiteout(s, v)
         IN  /\ e \in VfsState /\ Beside(s, e, v, w) /\ Beside(s, e, w, v)
             /\ e[Wl].deleted = s[Wl].deleted \ {v} /\ e[Wl].opaque = s[Wl].opaque
             /\ e[Wl].tree = s[Wl].tree
<1> DEFINE e == RemoveWhiteout(s, v)
<1>1. /\ e \in VfsState
      /\ e[Wl].deleted = s[Wl].deleted \ {v} /\ e[Wl].opaque = s[Wl].opaque
      /\ e[Wl].tree = s[Wl].tree
  BY ZenonT(60), StoresAre DEF RemoveWhiteout, VfsState
<1> HIDE DEF e
<1>2. \A p \in Paths : ~Within(p, v) => p # v
  BY PathsAre, WithinReflexive
<1> QED BY <1>1, <1>2 DEF Beside, e

LEMMA PrepareBeside ==
  ASSUME Kept = {}, NEW s \in VfsState, NEW v \in Paths, NEW w \in Paths
  PROVE  LET e == Prepare(s, v)
         IN  /\ e \in VfsState /\ Beside(s, e, v, w) /\ Beside(s, e, w, v)
             /\ e[Wl].deleted = s[Wl].deleted \ {v} /\ e[Wl].opaque = s[Wl].opaque
             /\ \A p \in Paths : Within(p, v) => e[Wl].tree[p] = s[Wl].tree[p]
<1> DEFINE r == RemoveWhiteout(s, v)
           e == EnsureParent(r, Wl, v)
<1>1. Prepare(s, v) = e
  <2>1. KeptOnTop
    BY DEF KeptOnTop
  <2>2. Home[v] = Wl
    BY <2>1, HomeIs
  <2> QED BY <2>2 DEF Prepare
<1>2. /\ r \in VfsState /\ Beside(s, r, v, w) /\ Beside(s, r, w, v)
      /\ r[Wl].deleted = s[Wl].deleted \ {v} /\ r[Wl].opaque = s[Wl].opaque
      /\ r[Wl].tree = s[Wl].tree
  BY RemoveWhiteoutBeside
<1> HIDE DEF r
<1>3. /\ e \in VfsState /\ Beside(r, e, v, w) /\ Beside(r, e, w, v)
      /\ e[Wl].deleted = r[Wl].deleted /\ e[Wl].opaque = r[Wl].opaque
      /\ \A p \in Paths : Within(p, v) => e[Wl].tree[p] = r[Wl].tree[p]
  BY <1>2, EnsureParentBeside
<1> HIDE DEF e
<1>4. Beside(s, e, v, w) /\ Beside(s, e, w, v)
  BY <1>2, <1>3, BesideThen
<1> QED BY <1>1, <1>2, <1>3, <1>4

\* What is left of a name is hidden.
LEMMA HideRestBeside ==
  ASSUME Kept = {}, NEW s \in VfsState, NEW v \in Paths, NEW w \in Paths, NEW d,
         HideRest(s, d, v), rc' = "ok"
  PROVE  \E e : /\ Reply(e, open, d, "ok") /\ Beside(s, e, v, w) /\ Beside(s, e, w, v)
                /\ \A p \in Paths : Within(p, v) => e[Wl].tree[p] = s[Wl].tree[p]
<1>1. Home[v] = Wl
  BY HomeIs DEF KeptOnTop
<1>2. CASE Reply(s, open, d, "ok")
  <2>1. Beside(s, s, v, w) /\ Beside(s, s, w, v)
    BY DEF Beside
  <2> QED BY <1>2, <2>1
<1>3. CASE \E r \in HideLower(s, v) : Reply(r.s, open, d, r.code)
  <2>1. PICK written \in MarkerWritten : Reply(CreateWhiteout(s, v, written), open, d, "ok")
    BY <1>1, <1>3 DEF HideLower, Outcome
  <2> DEFINE e == CreateWhiteout(s, v, written)
             m == EnsureParent(s, Wl, v)
  <2>2. /\ m \in VfsState /\ Beside(s, m, v, w) /\ Beside(s, m, w, v)
        /\ \A p \in Paths : Within(p, v) => m[Wl].tree[p] = s[Wl].tree[p]
    BY EnsureParentBeside
  <2>3. e[Wl].tree = m[Wl].tree /\ e[Wl].deleted = m[Wl].deleted \cup {v} /\ e[Wl].opaque = m[Wl].opaque
    BY <2>2, StoresAre DEF CreateWhiteout, VfsState
  <2> HIDE DEF e, m
  <2>4. \A p \in Paths : ~Within(p, v) => p # v
    BY PathsAre, WithinReflexive
  <2>5. Beside(m, e, v, w) /\ Beside(m, e, w, v)
    BY <2>3, <2>4 DEF Beside
  <2>6. Beside(s, e, v, w) /\ Beside(s, e, w, v)
    BY <2>2, <2>5, BesideThen
  <2> QED BY <2>1, <2>2, <2>3, <2>6 DEF e
<1>4. ~Killed(s, d)
  BY DEF Killed
<1> QED BY <1>2, <1>3, <1>4 DEF HideRest

\* What is swept out of a directory before it goes was inside.
LEMMA SweepBeside ==
  ASSUME NEW s \in VfsState, NEW v \in Paths, NEW w \in Paths
  PROVE  LET e == Sweep(s, v)
         IN  /\ e \in VfsState /\ Beside(s, e, v, w) /\ Beside(s, e, w, v)
             /\ e[Wl].tree = s[Wl].tree
<1> DEFINE e == Sweep(s, v)
           wh == IF s[Wl].tree[v] = Dir THEN Inside(s[Wl].wh, v) ELSE {}
           opq == IF s[Wl].tree[v] = Dir THEN {v} \cap s[Wl].opq ELSE {}
<1>1. wh \subseteq Inside(s[Wl].wh, v) /\ opq \subseteq {v}
  OBVIOUS
<1>2. e = [s EXCEPT ![Wl].wh = @ \ wh, ![Wl].deleted = @ \ wh,
                    ![Wl].opq = @ \ opq, ![Wl].opaque = @ \ opq]
  BY DEF Sweep
<1> HIDE DEF wh, opq, e
<1>3. /\ e \in VfsState /\ e[Wl].tree = s[Wl].tree
      /\ e[Wl].deleted = s[Wl].deleted \ wh /\ e[Wl].opaque = s[Wl].opaque \ opq
  <2> DEFINE Store == [tree : [Paths -> Inodes \cup {Dir, Absent}],
                       wh : SUBSET Paths, opq : SUBSET Paths,
                       deleted : SUBSET Paths, opaque : SUBSET Paths]
             r == [s[Wl] EXCEPT !.wh = @ \ wh, !.deleted = @ \ wh, !.opq = @ \ opq, !.opaque = @ \ opq]
  <2>1. Wl \in Stores /\ s \in [Stores -> Store] /\ VfsState = [Stores -> Store] /\ s[Wl] \in Store
    BY StoresAre DEF VfsState
  <2>2. r \in Store /\ r.tree = s[Wl].tree /\ r.deleted = s[Wl].deleted \ wh /\ r.opaque = s[Wl].opaque \ opq
    BY <2>1
  <2>3. e = [s EXCEPT ![Wl] = r]
    BY <1>2, <2>1
  <2> HIDE DEF Store, r
  <2>4. e \in [Stores -> Store] /\ e[Wl] = r
    BY <2>1, <2>2, <2>3
  <2> QED BY <2>1, <2>2, <2>4
<1>4. \A p \in Paths : ~Within(p, v) => p # v /\ p \notin wh
  <2> TAKE p \in Paths
  <2>1. p \in wh => p # Root /\ ParentVRel(p) = v
    BY <1>1 DEF Inside
  <2> QED BY <2>1, PathsAre, WithinReflexive, ParentIs
<1> QED BY <1>1, <1>3, <1>4 DEF Beside, e

(***************************************************************************)
(* What appears, what goes, what changes.                                  *)
(***************************************************************************)
\* The step is one of the ordinary tree, or is not seen.
PlainStep == UNCHANGED View \/ Plain!Next

LEMMA PlainStepIs ==
  ASSUME \/ \E v \in Paths : Plain!Remove(View, View', v)
         \/ \E v \in Paths : \E e \in Contents \cup {Packed, Dir} : Plain!Make(View, View', v, e)
         \/ \E names \in SUBSET {v \in Paths : Plain!IsFile(View, v)} :
            \E c \in Contents \cup {Packed} : Plain!Modify(View, View', names, c)
         \/ \E vf, vt \in Paths : Plain!Rename(View, View', vf, vt)
  PROVE  PlainStep
<1> SUFFICES ASSUME View' # View PROVE Plain!Step(View, View')
  BY DEF PlainStep, Plain!Next
<1> QED BY DEF Plain!Step

\* The view is a function of the paths.
LEMMA ViewIs ==
  /\ View = [p \in Paths |-> View[p]] /\ View' = [p \in Paths |-> View'[p]]
  /\ \A p \in Paths : View[p] = Serves(S, data, p)
<1> QED BY DEF View

\* A name appears.
LEMMA MakesPlain ==
  ASSUME Kept = {}, Inv, NEW v \in Paths, Negative(v),
         NEW e, Good(e), NEW f \in [Inodes -> Contents], NEW o, Reply(e, o, f, "ok"),
         Beside(S, e, v, v),
         \A p \in Paths : S[Wl].tree[p] \in Inodes => f[S[Wl].tree[p]] = data[S[Wl].tree[p]],
         Exists(e, v), IsDirectory(e, v) => \A c \in Children(v) : ~Exists(e, c)
  PROVE  PlainStep
<1>1. Good(S) /\ data \in [Inodes -> Contents] /\ v # Root /\ Reachable(S, v) /\ ~Exists(S, v)
  BY DEF Inv, Negative
<1>2. \A p \in Paths : View'[p] = Serves(e, f, p)
  BY ReplyServes
<1>3. /\ \A p \in Paths : ~Within(p, v) => View'[p] = View[p]
      /\ Reachable(e, v)
  BY <1>1, <1>2, BesideServes, ViewIs
<1>4. View[v] = Absent /\ View[ParentVRel(v)] = Dir /\ View'[v] # Absent
      /\ View'[v] \in Contents \cup {Dir, Packed, Absent}
  BY <1>1, <1>2, <1>3, ServesIs, ViewIs, PathsAre
<1>5. \A p \in Paths : Within(p, v) /\ p # v => View[p] = Absent /\ View'[p] = Absent
  <2>1. ~IsDirectory(S, v)
    BY <1>1, DirectoryIs DEF KeptOnTop
  <2> QED BY <1>1, <1>2, <2>1, NothingBelow, ViewIs
<1>6. View' = [View EXCEPT ![v] = View'[v]]
  <2>1. \A p \in Paths : p # v => View'[p] = View[p]
    BY <1>3, <1>5
  <2> QED BY <2>1, ViewIs
<1>7. Plain!Make(View, View', v, View'[v])
  BY <1>1, <1>4, <1>6, PlainIs DEF Plain!Make, Plain!Free
<1>8. View'[v] \in Contents \cup {Packed, Dir}
  BY <1>4
<1> QED BY <1>7, <1>8, PlainStepIs

\* A name goes.
LEMMA RemovesPlain ==
  ASSUME Kept = {}, Inv, NEW v \in Paths, Positive(v),
         IsDirectory(S, v) => \A c \in Children(v) : ~Exists(S, c),
         NEW e, Good(e), NEW o, Reply(e, o, data, "ok"), Beside(S, e, v, v), View'[v] = Absent
  PROVE  PlainStep
<1>1. Good(S) /\ data \in [Inodes -> Contents] /\ v # Root /\ Reachable(S, v) /\ Exists(S, v)
  BY DEF Inv, Positive
<1>2. \A p \in Paths : View'[p] = Serves(e, data, p)
  BY <1>1, ReplyServes
<1>3. /\ \A p \in Paths : ~Within(p, v) => View'[p] = View[p]
      /\ Reachable(e, v)
  BY <1>1, <1>2, BesideServes, ViewIs
<1>4. View[v] # Absent /\ (View[v] = Dir <=> IsDirectory(S, v))
  BY <1>1, ServesIs, ViewIs
<1>5. \A p \in Paths : Within(p, v) /\ p # v => View[p] = Absent /\ View'[p] = Absent
  <2>1. ~IsDirectory(e, v)
    BY <1>1, <1>2, <1>3, ServesIs, Distinct
  <2> QED BY <1>1, <1>2, <2>1, NothingBelow, ViewIs
<1>6. View' = [View EXCEPT ![v] = Absent]
  <2>1. \A p \in Paths : p # v => View'[p] = View[p]
    BY <1>3, <1>5
  <2> QED BY <2>1, ViewIs
<1>7. \A p \in Plain!Below(v) : View[p] = Absent
  <2>1. Plain!Below(v) \subseteq Paths
    BY DEF Plain!Below
  <2> QED BY <1>5, <2>1, PlainIs
<1>8. Plain!Remove(View, View', v)
  BY <1>1, <1>4, <1>6, <1>7 DEF Plain!Remove, Plain!IsFile, Plain!IsEmptyDir
<1> QED BY <1>8, PlainStepIs

\* The data of a host file change.
LEMMA ModifiesPlain ==
  ASSUME Kept = {}, Inv, NEW s, Good(s), NEW d \in [Inodes -> Contents], Same(S, data, s, d),
         NEW i \in Inodes, NEW c \in Contents, NEW o, Reply(s, o, [d EXCEPT ![i] = c], "ok")
  PROVE  PlainStep
<1> DEFINE f == [d EXCEPT ![i] = c]
           names == {p \in Paths : Reachable(s, p) /\ Entry(s, p) = i}
<1>1. f \in [Inodes -> Contents] /\ f[i] = c /\ \A j \in Inodes : j # i => f[j] = d[j]
  OBVIOUS
<1>2. \A p \in Paths : View[p] = Serves(s, d, p)
  BY ViewIs DEF Same
<1> HIDE DEF f
<1>3. \A p \in Paths : View'[p] = Serves(s, f, p)
  BY <1>1, ReplyServes DEF f
<1>4. ASSUME NEW p \in Paths
      PROVE  /\ p \in names => View[p] = d[i] /\ View'[p] = c
             /\ p \notin names => View'[p] = View[p]
  BY <1>1, <1>2, <1>3 DEF Serves, Content, Entry
<1>5. \A p \in names : Plain!IsFile(View, p)
  <2>1. d[i] \in Contents
    OBVIOUS
  <2> QED BY <1>4, <2>1, Distinct DEF Plain!IsFile
<1>6. View' = [p \in Paths |-> IF p \in names THEN c ELSE View[p]]
  BY <1>4, ViewIs
<1>7. CASE names = {}
  <2>1. \A p \in Paths : View'[p] = View[p]
    BY <1>4, <1>7
  <2> QED BY <2>1, ViewIs DEF PlainStep
<1>8. CASE names # {}
  <2>1. Plain!Modify(View, View', names, c)
    BY <1>4, <1>6, <1>8 DEF Plain!Modify
  <2> HIDE DEF names
  <2>2. names \in SUBSET {v \in Paths : Plain!IsFile(View, v)}
    BY <1>5 DEF names
  <2> QED BY <2>1, <2>2, PlainStepIs
<1> QED BY <1>7, <1>8

(***************************************************************************)
(* The operations.                                                         *)
(***************************************************************************)
\* What an operation that succeeds does not do.
LEMMA OkIs ==
  ASSUME rc' = "ok"
  PROVE  /\ \A s, d : ~Killed(s, d)
         /\ \A s, d, call : ~Stops(call, s, d)
         /\ \A s, o, d, code : Reply(s, o, d, code) => code = "ok" /\ S' = s
         /\ EEXIST # "ok" /\ EISDIR # "ok" /\ ENOENT # "ok" /\ EXDEV # "ok"
         /\ ENOTDIR # "ok" /\ ENOTEMPTY # "ok" /\ EIO # "ok"
<1> QED BY DEF Killed, Stops, Reply, EIO, EEXIST, EISDIR, ENOENT, EXDEV, ENOTDIR, ENOTEMPTY

\* Where nothing is served the writelayer holds nothing.
LEMMA NewNameIsFree ==
  ASSUME Kept = {}, "marker" \notin HostFaults, NEW s, Good(s), Masked(s), Bare(s),
         NEW v \in Paths, v # Root, ~Exists(s, v)
  PROVE  s[Wl].tree[v] = Absent
<1>1. s[Wl].tree[v] = Absent \/ v \in s[Wl].deleted
  BY EntryIs
<1>2. v \in s[Wl].deleted => v \in s[Wl].wh
  BY StoresAre DEF Masked
<1> QED BY <1>1, <1>2, PathsAre, WithinReflexive DEF Bare

\* VfsCreate, VfsSymlink: a host file of its own.
LEMMA NewFilePlain ==
  ASSUME Kept = {}, Inv, NEW v \in Paths, Negative(v), NEW i \in FreeInodes, NEW c \in Contents, NEW o,
         Reply(Put(Prepare(S, v), Wl, v, i), o, [data EXCEPT ![i] = c], "ok"), Inv'
  PROVE  PlainStep
<1> DEFINE s2 == Prepare(S, v)
           e == Put(s2, Wl, v, i)
           f == [data EXCEPT ![i] = c]
<1>1. S \in VfsState /\ data \in [Inodes -> Contents] /\ v # Root /\ i \in Inodes
  BY FreeInodesAre DEF Inv, Good, Negative
<1>2. /\ s2 \in VfsState /\ Beside(S, s2, v, v) /\ s2[Wl].deleted = S[Wl].deleted \ {v}
  BY <1>1, PrepareBeside
<1> HIDE DEF s2
<1>3. /\ Beside(s2, e, v, v) /\ e[Wl].deleted = s2[Wl].deleted /\ e[Wl].tree[v] = i
  BY <1>1, <1>2, PutBeside
<1>4. S' = e /\ Good(e)
  BY DEF Reply, Inv, s2
<1>5. Reply(e, o, f, "ok")
  BY DEF s2
<1> HIDE DEF e
<1>6. Beside(S, e, v, v)
  BY <1>2, <1>3, BesideThen
<1>7. f \in [Inodes -> Contents]
  BY <1>1
<1>8. ASSUME NEW p \in Paths, S[Wl].tree[p] \in Inodes PROVE f[S[Wl].tree[p]] = data[S[Wl].tree[p]]
  <2>1. S[Wl].tree[p] \in Named(S)
    BY <1>8, StoresAre DEF Named
  <2>2. S[Wl].tree[p] # i
    BY <2>1 DEF FreeInodes
  <2> QED BY <1>1, <2>2
<1>9. Entry(e, v) = i
  BY <1>1, <1>2, <1>3, <1>4, EntryIs, Distinct
<1>10. Exists(e, v) /\ ~IsDirectory(e, v)
  BY <1>1, <1>4, <1>9, EntryIs, Distinct DEF IsDirectory, Entry
<1> HIDE DEF f
<1> QED BY <1>4, <1>5, <1>6, <1>7, <1>8, <1>10, MakesPlain

LEMMA CreatePlain ==
  ASSUME Kept = {}, "marker" \notin HostFaults, Inv, Bare(S), rc' = "ok",
         NEW v \in Paths, VfsCreate(v) \/ VfsSymlink(v)
  PROVE  PlainStep
<1>1. /\ Negative(v) /\ Good(S) /\ Masked(S) /\ v # Root /\ Home[v] = Wl
  BY EntryIs DEF VfsCreate, VfsSymlink, Negative, Inv
<1>2. S[Wl].tree[v] = Absent
  BY <1>1, NewNameIsFree DEF Negative
<1>3. Prepare(S, v)[Wl].tree[v] = Absent
  BY <1>1, <1>2, PrepareBeside, PathsAre, WithinReflexive DEF Good
<1>4. Inv'
  BY <1>1, CreateSound, SymlinkSound, EntryIs
<1>5. \A s, o, d : Made(s, o, d, v) => Reply(s, o, d, "ok")
  BY <1>1, OkIs DEF Made, Settle
<1>6. CASE VfsCreate(v)
  <2>1. PICK i \in FreeInodes :
          Made(Put(Prepare(S, v), Wl, v, i), open \cup {i}, [data EXCEPT ![i] = Empty], v)
    BY <1>1, <1>3, <1>6, OkIs, Distinct DEF VfsCreate, ParentFails
  <2> QED BY <1>1, <1>4, <1>5, <2>1, NewFilePlain, Distinct
<1>7. CASE VfsSymlink(v)
  <2>1. PICK i \in FreeInodes :
          Made(Put(Prepare(S, v), Wl, v, i), open, [data EXCEPT ![i] = LinkTarget], v)
    BY <1>1, <1>3, <1>7, OkIs, Distinct DEF VfsSymlink, ParentFails
  <2> QED BY <1>1, <1>4, <1>5, <2>1, NewFilePlain, Distinct
<1> QED BY <1>6, <1>7

\* VfsMkdir: empty, even where the layers have a directory that was deleted.
LEMMA MkdirPlain ==
  ASSUME Kept = {}, "marker" \notin HostFaults, Inv, Bare(S), rc' = "ok",
         NEW v \in Paths, VfsMkdir(v)
  PROVE  PlainStep
<1> DEFINE s2 == Prepare(S, v)
           s3 == Put(s2, Wl, v, Dir)
           over == IsDeleted(S, Wl, v)
<1>1. /\ Negative(v) /\ Good(S) /\ Masked(S) /\ S \in VfsState /\ v # Root /\ Home[v] = Wl
      /\ data \in [Inodes -> Contents] /\ ~Exists(S, v) /\ v \in VPath /\ StoreRoot(Wl) = Root
  BY EntryIs, PathsAre, StoresAre DEF VfsMkdir, Negative, Inv, Good
<1>2. S[Wl].tree[v] = Absent
  BY <1>1, NewNameIsFree
<1>3. /\ s2 \in VfsState /\ Beside(S, s2, v, v)
      /\ s2[Wl].deleted = S[Wl].deleted \ {v} /\ s2[Wl].opaque = S[Wl].opaque
      /\ \A p \in Paths : Within(p, v) => s2[Wl].tree[p] = S[Wl].tree[p]
  BY <1>1, PrepareBeside
<1> HIDE DEF s2
<1>4. /\ s3 \in VfsState /\ Beside(s2, s3, v, v)
      /\ s3[Wl].deleted = s2[Wl].deleted /\ s3[Wl].opaque = s2[Wl].opaque
      /\ s3[Wl].tree[v] = Dir /\ \A p \in Paths : p # v => s3[Wl].tree[p] = s2[Wl].tree[p]
  BY <1>3, PutBeside
<1> HIDE DEF s3
<1>5. Inv'
  BY <1>1, MkdirSound, EntryIs
<1>6. \A s, o, d : Made(s, o, d, v) => Reply(s, o, d, "ok")
  BY <1>1, OkIs DEF Made, Settle
<1>7. \E r \in IF over THEN Opaque(s3, v) ELSE {Outcome(s3, "ok")} : Reply(r.s, open, data, "ok")
  <2>1. ~RootShownAgain(v)
    BY <1>1 DEF RootShownAgain
  <2>2. \E r \in IF over THEN Opaque(s3, v) ELSE {Outcome(s3, "ok")} : Made(r.s, open, data, v)
    BY <1>1, <2>1, OkIs DEF VfsMkdir, ParentFails, s2, s3
  <2> QED BY <1>6, <2>2
<1>8. PICK e : /\ Reply(e, open, data, "ok")
               /\ e[Wl].tree = s3[Wl].tree /\ e[Wl].deleted = s3[Wl].deleted
               /\ e[Wl].opaque = IF over THEN s3[Wl].opaque \cup {v} ELSE s3[Wl].opaque
  <2>1. CASE over
    <3>1. PICK w \in MarkerWritten : Reply(MarkOpaque(s3, v, w), open, data, "ok")
      BY <1>1, <1>7, <2>1 DEF Opaque, Outcome
    <3>2. LET e == MarkOpaque(s3, v, w)
          IN  /\ e[Wl].tree = s3[Wl].tree /\ e[Wl].deleted = s3[Wl].deleted
              /\ e[Wl].opaque = s3[Wl].opaque \cup {v}
      BY <1>4, StoresAre DEF MarkOpaque, VfsState
    <3> QED BY <2>1, <3>1, <3>2
  <2>2. CASE ~over
    BY <1>7, <2>2 DEF Outcome
  <2> QED BY <2>1, <2>2
<1>9. Good(e)
  BY <1>5, <1>8 DEF Inv, Reply
<1> HIDE DEF over
<1>10. Beside(S, e, v, v)
  <2>1. \A p \in Paths : ~Within(p, v) => p # v
    BY <1>1, WithinReflexive
  <2>2. Beside(s3, e, v, v)
    BY <1>8, <2>1 DEF Beside
  <2> QED BY <1>3, <1>4, <2>2, BesideThen
<1>11. Exists(e, v)
  BY <1>3, <1>4, <1>8, <1>9, EntryIs, Distinct
<1>12. ASSUME NEW c \in Children(v) PROVE ~Exists(e, c)
  <2>1. /\ c \in Paths /\ c \in VPath /\ c # Root /\ ParentVRel(c) = v
        /\ Within(c, v) /\ c # v
    BY PathsAre, ParentIs DEF Children
  <2>2. Above[Wl][c] = Above[Wl][v] \cup {v} /\ Above[Wl][v] \subseteq Paths /\ v \notin Above[Wl][v]
    BY <1>1, <2>1, AboveAre, HomeBelongs, EntryIs
  <2>3. e[Wl].tree[c] = Absent
    <3>1. S[Wl].tree[c] = Absent
      BY <1>1, <1>2, <2>1, EmptyBelow, HomeBelongs, EntryIs, Distinct
    <3> QED BY <1>3, <1>4, <1>8, <2>1, <3>1
  <2>4. CASE over
    <3>1. IsUnderMask(e, Wl, c)
      BY <1>8, <2>2, <2>4 DEF IsUnderMask
    <3> QED BY <1>9, <2>1, <2>3, <3>1, EntryIs
  <2>5. CASE ~over /\ IsUnderMask(S, Wl, v)
    <3>1. PICK a \in Above[Wl][v] : IsDeleted(S, Wl, a) \/ a \in S[Wl].opaque
      BY <2>5 DEF IsUnderMask
    <3>2. IsDeleted(e, Wl, a) \/ a \in e[Wl].opaque
      BY <1>3, <1>4, <1>8, <2>2, <3>1 DEF IsDeleted
    <3>3. IsUnderMask(e, Wl, c)
      BY <2>2, <3>2 DEF IsUnderMask
    <3> QED BY <1>9, <2>1, <2>3, <3>3, EntryIs
  <2>6. CASE ~over /\ ~IsUnderMask(S, Wl, v)
    <3>1. v \notin S[Wl].deleted
      BY <1>1, <2>6 DEF over, IsDeleted
    <3>2. Base(v) = Absent
      BY <1>1, <1>2, <2>6, <3>1, EntryIs
    <3>3. Base(c) = Absent
      BY <1>1, <2>1, <3>2, BaseIsTree
    <3> QED BY <1>9, <2>1, <2>3, <3>3, EntryIs
  <2> QED BY <2>4, <2>5, <2>6
<1> QED BY <1>1, <1>8, <1>9, <1>10, <1>11, <1>12, MakesPlain

\* One file is copied up.
LEMMA FileCopiedUp ==
  ASSUME Kept = {}, Inv, NEW v \in Paths, Reachable(S, v), Exists(S, v), NEW up \in CopiedUp({v}, v)
  PROVE  /\ Good(up.s) /\ up.d \in [Inodes -> Contents] /\ up.at = Wl /\ Same(S, data, up.s, up.d)
         /\ up.s[Wl].tree[v] = Entry(up.s, v)
<1>1. PICK P : P = {v}
  OBVIOUS
<1>2. Good(up.s) /\ up.d \in [Inodes -> Contents] /\ up.at = Wl /\ Same(S, data, up.s, up.d)
  BY <1>1, CopiedUpServes
<1>3. Copies(S, up.s, P)
  BY <1>1, CopiedUpServes
<1> QED BY <1>1, <1>2, <1>3 DEF Copies

\* VfsLink: another name of the host file.
LEMMA LinkPlain ==
  ASSUME Kept = {}, "marker" \notin HostFaults, Inv, Bare(S), rc' = "ok",
         NEW vf \in Paths, NEW vt \in Paths, VfsLink(vf, vt)
  PROVE  PlainStep
<1>1. /\ Good(S) /\ Home[vt] = Wl /\ vt # Root /\ Negative(vt) /\ KeptOnTop
      /\ Reachable(S, vf) /\ Exists(S, vf) /\ ~IsDirectory(S, vf)
      /\ data \in [Inodes -> Contents] /\ vt \in VPath
  BY EntryIs, PathsAre DEF VfsLink, Positive, Negative, Inv
<1>2. PICK up \in CopiedUp({vf}, vf) : \E o :
        \E s4 \in UnhideLower(Put(EnsureParent(up.s, Wl, vt), Wl, vt, up.s[up.at].tree[vf]), vt) :
          Reply(s4, o, up.d, "ok")
  <2>1. ~CopyUpFails(vf)
    BY OkIs DEF CopyUpFails
  <2> QED BY <1>1, <2>1, OkIs DEF VfsLink
<1>4. /\ Good(up.s) /\ up.d \in [Inodes -> Contents] /\ up.at = Wl /\ Same(S, data, up.s, up.d)
      /\ up.s[Wl].tree[vf] = Entry(up.s, vf)
  BY <1>1, <1>2, FileCopiedUp
<1> DEFINE from == Entry(up.s, vf)
           s2 == EnsureParent(up.s, Wl, vt)
           s3 == Put(s2, Wl, vt, from)
           e == RemoveWhiteout(s3, vt)
<1>5. from \in Inodes
  <2>1. Reachable(up.s, vf) /\ Exists(up.s, vf) /\ ~IsDirectory(up.s, vf)
    BY <1>1, <1>4, SameReach
  <2>2. from \notin {Dir, Absent}
    BY <1>4, <2>1, EntryIs DEF IsDirectory, Entry
  <2>3. up.s[Wl].tree[vf] \in Inodes \cup {Dir, Absent}
    BY <1>4, FieldsAre, StoresAre DEF Good
  <2> QED BY <1>4, <2>2, <2>3
<1>6. PICK o : Reply(e, o, up.d, "ok")
  <2>1. \A s : UnhideLower(s, vt) = {RemoveWhiteout(s, vt)}
    BY <1>1 DEF UnhideLower
  <2> QED BY <1>2, <1>4, <2>1
<1> HIDE DEF from
<1>7. s2 \in VfsState /\ Beside(up.s, s2, vt, vt)
  BY <1>4, EnsureParentBeside DEF Good
<1> HIDE DEF s2
<1>8. s3 \in VfsState /\ Beside(s2, s3, vt, vt) /\ s3[Wl].tree[vt] = from
  BY <1>5, <1>7, PutBeside
<1> HIDE DEF s3
<1>9. /\ Beside(s3, e, vt, vt) /\ vt \notin e[Wl].deleted /\ e[Wl].tree = s3[Wl].tree
  BY <1>8, RemoveWhiteoutBeside
<1> HIDE DEF e
<1>10. Good(e)
  <2>1. Inv'
    BY <1>1, LinkSound
  <2> QED BY <1>6, <2>1 DEF Inv, Reply
<1>11. Beside(up.s, e, vt, vt)
  BY <1>7, <1>8, <1>9, BesideThen
<1>12. Entry(e, vt) = from
  BY <1>5, <1>8, <1>9, <1>10, EntryIs, Distinct
<1>13. Exists(e, vt) /\ ~IsDirectory(e, vt)
  BY <1>5, <1>10, <1>12, EntryIs, Distinct DEF IsDirectory, Entry
\* What is seen before and after is seen in up.s and e.
<1>14. Reachable(up.s, vt) /\ ~Exists(up.s, vt)
  BY <1>1, <1>4, SameReach DEF Negative
<1>15. \A p \in Paths : View'[p] = Serves(e, up.d, p) /\ View[p] = Serves(up.s, up.d, p)
  BY <1>4, <1>6, <1>10, ReplyServes, ViewIs DEF Same
<1>16. /\ \A p \in Paths : ~Within(p, vt) => View'[p] = View[p]
       /\ Reachable(e, vt)
  BY <1>1, <1>4, <1>10, <1>11, <1>14, <1>15, BesideServes
<1>17. /\ View[vt] = Absent /\ View[ParentVRel(vt)] = Dir /\ View'[vt] # Absent
       /\ View'[vt] \in Contents \cup {Dir, Packed, Absent}
  BY <1>1, <1>4, <1>10, <1>13, <1>14, <1>15, <1>16, ServesIs, PathsAre
<1>18. \A p \in Paths : Within(p, vt) /\ p # vt => View[p] = Absent /\ View'[p] = Absent
  <2>1. ~IsDirectory(up.s, vt)
    BY <1>1, <1>4, <1>14, DirectoryIs
  <2> QED BY <1>4, <1>10, <1>13, <1>15, <2>1, NothingBelow
<1>19. View' = [View EXCEPT ![vt] = View'[vt]]
  <2>1. \A p \in Paths : p # vt => View'[p] = View[p]
    BY <1>16, <1>18
  <2> QED BY <2>1, ViewIs
<1>20. Plain!Make(View, View', vt, View'[vt])
  BY <1>1, <1>17, <1>19, PlainIs DEF Plain!Make, Plain!Free
<1>21. View'[vt] \in Contents \cup {Packed, Dir}
  BY <1>17
<1> QED BY <1>20, <1>21, PlainStepIs

\* VfsUnlink and VfsRmdir: the name goes, and it alone.
LEMMA RemovalPlain ==
  ASSUME Kept = {}, SourcesAgree, Inv, rc' = "ok",
         NEW v \in Paths, VfsUnlink(v) \/ VfsRmdir(v)
  PROVE  PlainStep
<1>1. /\ Good(S) /\ Masked(S) /\ S \in VfsState /\ KeptOnTop /\ Home[v] = Wl /\ Positive(v)
  BY EntryIs DEF Inv, Good, VfsUnlink, VfsRmdir
<1>2. Good(S')
  BY <1>1, UnlinkSound, RmdirSound DEF Inv
<1>3. View'[v] = Absent
  BY <1>1, DeletionDeletes
<1>4. \E s \in VfsState : Beside(S, s, v, v) /\ HideRest(s, data, v)
  <2>1. CASE VfsUnlink(v)
    <3>1. HideRest(Put(S, Wl, v, Absent), data, v)
      BY <1>1, <2>1, OkIs DEF VfsUnlink
    <3> QED BY <1>1, <3>1, PutBeside
  <2>2. CASE VfsRmdir(v)
    <3>1. HideRest(HostRmdir(Sweep(S, v), Wl, v), data, v)
      BY <1>1, <2>2, OkIs DEF VfsRmdir
    <3>2. Sweep(S, v) \in VfsState /\ Beside(S, Sweep(S, v), v, v)
      BY <1>1, SweepBeside
    <3>3. /\ Put(Sweep(S, v), Wl, v, Absent) \in VfsState
          /\ Beside(Sweep(S, v), Put(Sweep(S, v), Wl, v, Absent), v, v)
      BY <3>2, PutBeside
    <3>4. Beside(S, Put(Sweep(S, v), Wl, v, Absent), v, v)
      BY <3>2, <3>3, BesideThen
    <3> QED BY <3>1, <3>2, <3>3, <3>4 DEF HostRmdir
  <2> QED BY <2>1, <2>2
<1>5. PICK s \in VfsState : Beside(S, s, v, v) /\ HideRest(s, data, v)
  BY <1>4
<1>6. PICK e : Reply(e, open, data, "ok") /\ Beside(s, e, v, v)
  BY <1>5, HideRestBeside
<1>7. Beside(S, e, v, v)
  BY <1>5, <1>6, BesideThen
<1>8. Good(e)
  BY <1>2, <1>6 DEF Reply
<1>9. IsDirectory(S, v) => \A c \in Children(v) : ~Exists(S, c)
  <2>1. IsDirectory(S, v) => CollectChildren(S, v) = {}
    BY OkIs DEF VfsUnlink, VfsRmdir
  <2> QED BY <1>1, <2>1, ListingIs
<1> QED BY <1>1, <1>3, <1>6, <1>7, <1>8, <1>9, RemovesPlain

\* The operations on data, and a new mount of the same writelayer.
LEMMA DataPlain ==
  ASSUME Kept = {}, Inv, rc' = "ok", DataStep
  PROVE  PlainStep
<1>1. Good(S) /\ data \in [Inodes -> Contents]
  BY DEF Inv
<1>2. Same(S, data, S, data)
  BY DEF Same
<1>3. CASE \E i \in Inodes : VfsRelease(i) \/ \E c \in Payloads : VfsWrite(i, c)
  <2>1. PICK i \in Inodes : VfsRelease(i) \/ \E c \in Payloads : VfsWrite(i, c)
    BY <1>3
  <2>2. CASE VfsRelease(i)
    <3>1. \E o : Reply(S, o, data, "ok")
      BY <2>2 DEF VfsRelease
    <3> QED BY <1>1, <1>2, <3>1, ReplyServes DEF PlainStep
  <2>3. CASE \E c \in Payloads : VfsWrite(i, c)
    <3>1. PICK c \in Contents : \E o : Reply(S, o, [data EXCEPT ![i] = c], "ok")
      BY <2>3, Distinct DEF VfsWrite
    <3> QED BY <1>1, <1>2, <3>1, ModifiesPlain
  <2> QED BY <2>1, <2>2, <2>3
<1>4. CASE \E v \in Paths : (\E trunc \in BOOLEAN : VfsOpen(v, trunc)) \/ VfsTruncate(v) \/ VfsChmod(v)
  <2>1. PICK v \in Paths : (\E trunc \in BOOLEAN : VfsOpen(v, trunc)) \/ VfsTruncate(v) \/ VfsChmod(v)
    BY <1>4
  <2>2. Reachable(S, v) /\ Exists(S, v) /\ ~CopyUpFails(v)
    BY <2>1, OkIs DEF VfsOpen, VfsTruncate, VfsChmod, Regular, Positive, CopyUpFails
  <2>3. PICK up \in CopiedUp({v}, v) : \E o :
          \/ Reply(up.s, o, up.d, "ok")
          \/ \E i \in Inodes : Reply(up.s, o, [up.d EXCEPT ![i] = Empty], "ok")
    <3>1. CASE \E trunc \in BOOLEAN : VfsOpen(v, trunc)
      BY <2>2, <3>1, OkIs DEF VfsOpen
    <3>2. CASE VfsTruncate(v)
      BY <2>2, <3>2, OkIs DEF VfsTruncate
    <3>3. CASE VfsChmod(v)
      BY <2>2, <3>3, OkIs DEF VfsChmod
    <3> QED BY <2>1, <3>1, <3>2, <3>3
  <2>4. Good(up.s) /\ up.d \in [Inodes -> Contents] /\ Same(S, data, up.s, up.d)
    BY <2>2, FileCopiedUp
  <2>5. CASE \E o : Reply(up.s, o, up.d, "ok")
    BY <2>4, <2>5, ReplyServes DEF PlainStep
  <2>6. CASE \E o : \E i \in Inodes : Reply(up.s, o, [up.d EXCEPT ![i] = Empty], "ok")
    BY <2>4, <2>6, ModifiesPlain, Distinct
  <2> QED BY <2>3, <2>5, <2>6
<1> QED BY <1>3, <1>4 DEF DataStep

LEMMA RemountPlain ==
  ASSUME Kept = {}, "marker" \notin HostFaults, Inv, Remount
  PROVE  UNCHANGED View
<1>1. Good(S) /\ data \in [Inodes -> Contents]
  BY DEF Inv
<1>2. SeedMasks(S) = S
  BY InvMeans DEF MasksMirrorMarkers
<1>3. \E o : Reply(S, o, data, "ok")
  BY <1>2 DEF Remount
<1> QED BY <1>1, <1>3, ReplyServes DEF Same

\* What is on the writelayer's disk is what is served, unless a marker failed.
LEMMA CopyIsServed ==
  ASSUME Kept = {}, "marker" \notin HostFaults, NEW s, Good(s), Masked(s), Bare(s),
         NEW d \in [Inodes -> Contents], NEW p \in Paths, s[Wl].tree[p] # Absent
  PROVE  Entry(s, p) = s[Wl].tree[p] /\ Reachable(s, p) /\ Serves(s, d, p) = Content(d, s[Wl].tree[p])
<1>1. Wl \in Stores /\ StoreRoot(Wl) = Root /\ Stores = {Wl}
  BY StoresAre, EntryIs
<1>2. s[Wl].deleted = s[Wl].wh
  BY <1>1 DEF Masked
<1>3. ASSUME NEW q \in Paths, s[Wl].tree[q] # Absent PROVE Entry(s, q) = s[Wl].tree[q]
  <2>1. q \notin s[Wl].deleted
    BY <1>2, <1>3, PathsAre, WithinReflexive DEF Bare
  <2> QED BY <1>3, <2>1, EntryIs
<1>4. ASSUME NEW a \in Above[Wl][p] PROVE IsDirectory(s, a)
  <2>1. a \in Paths /\ s[Wl].tree[a] = Dir
    BY <1>1, <1>4, AboveAreDirs, AboveAre
  <2>2. Entry(s, a) = Dir
    BY <1>3, <2>1, Distinct
  <2> QED BY <2>2 DEF IsDirectory, Entry
<1>5. Reachable(s, p)
  BY <1>4 DEF Reachable
<1>6. Entry(s, p) = s[Wl].tree[p]
  BY <1>3
<1> QED BY <1>5, <1>6 DEF Serves, Entry

\* DeepCopyUp reaches everything that is served below the directory.
LEMMA ServedIsWalked ==
  ASSUME Kept = {}, SourcesAgree, Inv, NEW v \in Paths, IsDirectory(S, v),
         NEW q \in Paths, Within(q, v), Reachable(S, q), Exists(S, q)
  PROVE  q \in DeepWalk(S, v)
<1>1. Good(S) /\ Masked(S) /\ v \in VPath /\ q \in VPath
  BY PathsAre DEF Inv
<1>2. ASSUME NEW r \in Ancestors(q) \cup {q}, r # v, Within(r, v)
      PROVE  r \in CollectChildren(S, ParentVRel(r)) /\ IsDirectory(S, ParentVRel(r))
  <2>1. r \in Paths /\ r \in VPath /\ Within(q, r)
    BY <1>1, PathsAre, AncestorsAre, WithinReflexive
  <2>2. r # Root
    BY <1>1, <1>2, <2>1, WithinRoot
  <2>3. /\ ParentVRel(r) \in Paths /\ Within(r, ParentVRel(r)) /\ ParentVRel(r) # r
        /\ r \in Children(ParentVRel(r))
    BY <2>1, <2>2, PathsAre, ParentIs DEF Children
  <2>4. ParentVRel(r) # q /\ Within(q, ParentVRel(r))
    BY <1>1, <2>1, <2>3, PathsAre, WithinTransitive, WithinAntisymmetric
  <2>5. IsDirectory(S, ParentVRel(r))
    BY <1>1, <2>3, <2>4, ReachableIs
  <2>6. Exists(S, r)
    <3>1. CASE r = q
      BY <3>1
    <3>2. CASE r # q
      <4>1. IsDirectory(S, r)
        BY <2>1, <3>2, ReachableIs
      <4> QED BY <1>1, <2>1, <4>1, EntryIs, DirectoryIs
    <3> QED BY <3>1, <3>2
  <2> QED BY <1>1, <2>3, <2>5, <2>6, ListingIs
<1> QED BY <1>2 DEF DeepWalk

\* The state that a rename reaches before the rest of its old name is hidden.
Moved(s, vf, vt) ==
  LET s2 == HostRename(Prepare(s, vt), Wl, vf, Wl, vt)
  IN  IF IsDirectory(S, vf) THEN RenameMaskPrefix(s2, vf, vt) ELSE s2

\* What a rename that succeeds has found on the host.
LEMMA FinishOk ==
  ASSUME Kept = {}, rc' = "ok", NEW vf \in Paths, NEW vt \in Paths, NEW s, NEW d,
         FinishRename(s, d, Wl, vf, vt),
         IsDirectory(S, vf) \/ Prepare(s, vt)[Wl].tree[vf] # Prepare(s, vt)[Wl].tree[vt]
  PROVE  LET s1 == Prepare(s, vt)
         IN  /\ s1[Wl].tree[vf] # Absent /\ Fits(s1, Wl, vf, vt)
             /\ ~(s1[Wl].tree[vt] # Absent /\ (IsDirectory(S, vf) # (s1[Wl].tree[vt] = Dir)))
             /\ ~(IsDirectory(S, vf) /\ HostBusy(s1, Wl, vt))
             /\ HideRest(Moved(s, vf, vt), d, vf)
<1> DEFINE s1 == Prepare(s, vt)
           s2 == HostRename(s1, Wl, vf, Wl, vt)
<1>1. Home[vf] = Wl /\ Home[vt] = Wl
  BY HomeIs DEF KeptOnTop
<1>2. \A t : KeptRenamePrefix(t, vf, vt) = t /\ Settle(t, vt) = {t}
  BY <1>1 DEF KeptRenamePrefix, Settle
<1>3. (IF s1[Wl].tree[vf] = s1[Wl].tree[vt] /\ ~IsDirectory(S, vf) THEN s1
       ELSE HostRename(s1, Wl, vf, Wl, vt)) = s2
  OBVIOUS
<1>4. /\ s1[Wl].tree[vf] # Absent /\ Fits(s1, Wl, vf, vt)
      /\ ~(s1[Wl].tree[vt] # Absent /\ (IsDirectory(S, vf) # (s1[Wl].tree[vt] = Dir)))
      /\ ~(IsDirectory(S, vf) /\ HostBusy(s1, Wl, vt))
      /\ HideRest(IF IsDirectory(S, vf) THEN RenameMaskPrefix(s2, vf, vt) ELSE s2, d, vf)
  BY <1>1, <1>2, <1>3, OkIs DEF FinishRename, Outcome
<1> QED BY <1>4 DEF Moved

\* Two paths of which neither holds the other have nothing in common below.
LEMMA ApartBelow ==
  ASSUME NEW v \in Paths, NEW w \in Paths, ~Within(v, w), ~Within(w, v), NEW p \in Paths, Within(p, v)
  PROVE  ~Within(p, w) /\ p \notin Above[Wl][w]
<1>1. v \in VPath /\ w \in VPath /\ p \in VPath /\ Wl \in Stores
  BY PathsAre, StoresAre
<1>2. ~Within(p, w)
  BY <1>1, WithinChain
<1>3. p \notin Above[Wl][w]
  BY <1>1, AboveAre, WithinTransitive
<1> QED BY <1>2, <1>3

\* A rename moves the tree below vf to vt and leaves the rest alone.
LEMMA MovedBeside ==
  ASSUME Kept = {}, NEW vf \in Paths, NEW vt \in Paths, ~Within(vt, vf), ~Within(vf, vt),
         NEW s \in VfsState, Fits(Prepare(s, vt), Wl, vf, vt)
  PROVE  LET t == Moved(s, vf, vt)
         IN  /\ t \in VfsState /\ Beside(s, t, vf, vt)
             /\ \A p \in Paths : Within(p, vt) =>
                  t[Wl].tree[p] = IF Rebase(p, vt, vf) \in Paths THEN s[Wl].tree[Rebase(p, vt, vf)] ELSE Absent
<1> DEFINE s1 == Prepare(s, vt)
           s2 == HostRename(s1, Wl, vf, Wl, vt)
           t == Moved(s, vf, vt)
<1>1. Wl \in Stores /\ vf \in VPath /\ vt \in VPath /\ Paths \subseteq VPath
  BY StoresAre, PathsAre
<1>2. s1 \in VfsState /\ Beside(s, s1, vf, vt) /\ Beside(s, s1, vt, vt)
  BY PrepareBeside
<1>3. \A q \in Paths : Within(q, vf) => s1[Wl].tree[q] = s[Wl].tree[q]
  BY <1>2, ApartBelow DEF Beside
<1>4. /\ s2 \in VfsState
      /\ s2[Wl].deleted = s1[Wl].deleted /\ s2[Wl].opaque = s1[Wl].opaque
      /\ \A p \in Paths :
           s2[Wl].tree[p] =
             IF Within(p, vt)
             THEN IF Rebase(p, vt, vf) \in Paths THEN s1[Wl].tree[Rebase(p, vt, vf)] ELSE Absent
             ELSE IF Within(p, vf) THEN Absent ELSE s1[Wl].tree[p]
  BY <1>1, <1>2, HostRenameIs
<1>5. \A p \in s1[Wl].deleted \cup s1[Wl].opaque : p \in Paths /\ (Within(p, vf) => Rebase(p, vf, vt) \in Paths)
  <2>1. s1[Wl].deleted \subseteq Paths /\ s1[Wl].opaque \subseteq Paths
    BY <1>1, <1>2, FieldsAre
  <2>2. s1[Wl].deleted \cup s1[Wl].opaque \subseteq UNION {s1[g].deleted \cup s1[g].opaque : g \in {Wl, Wl}}
    OBVIOUS
  <2> HIDE DEF s1
  <2>3. \A p \in UNION {s1[g].deleted \cup s1[g].opaque : g \in {Wl, Wl}} :
          Within(p, vf) => Rebase(p, vf, vt) \in Paths
    BY DEF Fits, s1
  <2> QED BY <2>1, <2>2, <2>3
<1> HIDE DEF s1, s2
<1> DEFINE D == RewritePrefix(s1[Wl].deleted, vf, vt)
           Q == RewritePrefix(s1[Wl].opaque, vf, vt)
<1>6. /\ D \subseteq Paths /\ Q \subseteq Paths
      /\ \A p \in Paths : ~Within(p, vf) /\ ~Within(p, vt) =>
           (p \in D <=> p \in s1[Wl].deleted) /\ (p \in Q <=> p \in s1[Wl].opaque)
  <2>1. \A p \in s1[Wl].deleted \cup s1[Wl].opaque : Within(p, vf) => Within(Rebase(p, vf, vt), vt)
    BY <1>1, <1>5, RebaseBack
  <2> QED BY <1>5, <2>1 DEF RewritePrefix
<1>7. /\ t \in VfsState /\ t[Wl].tree = s2[Wl].tree
      /\ \A p \in Paths : ~Within(p, vf) /\ ~Within(p, vt) =>
           (p \in t[Wl].deleted <=> p \in s1[Wl].deleted) /\ (p \in t[Wl].opaque <=> p \in s1[Wl].opaque)
  <2>1. CASE IsDirectory(S, vf)
    <3>1. t = [s2 EXCEPT ![Wl].deleted = D, ![Wl].opaque = Q]
      BY <1>1, <1>4, <2>1 DEF Moved, RenameMaskPrefix, s1, s2
    <3> HIDE DEF t, D, Q
    <3>2. PICK r : r = [s2[Wl] EXCEPT !.deleted = D, !.opaque = Q]
      OBVIOUS
    <3>3. /\ r \in [tree : [Paths -> Inodes \cup {Dir, Absent}], wh : SUBSET Paths, opq : SUBSET Paths,
                    deleted : SUBSET Paths, opaque : SUBSET Paths]
          /\ r.tree = s2[Wl].tree /\ r.deleted = D /\ r.opaque = Q
      BY <1>1, <1>4, <1>6, <3>2 DEF VfsState
    <3>4. t = [s2 EXCEPT ![Wl] = r]
      BY <1>1, <1>4, <3>1, <3>2 DEF VfsState
    <3>5. t \in VfsState /\ t[Wl] = r
      BY <1>1, <1>4, <3>3, <3>4 DEF VfsState
    <3> QED BY <1>6, <3>3, <3>5
  <2>2. CASE ~IsDirectory(S, vf)
    BY <1>4, <2>2 DEF Moved, s1, s2
  <2> QED BY <2>1, <2>2
<1> HIDE DEF t
<1>8. Beside(s1, t, vf, vt)
  BY <1>4, <1>7 DEF Beside
<1>9. Beside(s, t, vf, vt)
  BY <1>2, <1>8, BesideThen
<1>10. \A p \in Paths : Within(p, vt) =>
         t[Wl].tree[p] = IF Rebase(p, vt, vf) \in Paths THEN s[Wl].tree[Rebase(p, vt, vf)] ELSE Absent
  <2>1. \A p \in Paths : Within(p, vt) => Within(Rebase(p, vt, vf), vf)
    BY <1>1, RebaseBack
  <2> QED BY <1>3, <1>4, <1>7, <2>1
<1> QED BY <1>7, <1>9, <1>10 DEF t

\* A rename that succeeds has copied up (u, d) and moved (e).
RenamedTo(vf, vt, u, d, e) ==
  /\ Good(u) /\ Masked(u) /\ Bare(u) /\ d \in [Inodes -> Contents] /\ Same(S, data, u, d)
  /\ Reply(e, open, d, "ok") /\ Good(e) /\ Masked(e) /\ Bare(e)
  /\ Beside(u, e, vf, vt) /\ ~Exists(e, vf)
  /\ \A p \in Paths : Within(p, vt) =>
       e[Wl].tree[p] = IF Rebase(p, vt, vf) \in Paths THEN u[Wl].tree[Rebase(p, vt, vf)] ELSE Absent
  /\ u[Wl].tree[vf] # Absent
  /\ \A q \in Paths : Within(q, vf) =>
       /\ u[Wl].tree[q] # Absent => Rebase(q, vf, vt) \in Paths
       /\ Serves(S, data, q) # Absent /\ (IsDirectory(S, vf) \/ q = vf) => u[Wl].tree[q] # Absent
  /\ IsDirectory(S, vf) => \A c \in Children(vt) : S[Wl].tree[c] = Absent

LEMMA RenamesTo ==
  ASSUME Kept = {}, SourcesAgree, "marker" \notin HostFaults, Inv, Bare(S), rc' = "ok",
         NEW vf \in Paths, NEW vt \in Paths, TameRename(vf, vt)
  PROVE  \E u, d, e : RenamedTo(vf, vt, u, d, e)
<1>1. /\ Good(S) /\ KeptOnTop /\ Home[vf] = Wl /\ Home[vt] = Wl /\ Stores = {Wl} /\ Wl \in Stores
      /\ VfsRename(vf, vt) /\ MayRename(vf, vt)
      /\ vf # Root /\ vt # Root /\ Reachable(S, vf) /\ Exists(S, vf)
      /\ ~Within(vt, vf) /\ ~Within(vf, vt)
  BY EntryIs DEF Inv, TameRename, VfsRename, MayRename, Positive
<1> DEFINE visits == IF IsDirectory(S, vf) THEN DeepWalk(S, vf) ELSE {vf}
<1>2. visits \subseteq Paths /\ \A p \in visits : Reachable(S, p)
  BY <1>1, DeepWalkReachable
<1>3. PICK up \in CopiedUp(visits, vf) : FinishRename(up.s, up.d, up.at, vf, vt)
  BY <1>1, OkIs DEF VfsRename, CopyUpFails
<1>4. \A q \in Paths : Within(q, vf) /\ Serves(S, data, q) # Absent /\ (IsDirectory(S, vf) \/ q = vf) =>
        q \in visits /\ Exists(S, q)
  <2> TAKE q \in Paths
  <2> HAVE Within(q, vf) /\ Serves(S, data, q) # Absent /\ (IsDirectory(S, vf) \/ q = vf)
  <2>1. Reachable(S, q) /\ Exists(S, q)
    BY <1>1, ServesIs DEF Inv
  <2> QED BY <2>1, ServedIsWalked
<1>5. ~IsDirectory(S, vf) => up \in CopiedUp({vf}, vf)
  BY <1>3
<1> HIDE DEF visits
<1>6. /\ Good(up.s) /\ Masked(up.s) /\ (Bare(S) => Bare(up.s))
      /\ up.d \in [Inodes -> Contents] /\ up.at = Wl
      /\ Same(S, data, up.s, up.d) /\ Copies(S, up.s, visits)
  BY <1>2, CopiedUpServes
<1>7. /\ Prepare(up.s, vt) \in VfsState /\ Beside(up.s, Prepare(up.s, vt), vt, vt)
      /\ \A p \in Paths : Within(p, vt) => Prepare(up.s, vt)[Wl].tree[p] = up.s[Wl].tree[p]
  BY <1>6, PrepareBeside DEF Good
<1> DEFINE u == up.s
           s1 == Prepare(u, vt)
           t == Moved(u, vf, vt)
<1>8. /\ Homely(vf, vt)
      /\ \/ IsDirectory(S, vf) \/ S[Home[vf]].tree[vf] = Absent
         \/ S[Home[vf]].tree[vf] # S[Home[vt]].tree[vt]
  BY <1>1, TameIsHomely
<1>9. s1[Wl].tree[vf] = u[Wl].tree[vf] /\ s1[Wl].tree[vt] = u[Wl].tree[vt]
  <2>1. Within(vf, vf) /\ Within(vt, vt)
    BY PathsAre, WithinReflexive
  <2> QED BY <1>1, <1>7, <2>1, ApartBelow DEF Beside
<1>10. IsDirectory(S, vf) \/ s1[Wl].tree[vf] # s1[Wl].tree[vt]
  BY <1>1, <1>5, <1>8, <1>9, SourceIsNew
<1>11. /\ s1[Wl].tree[vf] # Absent /\ Fits(s1, Wl, vf, vt)
       /\ ~(IsDirectory(S, vf) /\ HostBusy(s1, Wl, vt)) /\ HideRest(t, up.d, vf)
  BY <1>3, <1>6, <1>10, FinishOk
<1>12. /\ t \in VfsState /\ Beside(u, t, vf, vt)
       /\ \A p \in Paths : Within(p, vt) =>
            t[Wl].tree[p] = IF Rebase(p, vt, vf) \in Paths THEN u[Wl].tree[Rebase(p, vt, vf)] ELSE Absent
  BY <1>1, <1>6, <1>11, MovedBeside DEF Good
<1>13. /\ Beside(u, s1, vt, vt) /\ \A p \in Paths : Within(p, vt) => s1[Wl].tree[p] = u[Wl].tree[p]
  BY <1>7
<1> HIDE DEF u, s1, t
<1>14. PICK e : Reply(e, open, up.d, "ok") /\ Beside(t, e, vf, vf)
  BY <1>11, <1>12, HideRestBeside
<1>15. Good(e) /\ Masked(e) /\ Bare(e)
  <2>1. S' = e
    BY <1>14 DEF Reply
  <2>2. Inv' /\ Bare(S)'
    BY <1>1, RenameStepSound
  <2> QED BY <2>1, <2>2 DEF Inv
<1>16. ~Exists(e, vf)
  <2>1. S' = e
    BY <1>14 DEF Reply
  <2> QED BY <1>1, <1>11, <1>12, <1>15, <2>1, HideRestHides
<1>17. Beside(t, e, vf, vt) /\ \A p \in Paths : Within(p, vt) => e[Wl].tree[p] = t[Wl].tree[p]
  <2>1. \A p \in Paths : Within(p, vt) => ~Within(p, vf) /\ p \notin Above[Wl][vf]
    BY <1>1, ApartBelow
  <2> QED BY <1>14, <2>1 DEF Beside
<1>18. Beside(u, e, vf, vt)
  BY <1>12, <1>17, BesideThen
<1>19. \A q \in Paths : Within(q, vf) =>
         /\ u[Wl].tree[q] # Absent => Rebase(q, vf, vt) \in Paths
         /\ Serves(S, data, q) # Absent /\ (IsDirectory(S, vf) \/ q = vf) => u[Wl].tree[q] # Absent
  <2>1. ASSUME NEW q \in Paths, Within(q, vf), u[Wl].tree[q] # Absent PROVE Rebase(q, vf, vt) \in Paths
    <3>1. s1[Wl].tree[q] # Absent
      BY <1>1, <1>13, <2>1, ApartBelow DEF Beside
    <3> QED BY <1>11, <2>1, <3>1 DEF Fits
  <2> QED BY <1>4, <1>6, <2>1 DEF Copies, u
<1>20. IsDirectory(S, vf) => \A c \in Children(vt) : S[Wl].tree[c] = Absent
  <2> SUFFICES ASSUME IsDirectory(S, vf), NEW c \in Children(vt) PROVE S[Wl].tree[c] = Absent
    OBVIOUS
  <2>1. s1[Wl].tree[c] = Absent
    BY <1>11 DEF HostBusy
  <2>2. c \in Paths /\ Within(c, vt)
    BY PathsAre, ParentIs DEF Children
  <2> QED BY <1>6, <1>13, <2>1, <2>2 DEF Copies, u
<1>21. RenamedTo(vf, vt, u, up.d, e)
  BY <1>6, <1>9, <1>11, <1>12, <1>14, <1>15, <1>16, <1>17, <1>18, <1>19, <1>20 DEF RenamedTo, u
<1> QED BY <1>21

\* VfsRename of the tame kind: the tree moves as a whole and alone.
LEMMA RenamePlain ==
  ASSUME Kept = {}, SourcesAgree, "marker" \notin HostFaults, Inv, Bare(S), rc' = "ok",
         NEW vf \in Paths, NEW vt \in Paths, TameRename(vf, vt)
  PROVE  PlainStep
<1>1. /\ Good(S) /\ data \in [Inodes -> Contents] /\ vf \in VPath /\ vt \in VPath /\ Paths \subseteq VPath
      /\ vf # Root /\ vt # Root /\ Reachable(S, vf) /\ Exists(S, vf) /\ Reachable(S, vt)
      /\ ~Within(vt, vf) /\ ~Within(vf, vt)
      /\ Exists(S, vt) => (IsDirectory(S, vf) <=> IsDirectory(S, vt))
  BY PathsAre DEF Inv, TameRename, VfsRename, MayRename, Positive
<1>2. IsDirectory(S, vf) => LowerFree(vt)
  <2>1. Home[vt] = Wl
    BY <1>1, EntryIs
  <2> QED BY <2>1 DEF TameRename
<1>3. PICK u, d, e : RenamedTo(vf, vt, u, d, e)
  BY RenamesTo
<1>4. /\ Good(u) /\ Masked(u) /\ Bare(u) /\ d \in [Inodes -> Contents] /\ Same(S, data, u, d)
      /\ Good(e) /\ Masked(e) /\ Bare(e) /\ Beside(u, e, vf, vt) /\ ~Exists(e, vf)
      /\ u[Wl].tree[vf] # Absent
  BY <1>3 DEF RenamedTo
<1>5. \A p \in Paths : View'[p] = Serves(e, d, p) /\ View[p] = Serves(S, data, p) /\ View[p] = Serves(u, d, p)
  <2>1. Reply(e, open, d, "ok")
    BY <1>3 DEF RenamedTo
  <2> QED BY <1>4, <2>1, ReplyServes, ViewIs DEF Same
<1>6. /\ \A p \in Paths : ~Within(p, vf) /\ ~Within(p, vt) => View'[p] = View[p]
      /\ Reachable(e, vf) /\ Reachable(e, vt)
  <2>1. Reachable(u, vf) /\ Reachable(u, vt)
    BY <1>1, <1>4, SameReach
  <2> QED BY <1>1, <1>4, <1>5, <2>1, BesideServes
\* Nothing is left at the old name.
<1>7. \A p \in Paths : Within(p, vf) => View'[p] = Absent
  <2>1. ~IsDirectory(e, vf) /\ Serves(e, d, vf) = Absent
    BY <1>4, EntryIs, DirectoryIs, ServesIs
  <2> QED BY <1>4, <1>5, <2>1, NothingBelow
<1>8. ~IsDirectory(S, vf) => \A q \in Paths : Within(q, vf) /\ q # vf => View[q] = Absent
  BY <1>1, <1>5, NothingBelow
<1>9. /\ e[Wl].tree[vt] = u[Wl].tree[vf] /\ e[Wl].tree[vt] # Absent
      /\ IsDirectory(S, vf) <=> IsDirectory(e, vt)
  <2>1. Within(vt, vt) /\ Rebase(vt, vt, vf) = vf
    BY <1>1, WithinReflexive, RebaseBack
  <2>2. e[Wl].tree[vt] = u[Wl].tree[vf]
    BY <1>3, <2>1 DEF RenamedTo
  <2>3. Entry(e, vt) = Entry(u, vf)
    BY <1>4, <2>2, CopyIsServed
  <2>4. IsDirectory(S, vf) <=> IsDirectory(u, vf)
    BY <1>1, <1>4, SameReach
  <2> QED BY <1>4, <2>2, <2>3, <2>4 DEF IsDirectory, Entry
\* At and below the new name is what was at and below the old one.
<1>10. ASSUME NEW p \in Paths, Within(p, vt)
       PROVE  View'[p] = IF Rebase(p, vt, vf) \in Paths THEN View[Rebase(p, vt, vf)] ELSE Absent
  <2> DEFINE q == Rebase(p, vt, vf)
  <2>1. Within(q, vf) /\ (q = vf => p = vt)
    BY <1>1, <1>10, RebaseBack, RebaseInjective, WithinReflexive
  <2>2. e[Wl].tree[p] = IF q \in Paths THEN u[Wl].tree[q] ELSE Absent
    BY <1>3, <1>10 DEF RenamedTo
  <2> HIDE DEF q
  <2>3. CASE e[Wl].tree[p] # Absent
    <3>1. q \in Paths /\ u[Wl].tree[q] = e[Wl].tree[p]
      BY <2>2, <2>3
    <3>2. View'[p] = Content(d, e[Wl].tree[p]) /\ View[q] = Content(d, e[Wl].tree[p])
      BY <1>4, <1>5, <2>3, <3>1, CopyIsServed
    <3> QED BY <3>1, <3>2 DEF q
  <2>4. CASE e[Wl].tree[p] = Absent
    <3>1. p # vt
      BY <1>9, <2>4
    <3>2. q \in Paths => View[q] = Absent
      <4>1. CASE IsDirectory(S, vf)
        BY <1>3, <1>5, <2>1, <2>2, <2>4, <4>1 DEF RenamedTo
      <4>2. CASE ~IsDirectory(S, vf)
        BY <1>8, <2>1, <3>1, <4>2
      <4> QED BY <4>1, <4>2
    <3>3. View'[p] = Absent
      <4>1. CASE IsDirectory(S, vf)
        <5>1. Base(p) = Absent
          BY <1>2, <1>10, <3>1, <4>1 DEF LowerFree, Base
        <5>2. ~Exists(e, p)
          BY <1>4, <2>4, <5>1, EntryIs
        <5> QED BY <1>4, <1>5, <5>2, ServesIs
      <4>2. CASE ~IsDirectory(S, vf)
        BY <1>4, <1>5, <1>9, <1>10, <3>1, <4>2, NothingBelow
      <4> QED BY <4>1, <4>2
    <3> QED BY <3>2, <3>3 DEF q
  <2> QED BY <2>3, <2>4
<1>11. View[vf] # Absent /\ (View[vf] = Dir <=> IsDirectory(S, vf))
  BY <1>1, <1>5, ServesIs
<1>12. \/ View[vt] = Absent /\ View[ParentVRel(vt)] = Dir
       \/ View[vf] # Dir /\ View[vt] \notin {Dir, Absent}
       \/ View[vf] = Dir /\ View[vt] = Dir /\ \A p \in Paths : Within(p, vt) /\ p # vt => View[p] = Absent
  <2>1. CASE ~Exists(S, vt)
    BY <1>1, <1>5, <2>1, ServesIs, PathsAre
  <2>2. CASE Exists(S, vt) /\ ~IsDirectory(S, vf)
    BY <1>1, <1>5, <1>11, <2>2, ServesIs
  <2>3. CASE Exists(S, vt) /\ IsDirectory(S, vf)
    <3>1. View[vt] = Dir
      BY <1>1, <1>5, <2>3, ServesIs
    <3>2. ASSUME NEW c \in Children(vt) PROVE ~Exists(S, c)
      <4>1. c \in Paths /\ Within(c, vt) /\ c # vt
        BY PathsAre, ParentIs DEF Children
      <4>2. Base(c) = Absent
        BY <1>2, <2>3, <4>1 DEF LowerFree, Base
      <4>3. S[Wl].tree[c] = Absent
        BY <1>3, <2>3 DEF RenamedTo
      <4> QED BY <1>1, <4>1, <4>2, <4>3, EntryIs
    <3>3. \A p \in Paths : Within(p, vt) /\ p # vt => View[p] = Absent
      BY <1>1, <1>5, <3>2, NothingBelow
    <3> QED BY <1>11, <2>3, <3>1, <3>3
  <2> QED BY <2>1, <2>2, <2>3
<1>13. \A q \in Paths : Within(q, vf) /\ q # vf /\ View[q] # Absent => Rebase(q, vf, vt) \in Paths
  BY <1>3, <1>5, <1>8 DEF RenamedTo
<1>14. \A p \in Paths : Within(p, vt) <=> p = vt \/ Plain!IsBelow(p, vt)
  BY <1>1, PlainIs, WithinReflexive
<1>15. \A p \in Paths : Within(p, vf) <=> p = vf \/ Plain!IsBelow(p, vf)
  BY <1>1, PlainIs, WithinReflexive
<1>16. View' = [p \in Paths |->
         IF p = vt \/ Plain!IsBelow(p, vt)
         THEN IF Rebase(p, vt, vf) \in Paths THEN View[Rebase(p, vt, vf)] ELSE Absent
         ELSE IF p = vf \/ Plain!IsBelow(p, vf) THEN Absent ELSE View[p]]
  <2>1. \A p \in Paths : View'[p] =
          IF p = vt \/ Plain!IsBelow(p, vt)
          THEN IF Rebase(p, vt, vf) \in Paths THEN View[Rebase(p, vt, vf)] ELSE Absent
          ELSE IF p = vf \/ Plain!IsBelow(p, vf) THEN Absent ELSE View[p]
    BY <1>6, <1>7, <1>10, <1>14, <1>15
  <2> QED BY <2>1, ViewIs
<1>17. \A p \in Plain!Below(vf) : View[p] # Absent => Rebase(p, vf, vt) \in Paths
  <2>1. Plain!Below(vf) \subseteq Paths
    BY DEF Plain!Below
  <2> QED BY <1>13, <2>1, PlainIs
<1>18. \/ Plain!Free(View, vt)
       \/ Plain!IsFile(View, vf) /\ Plain!IsFile(View, vt)
       \/ View[vf] = Dir /\ Plain!IsEmptyDir(View, vt)
  <2>1. Plain!Below(vt) \subseteq Paths /\ \A p \in Plain!Below(vt) : Within(p, vt) /\ p # vt
    BY PlainIs DEF Plain!Below
  <2>2. Plain!Parent(vt) = ParentVRel(vt)
    BY PlainIs
  <2> QED BY <1>1, <1>11, <1>12, <2>1, <2>2 DEF Plain!Free, Plain!IsFile, Plain!IsEmptyDir
<1>19. /\ vf # Root /\ vt # Root /\ vf # vt /\ ~Plain!IsBelow(vt, vf) /\ ~Plain!IsBelow(vf, vt)
       /\ View[vf] # Absent
  BY <1>1, <1>11, PlainIs, WithinReflexive
<1>20. Plain!Rename(View, View', vf, vt)
  BY <1>16, <1>17, <1>18, <1>19 DEF Plain!Rename, Rebase
<1> QED BY <1>20, PlainStepIs

\* Every operation that returns success.
LEMMA SuccessStep ==
  ASSUME Kept = {}, SourcesAgree, "marker" \notin HostFaults, Inv, Bare(S), rc' = "ok", TameNext
  PROVE  PlainStep
<1>1. CASE NameStep
  BY <1>1, CreatePlain, MkdirPlain, RemovalPlain DEF NameStep
<1>2. CASE DataStep
  BY <1>2, DataPlain
<1>3. CASE \E vf, vt \in Paths : TameRename(vf, vt)
  BY <1>3, RenamePlain
<1>4. CASE LinkStep
  BY <1>4, LinkPlain DEF LinkStep
<1>5. CASE SessionStep
  <2>1. Remount
    BY <1>5, OkIs DEF SessionStep, Relaunch
  <2> QED BY <2>1, RemountPlain DEF PlainStep
<1> QED BY <1>1, <1>2, <1>3, <1>4, <1>5 DEF TameNext

\* Where no folder is kept, an operation that returns success has done the
\* POSIX operation or changed nothing that a program sees (vfsops.cpp), as long
\* as the markers can be written and the server is not killed.
THEOREM UnkeptSuccessCorrect ==
  ASSUME Kept = {}, SourcesAgree, HostFaults \cap {"marker", "kill"} = {}
  PROVE  TameSpec => SuccessIsPlain
<1>1. KeptOnTop /\ "marker" \notin HostFaults /\ "kill" \notin HostFaults
  BY DEF KeptOnTop
<1>2. (Inv /\ Bare(S)) /\ [TameNext]_vars =>
        [rc' = "ok" => UNCHANGED <<S, data>> \/ UNCHANGED View \/ Plain!Next]_vars
  BY <1>1, SuccessStep DEF PlainStep
<1> QED BY <1>1, <1>2, BareAlways, PTL DEF TameSpec, SuccessIsPlain

\* A create, mkdir, symlink, unlink or rmdir that is refused, or whose host
\* call fails before anything is unhidden.
LEMMA NameStepQuiet ==
  ASSUME Kept = {}, HostFaults \cap {"marker", "parent", "open", "mkdir", "symlink"} = {},
         Inv, Bare(S), NEW v \in Paths, rc' = "error",
         VfsCreate(v) \/ VfsMkdir(v) \/ VfsSymlink(v) \/ VfsUnlink(v) \/ VfsRmdir(v)
  PROVE  UNCHANGED View
<1>1. /\ Good(S) /\ Masked(S) /\ data \in [Inodes -> Contents] /\ Home[v] = Wl /\ S \in VfsState
      /\ "marker" \notin HostFaults
      /\ \A call \in {"parent", "open", "mkdir", "symlink"} : call \notin HostFaults
  BY EntryIs DEF Inv, Good
<1>2. \A s, d : \A call \in {"parent", "open", "mkdir", "symlink"} : ~Stops(call, s, d)
  BY <1>1, ErrorIs DEF Stops
<1>3. Negative(v) => Prepare(S, v)[Wl].tree[v] = Absent
  <2> SUFFICES ASSUME Negative(v) PROVE Prepare(S, v)[Wl].tree[v] = Absent
    OBVIOUS
  <2>1. S[Wl].tree[v] = Absent
    BY <1>1, NewNameIsFree DEF Negative
  <2>2. \A p \in Paths : Within(p, v) => Prepare(S, v)[Wl].tree[p] = S[Wl].tree[p]
    BY <1>1, PrepareBeside
  <2> QED BY <2>1, <2>2, PathsAre, WithinReflexive
<1>4. \E o : Reply(S, o, data, "error")
  <2>1. CASE VfsCreate(v)
    BY <1>1, <1>2, <1>3, <2>1, ErrorIs, Distinct DEF VfsCreate, ParentFails
  <2>2. CASE VfsSymlink(v)
    BY <1>1, <1>2, <1>3, <2>2, ErrorIs DEF VfsSymlink, ParentFails
  <2>3. CASE VfsMkdir(v)
    <3>1. ~RootShownAgain(v)
      BY <1>1 DEF RootShownAgain
    <3>2. \A s : \A r \in Opaque(s, v) : r.code = "ok"
      BY <1>1 DEF Opaque, Outcome
    <3>3. \A s : \A r \in {Outcome(s, "ok")} : r.code = "ok"
      BY DEF Outcome
    <3> QED BY <1>1, <1>2, <1>3, <2>3, <3>1, <3>2, <3>3, ErrorIs DEF VfsMkdir, ParentFails
  <2>4. CASE VfsUnlink(v)
    BY <2>4, ErrorIs DEF VfsUnlink
  <2>5. CASE VfsRmdir(v)
    BY <1>1, <2>5, ErrorIs DEF VfsRmdir
  <2> QED BY <2>1, <2>2, <2>3, <2>4, <2>5
<1> QED BY <1>1, <1>4, ReplyServes DEF Same

\* A rename to a free name that fails has only copied up.
LEMMA RenameQuiet ==
  ASSUME Kept = {}, HostFaults \cap {"marker", "parent", "rename"} = {},
         Inv, Bare(S), rc' = "error", NEW vf \in Paths, NEW vt \in Paths, VfsRename(vf, vt), ~Exists(S, vt)
  PROVE  UNCHANGED View
<1>1. /\ Good(S) /\ data \in [Inodes -> Contents] /\ Home[vf] = Wl /\ Home[vt] = Wl
      /\ Reachable(S, vf) /\ Exists(S, vf) /\ Reachable(S, vt) /\ vt # Root
      /\ ~Within(vt, vf) /\ ~Within(vf, vt) /\ vf \in VPath /\ vt \in VPath
      /\ "marker" \notin HostFaults /\ "parent" \notin HostFaults /\ "rename" \notin HostFaults
      /\ Wl \in Stores /\ StoreRoot(Wl) = Root
  BY EntryIs, PathsAre, StoresAre DEF Inv, VfsRename, MayRename, Positive
<1> DEFINE visits == IF IsDirectory(S, vf) THEN DeepWalk(S, vf) ELSE {vf}
<1>2. visits \subseteq Paths /\ (\A p \in visits : Reachable(S, p)) /\ vf \in visits
  <2>1. vf \in DeepWalk(S, vf)
    <3>1. \A q \in Ancestors(vf) \cup {vf} : Within(q, vf) => q = vf
      BY <1>1, AncestorsAre, AncestorsArePaths, WithinAntisymmetric
    <3> QED BY <1>1, <3>1, WithinReflexive DEF DeepWalk
  <2> QED BY <1>1, <2>1, DeepWalkReachable
<1>3. \A P, stop : P \in PartialWalks(S, vf, stop) => P \subseteq DeepWalk(S, vf)
  BY DEF PartialWalks
\* Where the rename is made, it cannot be refused.
<1>4. ASSUME NEW up \in CopiedUp(visits, vf) PROVE ~FinishRename(up.s, up.d, up.at, vf, vt)
  <2> HIDE DEF visits
  <2>1. /\ Good(up.s) /\ Masked(up.s) /\ (Bare(S) => Bare(up.s)) /\ up.d \in [Inodes -> Contents]
        /\ up.at = Wl /\ Same(S, data, up.s, up.d) /\ Copies(S, up.s, visits)
    BY <1>2, <1>4, CopiedUpServes
  <2>2. Reachable(up.s, vt) /\ ~Exists(up.s, vt)
    BY <1>1, <2>1, SameReach
  <2>3. up.s[Wl].tree[vf] # Absent /\ up.s[Wl].tree[vt] = Absent
    BY <1>1, <1>2, <2>1, <2>2, NewNameIsFree DEF Copies
  <2> DEFINE s1 == Prepare(up.s, vt)
  <2>4. /\ Beside(up.s, s1, vt, vt) /\ \A p \in Paths : Within(p, vt) => s1[Wl].tree[p] = up.s[Wl].tree[p]
    BY <2>1, PrepareBeside DEF Good
  <2>5. Good(s1)
    BY <1>1, <2>1, <2>2, PrepareServes
  <2> HIDE DEF s1
  <2>6. s1[Wl].tree[vf] # Absent /\ s1[Wl].tree[vt] = Absent
    BY <1>1, <2>3, <2>4, ApartBelow, WithinReflexive DEF Beside
  <2>7. ~HostBusy(s1, Wl, vt)
    <3>1. vt \notin s1[Wl].opq
      BY <1>1, <2>5, <2>6, Distinct DEF Good, HostTree
    <3>2. ASSUME NEW c \in Children(vt) PROVE s1[Wl].tree[c] = Absent /\ c \notin s1[Wl].wh
      <4>1. c \in Paths /\ Within(c, vt) /\ c # vt /\ Holds(Wl, vt)
        BY <1>1, PathsAre, ParentIs, WithinRoot DEF Children, Holds
      <4> QED BY <1>1, <2>5, <2>6, <4>1, EmptyBelow, Distinct
    <3> QED BY <3>1, <3>2 DEF HostBusy
  <2>8. \A x : \A r \in {Outcome(x, "ok")} : r.code = "ok"
    BY DEF Outcome
  <2>9. \A s, d : ~Stops("parent", s, d) /\ ~Stops("rename", s, d)
    BY <1>1, ErrorIs DEF Stops
  <2> QED BY <1>1, <2>1, <2>6, <2>7, <2>8, <2>9, ErrorIs DEF FinishRename, s1
<1>5. CASE IsDirectory(S, vf) /\ \E stop : \E P \in PartialWalks(S, vf, stop) : \E up \in CopiedUp(P, vf) :
             Reply(up.s, open, up.d, "error")
  <2>1. PICK stop : \E P \in PartialWalks(S, vf, stop) : \E up \in CopiedUp(P, vf) :
                      Reply(up.s, open, up.d, "error")
    BY <1>5
  <2>2. PICK P \in PartialWalks(S, vf, stop) : \E up \in CopiedUp(P, vf) : Reply(up.s, open, up.d, "error")
    BY <2>1
  <2>3. P \subseteq Paths /\ \A p \in P : Reachable(S, p)
    BY <1>2, <1>3, <1>5
  <2>4. PICK up \in CopiedUp(P, vf) : Reply(up.s, open, up.d, "error")
    BY <2>2
  <2>5. Good(up.s) /\ up.d \in [Inodes -> Contents] /\ Same(S, data, up.s, up.d)
    BY <2>3, CopiedUpServes
  <2> QED BY <2>4, <2>5, ReplyServes
<1>6. CASE CopyUpFails(vf)
  BY <1>1, <1>6, CopyUpFailsServes
<1>7. \/ \E up \in CopiedUp(visits, vf) : FinishRename(up.s, up.d, up.at, vf, vt)
      \/ IsDirectory(S, vf) /\ \E stop : \E P \in PartialWalks(S, vf, stop) : \E up \in CopiedUp(P, vf) :
           Reply(up.s, open, up.d, "error")
      \/ CopyUpFails(vf)
  BY ErrorIs DEF VfsRename
<1> QED BY <1>4, <1>5, <1>6, <1>7

\* How a step may end.
LEMMA StepEnds ==
  ASSUME Next
  PROVE  Relaunch \/ rc' \in {"ok", "error"} \/ ("kill" \in HostFaults /\ rc' = "killed")
<1> DEFINE Ended == rc' \in {"ok", "error"} \/ ("kill" \in HostFaults /\ rc' = "killed")
<1>1. \A s, d : Killed(s, d) => Ended
  BY DEF Killed
<1>2. \A s, o, d : \A code \in {"ok", "error"} : Reply(s, o, d, code) => Ended
  BY DEF Reply
<1> SUFFICES Relaunch \/ Ended
  OBVIOUS
<1> HIDE DEF Ended
<1>3. \A s, v : \A r \in HideLower(s, v) \cup Opaque(s, v) \cup {Outcome(s, "ok")} : r.code \in {"ok", "error"}
  BY DEF HideLower, Opaque, Outcome, EIO
<1>4. /\ \A s, d, call : Stops(call, s, d) => Ended
      /\ \A s, o, d, v : Made(s, o, d, v) => Ended
      /\ \A s, d, v : HideRest(s, d, v) => Ended
  BY <1>1, <1>2, <1>3 DEF Stops, Made, HideRest, EIO
<1>5. /\ EEXIST = "error" /\ EISDIR = "error" /\ ENOENT = "error" /\ EXDEV = "error"
      /\ ENOTDIR = "error" /\ ENOTEMPTY = "error" /\ EIO = "error"
  BY DEF EEXIST, EISDIR, ENOENT, EXDEV, ENOTDIR, ENOTEMPTY, EIO
<1>6. \A v : CopyUpFails(v) => Ended
  BY <1>1, <1>2, <1>4, <1>5 DEF CopyUpFails
<1>7. CASE NameStep
  <2>1. PICK v \in Paths : VfsCreate(v) \/ VfsMkdir(v) \/ VfsSymlink(v) \/ VfsUnlink(v) \/ VfsRmdir(v)
    BY <1>7 DEF NameStep
  <2>2. CASE VfsCreate(v)
    BY <1>1, <1>2, <1>4, <1>5, <2>2 DEF VfsCreate, ParentFails
  <2>3. CASE VfsMkdir(v)
    BY <1>1, <1>2, <1>3, <1>4, <1>5, <2>3 DEF VfsMkdir, ParentFails
  <2>4. CASE VfsSymlink(v)
    BY <1>1, <1>2, <1>4, <1>5, <2>4 DEF VfsSymlink, ParentFails
  <2>5. CASE VfsUnlink(v)
    BY <1>4, <2>5 DEF VfsUnlink
  <2>6. CASE VfsRmdir(v)
    BY <1>1, <1>2, <1>3, <1>4, <1>5, <2>6 DEF VfsRmdir
  <2> QED BY <2>1, <2>2, <2>3, <2>4, <2>5, <2>6
<1>8. CASE DataStep
  <2>1. CASE \E i \in Inodes : VfsRelease(i) \/ \E c \in Payloads : VfsWrite(i, c)
    BY <1>2, <2>1 DEF VfsRelease, VfsWrite
  <2>2. CASE \E v \in Paths : (\E trunc \in BOOLEAN : VfsOpen(v, trunc)) \/ VfsTruncate(v) \/ VfsChmod(v)
    BY <1>2, <1>4, <1>5, <1>6, <2>2 DEF VfsOpen, VfsTruncate, VfsChmod
  <2> QED BY <1>8, <2>1, <2>2 DEF DataStep
<1>9. CASE RenameStep
  <2>1. \A s, d, hf, vf, vt : FinishRename(s, d, hf, vf, vt) => Ended
    BY <1>1, <1>2, <1>3, <1>4, <1>5 DEF FinishRename
  <2> QED BY <1>2, <1>4, <1>5, <1>6, <1>9, <2>1 DEF RenameStep, VfsRename
<1>10. CASE LinkStep
  BY <1>1, <1>2, <1>4, <1>5, <1>6, <1>10 DEF LinkStep, VfsLink
<1>11. CASE SessionStep
  BY <1>2, <1>11 DEF SessionStep, Remount
<1> QED BY <1>7, <1>8, <1>9, <1>10, <1>11 DEF Next

\* A server that is not killed or launched anew answers.
LEMMA Answers ==
  ASSUME "kill" \notin HostFaults, "relaunch" \notin HostFaults, Next
  PROVE  rc' \in {"ok", "error"}
<1> QED BY StepEnds DEF Relaunch

\* Host errors after which an operation leaves the tree that programs see as it
\* was: a copy, an unlink or a link that fails, and all that a kept folder's
\* markers may meet.
QuietFaults == {"copy", "unlink", "link", "kept", "unhide", "xdev"}

LEMMA QuietStep ==
  ASSUME Kept = {}, SourcesAgree, HostFaults \subseteq QuietFaults, Inv, Bare(S), TameNext
  PROVE  PlainStep
<1>1. HostFaults \cap {"marker", "parent", "open", "mkdir", "symlink", "rename", "kill", "relaunch"} = {}
  BY DEF QuietFaults
<1>2. Next
  BY DEF TameNext, Next, TameRename, RenameStep
<1>3. CASE rc' = "ok"
  BY <1>1, <1>3, SuccessStep
<1>4. CASE rc' = "error"
  <2>1. CASE NameStep
    BY <1>1, <1>4, <2>1, NameStepQuiet DEF NameStep, PlainStep
  <2>2. CASE DataStep
    BY <1>4, <2>2, DataStepKeeps DEF PlainStep
  <2>3. CASE RenameStep
    BY <1>1, <1>4, <2>3, RenameStepKeeps, RenameQuiet DEF RenameStep, PlainStep
  <2>4. CASE LinkStep
    BY <1>4, <2>4, LinkStepKeeps DEF LinkStep, PlainStep
  <2>5. ~SessionStep
    BY <1>4 DEF SessionStep, Remount, Relaunch, Reply
  <2> QED BY <1>2, <2>1, <2>2, <2>3, <2>4, <2>5 DEF Next
<1> QED BY <1>1, <1>2, <1>3, <1>4, Answers

\* The merged view of a mount without kept folders is one ordinary tree: every
\* operation is the POSIX operation on it or nothing, and copy-ups, markers and
\* remounts are invisible (overlay.cpp, vfsops.cpp), whatever copies, unlinks
\* and links fail on the host.
THEOREM UnkeptImplementsPlainTree ==
  ASSUME Kept = {}, SourcesAgree, HostFaults \subseteq QuietFaults
  PROVE  TameSpec => ImplementsPlainTree
<1>1. KeptOnTop /\ "kill" \notin HostFaults
  BY DEF KeptOnTop, QuietFaults
<1>2. Init => Plain!Init
  <2> SUFFICES ASSUME Init PROVE Plain!Init
    OBVIOUS
  <2>1. Good(S) /\ data \in [Inodes -> Contents]
    BY <1>1, InitSound DEF Inv
  <2>2. /\ \A v \in Paths : View[v] \in (Contents \cup {Packed}) \cup {Dir, Absent}
        /\ View[Root] = Dir
        /\ \A v \in Paths \ {Root} : View[v] # Absent => View[ParentVRel(v)] = Dir
    BY <2>1, ServesIs, PathsAre, ViewIs
  <2>3. View \in [Paths -> (Contents \cup {Packed}) \cup {Dir, Absent}]
    BY <2>2, ViewIs
  <2> QED BY <2>2, <2>3, PlainIs DEF Plain!Init
<1>3. (Inv /\ Bare(S)) /\ [TameNext]_vars => [Plain!Next]_View
  <2> SUFFICES ASSUME Inv, Bare(S), [TameNext]_vars PROVE Plain!Next \/ UNCHANGED View
    OBVIOUS
  <2>1. CASE TameNext
    BY <2>1, QuietStep DEF PlainStep
  <2>2. CASE UNCHANGED vars
    BY <2>2 DEF View, Serves, Reachable, Resolve, vars
  <2> QED BY <2>1, <2>2
<1> QED BY <1>1, <1>2, <1>3, BareAlways, PTL DEF TameSpec, ImplementsPlainTree, Plain!Spec

(***************************************************************************)
(* Kills.                                                                  *)
(***************************************************************************)
\* On disk two states differ at and below v and w alone, but for directories
\* that the host made above v or w.
OnDisk(s, e, v, w) ==
  \A p \in Paths : ~Within(p, v) /\ ~Within(p, w) =>
    /\ \/ e[Wl].tree[p] = s[Wl].tree[p]
       \/ s[Wl].tree[p] = Absent /\ e[Wl].tree[p] = Dir /\ p \in Above[Wl][v] \cup Above[Wl][w]
    /\ p \in e[Wl].wh <=> p \in s[Wl].wh
    /\ p \in e[Wl].opq <=> p \in s[Wl].opq

LEMMA DiskThen ==
  ASSUME NEW s, NEW e, NEW g, NEW v, NEW w,
         OnDisk(s, e, v, w) \/ OnDisk(s, e, w, v), OnDisk(e, g, v, w) \/ OnDisk(e, g, w, v)
  PROVE  OnDisk(s, g, v, w)
<1> QED BY DEF OnDisk

LEMMA EnsureParentDisk ==
  ASSUME NEW s \in VfsState, NEW v \in Paths, NEW w \in Paths
  PROVE  LET e == EnsureParent(s, Wl, v)
         IN  e \in VfsState /\ OnDisk(s, e, v, w)
<1> QED BY EnsureParentIs, StoresAre DEF OnDisk

LEMMA PutDisk ==
  ASSUME NEW s \in VfsState, NEW v \in Paths, NEW w \in Paths, NEW x \in Inodes \cup {Dir, Absent}
  PROVE  LET e == Put(s, Wl, v, x)
         IN  e \in VfsState /\ OnDisk(s, e, v, w)
<1> DEFINE e == Put(s, Wl, v, x)
<1>1. /\ e \in VfsState
      /\ e[Wl].wh = s[Wl].wh /\ e[Wl].opq = s[Wl].opq
      /\ \A p \in Paths : p # v => e[Wl].tree[p] = s[Wl].tree[p]
  BY StoresAre DEF Put, VfsState
<1> HIDE DEF e
<1>2. \A p \in Paths : ~Within(p, v) => p # v
  BY PathsAre, WithinReflexive
<1> QED BY <1>1, <1>2 DEF OnDisk, e

LEMMA RemoveWhiteoutDisk ==
  ASSUME NEW s \in VfsState, NEW v \in Paths, NEW w \in Paths
  PROVE  LET e == RemoveWhiteout(s, v)
         IN  e \in VfsState /\ OnDisk(s, e, v, w)
<1> DEFINE e == RemoveWhiteout(s, v)
<1>1. /\ e \in VfsState
      /\ e[Wl].wh = s[Wl].wh \ {v} /\ e[Wl].opq = s[Wl].opq /\ e[Wl].tree = s[Wl].tree
  BY ZenonT(60), StoresAre DEF RemoveWhiteout, VfsState
<1> HIDE DEF e
<1>2. \A p \in Paths : ~Within(p, v) => p # v
  BY PathsAre, WithinReflexive
<1> QED BY <1>1, <1>2 DEF OnDisk, e

LEMMA PrepareDisk ==
  ASSUME Kept = {}, NEW s \in VfsState, NEW v \in Paths, NEW w \in Paths
  PROVE  LET e == Prepare(s, v)
         IN  e \in VfsState /\ OnDisk(s, e, v, w)
<1> DEFINE r == RemoveWhiteout(s, v)
           e == EnsureParent(r, Wl, v)
<1>1. Prepare(s, v) = e
  BY HomeIs DEF Prepare, KeptOnTop
<1>2. r \in VfsState /\ OnDisk(s, r, v, w)
  BY RemoveWhiteoutDisk
<1> HIDE DEF r
<1>3. e \in VfsState /\ OnDisk(r, e, v, w)
  BY <1>2, EnsureParentDisk
<1> QED BY <1>1, <1>2, <1>3, DiskThen

LEMMA SweepDisk ==
  ASSUME NEW s \in VfsState, NEW v \in Paths, NEW w \in Paths
  PROVE  LET e == Sweep(s, v)
         IN  e \in VfsState /\ OnDisk(s, e, v, w)
<1> DEFINE e == Sweep(s, v)
           wh == IF s[Wl].tree[v] = Dir THEN Inside(s[Wl].wh, v) ELSE {}
           opq == IF s[Wl].tree[v] = Dir THEN {v} \cap s[Wl].opq ELSE {}
<1>1. wh \subseteq Inside(s[Wl].wh, v) /\ opq \subseteq {v}
  OBVIOUS
<1>2. e = [s EXCEPT ![Wl].wh = @ \ wh, ![Wl].deleted = @ \ wh,
                    ![Wl].opq = @ \ opq, ![Wl].opaque = @ \ opq]
  BY DEF Sweep
<1>3. e \in VfsState
  BY SweepBeside
<1> HIDE DEF wh, opq, e
<1>4. e[Wl].tree = s[Wl].tree /\ e[Wl].wh = s[Wl].wh \ wh /\ e[Wl].opq = s[Wl].opq \ opq
  <2>1. PICK r : r = [s[Wl] EXCEPT !.wh = @ \ wh, !.deleted = @ \ wh, !.opq = @ \ opq, !.opaque = @ \ opq]
    OBVIOUS
  <2>2. r.tree = s[Wl].tree /\ r.wh = s[Wl].wh \ wh /\ r.opq = s[Wl].opq \ opq
    BY <2>1, StoresAre DEF VfsState
  <2>3. e[Wl] = r
    BY <1>2, <2>1, StoresAre DEF VfsState
  <2> QED BY <2>2, <2>3
<1>5. \A p \in Paths : ~Within(p, v) => p # v /\ p \notin wh
  <2> TAKE p \in Paths
  <2>1. p \in wh => p # Root /\ ParentVRel(p) = v
    BY <1>1 DEF Inside
  <2> QED BY <2>1, PathsAre, WithinReflexive, ParentIs
<1> QED BY <1>1, <1>3, <1>4, <1>5 DEF OnDisk, e

\* A directory or file that moves leaves the rest of the disk alone.
LEMMA HostRenameDisk ==
  ASSUME NEW s \in VfsState, NEW vf \in Paths, NEW vt \in Paths, Fits(s, Wl, vf, vt)
  PROVE  LET e == HostRename(s, Wl, vf, Wl, vt)
         IN  e \in VfsState /\ OnDisk(s, e, vf, vt)
<1> DEFINE e == HostRename(s, Wl, vf, Wl, vt)
           lands(mine) == {Rebase(w, vf, vt) : w \in {x \in mine : Within(x, vf)}}
           wh == s[Wl].wh \ {vf}
<1>1. /\ e \in VfsState
      /\ e[Wl].wh = (s[Wl].wh \ {w \in wh : Within(w, vf)}) \cup lands(wh)
      /\ e[Wl].opq = (s[Wl].opq \ {w \in s[Wl].opq : Within(w, vf)}) \cup lands(s[Wl].opq)
      /\ \A p \in Paths : ~Within(p, vf) /\ ~Within(p, vt) => e[Wl].tree[p] = s[Wl].tree[p]
  BY StoresAre, HostRenameIs
<1>2. \A mine \in SUBSET Paths : \A p \in lands(mine) : Within(p, vt)
  BY PathsAre, RebaseBack
<1>3. wh \in SUBSET Paths /\ s[Wl].opq \in SUBSET Paths
  BY FieldsAre, StoresAre
<1>4. /\ \A p \in lands(wh) : Within(p, vt)
      /\ \A p \in lands(s[Wl].opq) : Within(p, vt)
  BY <1>2, <1>3
<1> HIDE DEF e, lands
<1> QED BY <1>1, <1>4 DEF OnDisk, e

\* Masks in memory are not on disk.
LEMMA RenameMaskPrefixDisk ==
  ASSUME NEW s \in VfsState, NEW e \in VfsState, NEW vf, NEW vt, e = RenameMaskPrefix(s, vf, vt)
  PROVE  OnDisk(s, e, vf, vt)
<1>1. e[Wl].tree = s[Wl].tree /\ e[Wl].wh = s[Wl].wh /\ e[Wl].opq = s[Wl].opq
  BY StoresAre DEF RenameMaskPrefix, VfsState
<1> QED BY <1>1 DEF OnDisk

\* A handler that is killed has changed the disk below v and w and the content
\* of v's host file alone.
DiesIn(v, w) ==
  \E s \in VfsState, d \in [Inodes -> Contents] :
    /\ Killed(s, d) /\ OnDisk(S, s, v, w)
    /\ \A i \in Inodes : d[i] # data[i] => i \in FreeInodes \/ i = S[Wl].tree[v]

\* What a mount finds on disk.
LEMMA SeededIs ==
  ASSUME NEW s \in VfsState
  PROVE  LET t == SeedMasks(s)
         IN  /\ t[Wl].tree = s[Wl].tree /\ t[Wl].wh = s[Wl].wh /\ t[Wl].opq = s[Wl].opq
             /\ t[Wl].deleted = {x \in s[Wl].wh : x # Root /\ WalkReaches(s, Wl, ParentVRel(x))}
             /\ t[Wl].opaque = {x \in s[Wl].opq : WalkReaches(s, Wl, x)}
<1> DEFINE D == {x \in s[Wl].wh : x # Root /\ WalkReaches(s, Wl, ParentVRel(x))}
           Q == {x \in s[Wl].opq : WalkReaches(s, Wl, x)}
<1>1. SeedMasks(s)[Wl] = [s[Wl] EXCEPT !.deleted = D, !.opaque = Q]
  BY StoresAre DEF SeedMasks
<1> HIDE DEF D, Q
<1>2. PICK r : r = [s[Wl] EXCEPT !.deleted = D, !.opaque = Q]
  OBVIOUS
<1>3. r.tree = s[Wl].tree /\ r.wh = s[Wl].wh /\ r.opq = s[Wl].opq /\ r.deleted = D /\ r.opaque = Q
  BY <1>2, StoresAre DEF VfsState
<1> QED BY <1>1, <1>2, <1>3 DEF D, Q

\* Then programs see the rest as it was.
LEMMA DeathIsLocal ==
  ASSUME Kept = {}, Inv, Inv', Recorded(S), NEW v \in Paths, NEW w \in Paths, v # Root, w # Root,
         ~Within(v, w) \/ v = w, ~Within(w, v) \/ v = w, Reachable(S, v), Reachable(S, w),
         DiesIn(v, w), NEW p \in Paths, View'[p] # View[p]
  PROVE  Within(p, v) \/ Within(p, w) \/ SameFile(p, v)
<1> SUFFICES ASSUME ~Within(p, v), ~Within(p, w) PROVE SameFile(p, v)
  OBVIOUS
<1>1. PICK s \in VfsState, d \in [Inodes -> Contents] :
        /\ Killed(s, d) /\ OnDisk(S, s, v, w)
        /\ \A i \in Inodes : d[i] # data[i] => i \in FreeInodes \/ i = S[Wl].tree[v]
  BY DEF DiesIn
<1>2. PICK t : t = S'
  OBVIOUS
<1>3. PICK f : f = data'
  OBVIOUS
<1>4. /\ Good(S) /\ Masked(S) /\ data \in [Inodes -> Contents] /\ Stores = {Wl} /\ StoreRoot(Wl) = Root
      /\ Good(t) /\ f \in [Inodes -> Contents] /\ S \in VfsState /\ t \in VfsState
      /\ \A q \in Paths : View[q] = Serves(S, data, q) /\ View'[q] = Serves(t, f, q)
  BY <1>2, <1>3, StoresAre DEF Inv, Stores, View, Good
<1>5. t = SeedMasks(s) /\ f = Reclaim(s, {}, d)
  BY <1>1, <1>2, <1>3 DEF Killed
<1>6. /\ t[Wl].tree = s[Wl].tree /\ t[Wl].wh = s[Wl].wh /\ t[Wl].opq = s[Wl].opq
      /\ t[Wl].deleted = {x \in s[Wl].wh : x # Root /\ WalkReaches(s, Wl, ParentVRel(x))}
      /\ t[Wl].opaque = {x \in s[Wl].opq : WalkReaches(s, Wl, x)}
  BY <1>1, <1>5, SeededIs
\* Everything on disk is found: seeding again finds the same.
<1>7. t[Wl].deleted = t[Wl].wh /\ t[Wl].opaque = t[Wl].opq
  <2>1. PICK u : u = SeedMasks(t)
    OBVIOUS
  <2>2. u[Wl].deleted = t[Wl].wh /\ u[Wl].opaque = t[Wl].opq
    BY <1>4, <2>1, SeedMasksIs
  <2>3. /\ u[Wl].deleted = {x \in t[Wl].wh : x # Root /\ WalkReaches(t, Wl, ParentVRel(x))}
        /\ u[Wl].opaque = {x \in t[Wl].opq : WalkReaches(t, Wl, x)}
    BY <1>4, <2>1, SeededIs
  <2>4. \A x : WalkReaches(t, Wl, x) <=> WalkReaches(s, Wl, x)
    BY <1>6 DEF WalkReaches
  <2> QED BY <1>6, <2>2, <2>3, <2>4
<1>8. S[Wl].deleted = S[Wl].wh /\ S[Wl].opaque = S[Wl].opq
  BY <1>4 DEF Masked, Recorded
<1>9. Beside(S, t, v, w)
  BY <1>1, <1>6, <1>7, <1>8 DEF Beside, OnDisk
<1>10. Serves(t, data, p) = Serves(S, data, p)
  BY <1>4, <1>9, BesideServes
<1>11. PICK i \in Inodes : Entry(t, p) = i /\ f[i] # data[i]
  BY <1>4, <1>10 DEF Serves, Content, Entry
<1>12. t[Wl].tree[p] = i /\ i \in Named(t)
  BY <1>4, <1>11, ServedInode
<1>13. S[Wl].tree[p] = i /\ i \in Named(S)
  <2>1. S[Wl].tree[p] = i
    BY <1>1, <1>6, <1>12, Distinct DEF OnDisk
  <2> QED BY <2>1, <1>4 DEF Named
<1>14. i \in Named(s)
  BY <1>4, <1>6, <1>12 DEF Named
<1>15. f[i] = d[i]
  BY <1>5, <1>14 DEF Reclaim
<1>16. i = S[Wl].tree[v]
  BY <1>1, <1>11, <1>13, <1>15 DEF FreeInodes
<1> QED BY <1>4, <1>13, <1>16 DEF SameFile

\* A server that is killed does not answer.
LEMMA KillIs ==
  ASSUME rc' = "killed"
  PROVE  /\ \A s, o, d, code : Reply(s, o, d, code) => code = "killed"
         /\ \A s, d, call : Stops(call, s, d) => Killed(s, d)
         /\ EEXIST # "killed" /\ EISDIR # "killed" /\ ENOENT # "killed" /\ EXDEV # "killed"
         /\ ENOTDIR # "killed" /\ ENOTEMPTY # "killed" /\ EIO # "killed"
<1> QED BY DEF Killed, Stops, Reply, EIO, EEXIST, EISDIR, ENOENT, EXDEV, ENOTDIR, ENOTEMPTY

\* A kill in a state of the disk that is reached with data as it was.
LEMMA DiesHere ==
  ASSUME NEW s \in VfsState, Inv, NEW v, NEW w, OnDisk(S, s, v, w), Killed(s, data)
  PROVE  DiesIn(v, w)
<1> QED BY DEF DiesIn, Inv

\* The copy of a file is cut short.
LEMMA CopyUpDies ==
  ASSUME Kept = {}, Inv, rc' = "killed", NEW v \in Paths, CopyUpFails(v), NEW w \in Paths
  PROVE  DiesIn(v, w)
<1>1. Home[v] = Wl /\ S \in VfsState /\ data \in [Inodes -> Contents]
  BY HomeIs DEF KeptOnTop, Inv, Good
<1> DEFINE s1 == EnsureParent(S, Wl, v)
<1>2. s1 \in VfsState /\ OnDisk(S, s1, v, w)
  BY <1>1, EnsureParentDisk
<1>3. \/ Killed(s1, data)
      \/ \E i \in FreeInodes : Killed(Put(s1, Wl, v, i), [data EXCEPT ![i] = Empty])
  BY <1>1, KillIs DEF CopyUpFails
<1> HIDE DEF s1
<1>4. ASSUME NEW i \in FreeInodes, Killed(Put(s1, Wl, v, i), [data EXCEPT ![i] = Empty])
      PROVE  DiesIn(v, w)
  <2>1. i \in Inodes
    BY FreeInodesAre
  <2> DEFINE s == Put(s1, Wl, v, i)
             d == [data EXCEPT ![i] = Empty]
  <2>2. s \in VfsState /\ OnDisk(s1, s, v, w)
    BY <1>2, <2>1, PutDisk
  <2>3. d \in [Inodes -> Contents] /\ \A j \in Inodes : d[j] # data[j] => j = i
    BY <1>1, <2>1, Distinct
  <2>4. Killed(s, d)
    BY <1>4
  <2> HIDE DEF s, d
  <2>5. OnDisk(S, s, v, w)
    BY <1>2, <2>2, DiskThen
  <2> QED BY <2>2, <2>3, <2>4, <2>5 DEF DiesIn
<1> QED BY <1>2, <1>3, <1>4, DiesHere

\* Copies of what is below v are made below v.
LEMMA CopiedUpDisk ==
  ASSUME Kept = {}, Inv, NEW v \in Paths, NEW w \in Paths, NEW P, P \subseteq Paths,
         \A p \in P : Reachable(S, p) /\ Within(p, v), NEW up \in CopiedUp(P, v)
  PROVE  /\ up.s \in VfsState /\ OnDisk(S, up.s, v, w) /\ up.at = Wl
         /\ up.d \in [Inodes -> Contents]
         /\ \A i \in Inodes : up.d[i] # data[i] => i \in FreeInodes
<1>1. /\ Good(S) /\ data \in [Inodes -> Contents] /\ KeptOnTop /\ Wl \in Stores
      /\ \A p \in Paths : Home[p] = Wl
  BY EntryIs, StoresAre DEF Inv
<1>2. PICK ino \in Allocations(NewFiles(S, P)) :
        up = [s |-> CopyUp(S, P, ino), d |-> CopyData(S, data, ino), at |-> WriteStore(v)]
  BY DEF CopiedUp
<1>3. ino \in [NewFiles(S, P) -> Inodes] /\ (\A p \in DOMAIN ino : ino[p] \in FreeInodes)
      /\ NewFiles(S, P) \subseteq P
  BY <1>2, FreeInodesAre DEF Allocations, NewFiles
<1>4. up.d \in [Inodes -> Contents] /\ up.at = Wl
  BY CopiedUpServes
<1>5. \A i \in Inodes : up.d[i] # data[i] => i \in FreeInodes
  BY <1>2, <1>3 DEF CopyData
<1> DEFINE e == CopyUp(S, P, ino)
<1>6. /\ e \in VfsState /\ e[Wl].wh = S[Wl].wh /\ e[Wl].opq = S[Wl].opq
      /\ \A p \in Paths :
           \/ e[Wl].tree[p] = S[Wl].tree[p]
           \/ S[Wl].tree[p] = Absent /\ p \in DOMAIN ino
           \/ S[Wl].tree[p] = Absent /\ e[Wl].tree[p] = Dir
      /\ \A p \in Paths : e[Wl].tree[p] # S[Wl].tree[p] => \E q \in P : p = q \/ p \in Above[Wl][q]
  BY <1>1, <1>3, CopyUpIs
<1> HIDE DEF e
<1>7. ASSUME NEW p \in Paths, ~Within(p, v), e[Wl].tree[p] # S[Wl].tree[p]
      PROVE  S[Wl].tree[p] = Absent /\ e[Wl].tree[p] = Dir /\ p \in Above[Wl][v]
  <2>1. p \notin P
    BY <1>7
  <2>2. PICK q \in P : p \in Above[Wl][q]
    BY <1>6, <1>7, <2>1
  <2>3. p \in VPath /\ q \in VPath /\ v \in VPath /\ Within(q, p) /\ Within(q, v)
    BY <1>1, <2>2, AboveAre, PathsAre
  <2>4. Within(v, p) /\ p # v
    BY <1>7, <2>3, WithinChain, WithinReflexive
  <2>5. p \in Above[Wl][v]
    BY <1>1, <2>3, <2>4, AboveAre, StoresAre, WithinRoot
  <2> QED BY <1>3, <1>6, <1>7, <2>1, <2>5
<1>8. OnDisk(S, e, v, w)
  BY <1>6, <1>7 DEF OnDisk
<1> QED BY <1>2, <1>4, <1>5, <1>6, <1>8 DEF e

\* A directory is marked opaque.
LEMMA MarkOpaqueDisk ==
  ASSUME NEW s \in VfsState, NEW v \in Paths, NEW w \in Paths, NEW written
  PROVE  LET e == MarkOpaque(s, v, written)
         IN  e \in VfsState /\ OnDisk(s, e, v, w)
<1> DEFINE Q == IF written THEN s[Wl].opq \cup {v} ELSE s[Wl].opq
           M == s[Wl].opaque \cup {v}
           e == MarkOpaque(s, v, written)
<1>1. s[Wl].opq \subseteq Paths /\ s[Wl].opaque \subseteq Paths
  BY FieldsAre, StoresAre
<1>2. Q \subseteq Paths /\ M \subseteq Paths /\ \A p : p # v => (p \in Q <=> p \in s[Wl].opq)
  BY <1>1
<1>3. e = [s EXCEPT ![Wl].opq = Q, ![Wl].opaque = M]
  BY DEF MarkOpaque
<1> HIDE DEF Q, M, e
<1>4. PICK r : r = [s[Wl] EXCEPT !.opq = Q, !.opaque = M]
  OBVIOUS
<1>5. /\ r \in [tree : [Paths -> Inodes \cup {Dir, Absent}], wh : SUBSET Paths, opq : SUBSET Paths,
                deleted : SUBSET Paths, opaque : SUBSET Paths]
      /\ r.tree = s[Wl].tree /\ r.wh = s[Wl].wh /\ r.opq = Q
  BY <1>2, <1>4, StoresAre DEF VfsState
<1>6. e = [s EXCEPT ![Wl] = r]
  BY <1>3, <1>4, StoresAre DEF VfsState
<1>7. e \in VfsState /\ e[Wl] = r
  BY <1>5, <1>6, StoresAre DEF VfsState
<1>8. \A p \in Paths : ~Within(p, v) => p # v
  BY PathsAre, WithinReflexive
<1> QED BY <1>2, <1>5, <1>7, <1>8 DEF OnDisk, e

\* Before or after the rest of a name is hidden.
LEMMA HideRestDies ==
  ASSUME rc' = "killed", NEW s, NEW d, NEW v, HideRest(s, d, v)
  PROVE  Killed(s, d)
<1>1. \A r \in HideLower(s, v) : r.code # "killed"
  BY DEF HideLower, Outcome, EIO
<1> QED BY <1>1, KillIs DEF HideRest

\* A handler that is killed leaves the rest of the disk, and the data of other
\* files, alone: making a name, and removing one.
LEMMA NameStepDies ==
  ASSUME Kept = {}, Inv, rc' = "killed", NEW v \in Paths,
         VfsCreate(v) \/ VfsMkdir(v) \/ VfsSymlink(v) \/ VfsUnlink(v) \/ VfsRmdir(v)
  PROVE  DiesIn(v, v)
<1>1. Home[v] = Wl /\ S \in VfsState /\ data \in [Inodes -> Contents]
  BY HomeIs DEF KeptOnTop, Inv, Good
<1>2. OnDisk(S, S, v, v)
  BY DEF OnDisk
<1> DEFINE s1 == RemoveWhiteout(S, v)
           s2 == Prepare(S, v)
<1>3. s1 \in VfsState /\ OnDisk(S, s1, v, v) /\ s2 \in VfsState /\ OnDisk(S, s2, v, v)
  BY <1>1, RemoveWhiteoutDisk, PrepareDisk
<1>4. \A x \in Inodes \cup {Dir, Absent} :
        Put(s2, Wl, v, x) \in VfsState /\ OnDisk(S, Put(s2, Wl, v, x), v, v)
  BY <1>3, PutDisk, DiskThen
<1>5. ParentFails(v) => DiesIn(v, v)
  BY <1>1, <1>3, KillIs, DiesHere DEF ParentFails
<1>6. \A call : Stops(call, s2, data) => DiesIn(v, v)
  BY <1>3, KillIs, DiesHere
<1>7. \A s, o, d : Made(s, o, d, v) => Killed(s, d)
  BY KillIs DEF Made
<1>8. ASSUME NEW i \in FreeInodes, NEW c \in Contents,
             Killed(Put(s2, Wl, v, i), [data EXCEPT ![i] = c])
      PROVE  DiesIn(v, v)
  <2> DEFINE s == Put(s2, Wl, v, i)
             d == [data EXCEPT ![i] = c]
  <2>1. s \in VfsState /\ OnDisk(S, s, v, v)
    BY <1>4, FreeInodesAre
  <2>2. d \in [Inodes -> Contents] /\ \A j \in Inodes : d[j] # data[j] => j = i
    BY <1>1, FreeInodesAre
  <2>3. Killed(s, d)
    BY <1>8
  <2> HIDE DEF s, d
  <2> QED BY <2>1, <2>2, <2>3 DEF DiesIn
<1>9. ASSUME NEW c \in Contents, s2[Wl].tree[v] \in Inodes,
             Killed(s2, [data EXCEPT ![s2[Wl].tree[v]] = c])
      PROVE  DiesIn(v, v)
  <2> DEFINE i == s2[Wl].tree[v]
             d == [data EXCEPT ![i] = c]
  <2>1. i = S[Wl].tree[v]
    BY <1>1, PrepareBeside, PathsAre, WithinReflexive
  <2> HIDE DEF i
  <2>2. d \in [Inodes -> Contents] /\ \A j \in Inodes : d[j] # data[j] => j = i
    BY <1>1
  <2>3. Killed(s2, d)
    BY <1>9 DEF i
  <2> HIDE DEF d, s2
  <2> QED BY <1>3, <2>1, <2>2, <2>3 DEF DiesIn
<1> HIDE DEF s1, s2
<1>10. CASE VfsCreate(v)
  <2>1. \/ ParentFails(v) \/ Stops("open", s2, data)
        \/ \E i \in FreeInodes : Killed(Put(s2, Wl, v, i), [data EXCEPT ![i] = Empty])
        \/ /\ s2[Wl].tree[v] \in Inodes
           /\ \E c \in {Empty, data[s2[Wl].tree[v]]} : Killed(s2, [data EXCEPT ![s2[Wl].tree[v]] = c])
    BY <1>1, <1>7, <1>10, KillIs DEF VfsCreate, s2
  <2>2. s2[Wl].tree[v] \in Inodes => {Empty, data[s2[Wl].tree[v]]} \subseteq Contents
    BY <1>1, Distinct
  <2> QED BY <1>5, <1>6, <1>8, <1>9, <2>1, <2>2, Distinct
<1>11. CASE VfsSymlink(v)
  <2>1. \/ ParentFails(v) \/ Stops("symlink", s2, data)
        \/ \E i \in FreeInodes : Killed(Put(s2, Wl, v, i), [data EXCEPT ![i] = LinkTarget])
    BY <1>1, <1>7, <1>11, KillIs DEF VfsSymlink, s2
  <2> QED BY <1>5, <1>6, <1>8, <2>1, Distinct
<1>12. CASE VfsMkdir(v)
  <2> DEFINE s3 == Put(s2, Wl, v, Dir)
  <2>1. s3 \in VfsState /\ OnDisk(S, s3, v, v)
    BY <1>4
  <2> HIDE DEF s3
  <2>2. \/ ParentFails(v) \/ Stops("mkdir", s2, data) \/ Killed(s3, data)
        \/ \E w \in MarkerWritten : Killed(MarkOpaque(s3, v, w), data)
    BY <1>1, <1>7, <1>12, KillIs DEF VfsMkdir, s2, s3, RootShownAgain, Opaque, Outcome
  <2>3. ASSUME NEW w PROVE MarkOpaque(s3, v, w) \in VfsState /\ OnDisk(s3, MarkOpaque(s3, v, w), v, v)
    BY <2>1, MarkOpaqueDisk
  <2> QED BY <1>5, <1>6, <2>1, <2>2, <2>3, DiskThen, DiesHere
<1>13. CASE VfsUnlink(v)
  <2>1. Killed(S, data) \/ Killed(Put(S, Wl, v, Absent), data)
    BY <1>1, <1>13, KillIs, HideRestDies DEF VfsUnlink
  <2> QED BY <1>1, <1>2, <2>1, PutDisk, DiesHere
<1>14. CASE VfsRmdir(v)
  <2> DEFINE s4 == Sweep(S, v)
  <2>1. s4 \in VfsState /\ OnDisk(S, s4, v, v)
    BY <1>1, SweepDisk
  <2>2. Killed(s4, data) \/ Killed(HostRmdir(s4, Wl, v), data)
    BY <1>1, <1>14, KillIs, HideRestDies DEF VfsRmdir
  <2> HIDE DEF s4
  <2>3. HostRmdir(s4, Wl, v) \in {s4, Put(s4, Wl, v, Absent)}
    BY DEF HostRmdir
  <2>4. Put(s4, Wl, v, Absent) \in VfsState /\ OnDisk(s4, Put(s4, Wl, v, Absent), v, v)
    BY <2>1, PutDisk
  <2> QED BY <2>1, <2>2, <2>3, <2>4, DiskThen, DiesHere
<1> QED BY <1>10, <1>11, <1>12, <1>13, <1>14

\* An operation on a file's data, or on its permissions: while it is copied up,
\* or when it has been.
LEMMA DataStepDies ==
  ASSUME Kept = {}, Inv, rc' = "killed", NEW v \in Paths,
         (\E trunc \in BOOLEAN : VfsOpen(v, trunc)) \/ VfsTruncate(v) \/ VfsChmod(v)
  PROVE  Reachable(S, v) /\ v # Root /\ DiesIn(v, v)
<1>1. Reachable(S, v) /\ v # Root
  BY DEF VfsOpen, VfsTruncate, VfsChmod, Regular, Positive
<1>2. CASE CopyUpFails(v)
  BY <1>1, <1>2, CopyUpDies
<1>3. CASE \E up \in CopiedUp({v}, v) : Stops("open", up.s, up.d)
  <2>1. PICK up \in CopiedUp({v}, v) : Killed(up.s, up.d)
    BY <1>3, KillIs
  <2>2. PICK P : P = {v}
    OBVIOUS
  <2>3. Within(v, v)
    BY PathsAre, WithinReflexive
  <2>4. /\ up.s \in VfsState /\ OnDisk(S, up.s, v, v) /\ up.d \in [Inodes -> Contents]
        /\ \A i \in Inodes : up.d[i] # data[i] => i \in FreeInodes
    BY <1>1, <2>1, <2>2, <2>3, CopiedUpDisk
  <2> QED BY <1>1, <2>1, <2>4 DEF DiesIn
<1>4. CopyUpFails(v) \/ \E up \in CopiedUp({v}, v) : Stops("open", up.s, up.d)
  BY KillIs DEF VfsOpen, VfsTruncate, VfsChmod
<1> QED BY <1>2, <1>3, <1>4

\* A link: the new name may be there, its marker too.
LEMMA LinkDies ==
  ASSUME Kept = {}, Inv, rc' = "killed", NEW vf \in Paths, NEW vt \in Paths, VfsLink(vf, vt)
  PROVE  DiesIn(vf, vt)
<1>1. Home[vt] = Wl /\ Reachable(S, vf) /\ Within(vf, vf)
  BY HomeIs, PathsAre, WithinReflexive DEF KeptOnTop, VfsLink, Positive
<1>2. CASE CopyUpFails(vf)
  BY <1>2, CopyUpDies
<1>3. ASSUME NEW up \in CopiedUp({vf}, vf),
             LET s2 == EnsureParent(up.s, Wl, vt)
             IN  \/ Killed(up.s, up.d) \/ Killed(s2, up.d)
                 \/ Killed(Put(s2, Wl, vt, up.s[up.at].tree[vf]), up.d)
      PROVE  DiesIn(vf, vt)
  <2>1. PICK P : P = {vf}
    OBVIOUS
  <2>2. /\ up.s \in VfsState /\ OnDisk(S, up.s, vf, vt) /\ up.d \in [Inodes -> Contents] /\ up.at = Wl
        /\ \A i \in Inodes : up.d[i] # data[i] => i \in FreeInodes
    BY <1>1, <1>3, <2>1, CopiedUpDisk
  <2>3. PICK from \in Inodes \cup {Dir, Absent} : from = up.s[up.at].tree[vf]
    BY <2>2, FieldsAre, StoresAre
  <2> DEFINE s2 == EnsureParent(up.s, Wl, vt)
             s3 == Put(s2, Wl, vt, from)
  <2>4. s2 \in VfsState /\ OnDisk(up.s, s2, vt, vf)
    BY <2>2, EnsureParentDisk
  <2>5. Killed(up.s, up.d) \/ Killed(s2, up.d) \/ Killed(s3, up.d)
    BY <1>3, <2>3
  <2> HIDE DEF s2
  <2>6. s3 \in VfsState /\ OnDisk(s2, s3, vt, vf)
    BY <2>4, PutDisk
  <2> HIDE DEF s3
  <2>7. OnDisk(S, s2, vf, vt) /\ OnDisk(S, s3, vf, vt)
    BY <2>2, <2>4, <2>6, DiskThen
  <2> QED BY <2>2, <2>4, <2>5, <2>6, <2>7 DEF DiesIn
<1> QED BY <1>1, <1>2, <1>3, KillIs DEF VfsLink

\* A rename, once its source is copied up.
LEMMA FinishDies ==
  ASSUME Kept = {}, rc' = "killed", NEW vf \in Paths, NEW vt \in Paths,
         ~Within(vt, vf), ~Within(vf, vt),
         NEW s \in VfsState, NEW d, FinishRename(s, d, Wl, vf, vt)
  PROVE  \E e \in VfsState : Killed(e, d) /\ OnDisk(s, e, vf, vt)
<1> DEFINE s1 == Prepare(s, vt)
           e == HostRename(s1, Wl, vf, Wl, vt)
           m == RenameMaskPrefix(e, vf, vt)
<1>1. Home[vf] = Wl /\ Home[vt] = Wl
  BY HomeIs DEF KeptOnTop
<1>2. \A t : KeptRenamePrefix(t, vf, vt) = t /\ Settle(t, vt) = {t}
  BY <1>1 DEF KeptRenamePrefix, Settle
<1>3. s1 \in VfsState /\ OnDisk(s, s, vf, vt) /\ OnDisk(s, s1, vf, vt)
  BY PrepareDisk, DiskThen DEF OnDisk
<1>4. \/ Killed(s, d) \/ Killed(s1, d)
      \/ Fits(s1, Wl, vf, vt) /\ (Killed(e, d) \/ (IsDirectory(S, vf) /\ Killed(m, d)))
  <2>1. CASE s1[Wl].tree[vf] = s1[Wl].tree[vt] /\ ~IsDirectory(S, vf)
    BY <1>1, <1>2, <2>1, KillIs, HideRestDies DEF FinishRename, Outcome
  <2>2. CASE ~(s1[Wl].tree[vf] = s1[Wl].tree[vt] /\ ~IsDirectory(S, vf))
    BY <1>1, <1>2, <2>2, KillIs, HideRestDies DEF FinishRename, Outcome
  <2> QED BY <2>1, <2>2
<1>5. Fits(s1, Wl, vf, vt) /\ IsDirectory(S, vf) => m \in VfsState
  BY MovedBeside DEF Moved
<1> HIDE DEF s1
<1>6. Fits(s1, Wl, vf, vt) => e \in VfsState /\ OnDisk(s1, e, vf, vt)
  BY <1>3, HostRenameDisk
<1> HIDE DEF e
<1>7. e \in VfsState /\ m \in VfsState => OnDisk(e, m, vf, vt)
  BY RenameMaskPrefixDisk
<1> HIDE DEF m
<1> QED BY <1>3, <1>4, <1>5, <1>6, <1>7, DiskThen

\* VfsRename.
LEMMA RenameDies ==
  ASSUME Kept = {}, Inv, rc' = "killed", NEW vf \in Paths, NEW vt \in Paths, VfsRename(vf, vt)
  PROVE  DiesIn(vf, vt)
<1>1. /\ Reachable(S, vf) /\ Within(vf, vf) /\ ~Within(vt, vf) /\ ~Within(vf, vt)
  BY PathsAre, WithinReflexive DEF VfsRename, MayRename, Positive
<1> DEFINE visits == IF IsDirectory(S, vf) THEN DeepWalk(S, vf) ELSE {vf}
<1>2. \A p \in DeepWalk(S, vf) : p \in Paths /\ Reachable(S, p) /\ Within(p, vf)
  BY <1>1, DeepWalkReachable
<1>3. visits \subseteq Paths /\ \A p \in visits : Reachable(S, p) /\ Within(p, vf)
  BY <1>1, <1>2
<1>4. CASE CopyUpFails(vf)
  BY <1>4, CopyUpDies
<1>5. CASE \E up \in CopiedUp(visits, vf) : FinishRename(up.s, up.d, up.at, vf, vt)
  <2>1. PICK up \in CopiedUp(visits, vf) : FinishRename(up.s, up.d, up.at, vf, vt)
    BY <1>5
  <2> HIDE DEF visits
  <2>2. /\ up.s \in VfsState /\ OnDisk(S, up.s, vf, vt) /\ up.d \in [Inodes -> Contents] /\ up.at = Wl
        /\ \A i \in Inodes : up.d[i] # data[i] => i \in FreeInodes
    BY <1>3, <2>1, CopiedUpDisk
  <2>3. PICK e \in VfsState : Killed(e, up.d) /\ OnDisk(up.s, e, vf, vt)
    BY <1>1, <2>1, <2>2, FinishDies
  <2>4. OnDisk(S, e, vf, vt)
    BY <2>2, <2>3, DiskThen
  <2> QED BY <2>2, <2>3, <2>4 DEF DiesIn
<1>6. CASE \E stop : \E P \in PartialWalks(S, vf, stop) : \E up \in CopiedUp(P, vf) : Killed(up.s, up.d)
  <2>1. PICK stop : \E P \in PartialWalks(S, vf, stop) : \E up \in CopiedUp(P, vf) : Killed(up.s, up.d)
    BY <1>6
  <2>2. PICK P \in PartialWalks(S, vf, stop) : \E up \in CopiedUp(P, vf) : Killed(up.s, up.d)
    BY <2>1
  <2>3. P \subseteq Paths /\ \A p \in P : Reachable(S, p) /\ Within(p, vf)
    BY <1>2, <2>2 DEF PartialWalks
  <2>4. PICK up \in CopiedUp(P, vf) : Killed(up.s, up.d)
    BY <2>2
  <2>5. /\ up.s \in VfsState /\ OnDisk(S, up.s, vf, vt) /\ up.d \in [Inodes -> Contents]
        /\ \A i \in Inodes : up.d[i] # data[i] => i \in FreeInodes
    BY <2>3, <2>4, CopiedUpDisk
  <2> QED BY <2>4, <2>5 DEF DiesIn
<1>7. \/ CopyUpFails(vf) \/ \E up \in CopiedUp(visits, vf) : FinishRename(up.s, up.d, up.at, vf, vt)
      \/ \E stop : \E P \in PartialWalks(S, vf, stop) : \E up \in CopiedUp(P, vf) : Killed(up.s, up.d)
  BY KillIs DEF VfsRename
<1> QED BY <1>4, <1>5, <1>6, <1>7

\* A step that kills the server.
LEMMA KillStep ==
  ASSUME Kept = {}, Inv, Inv', Next, rc' = "killed", Recorded(S),
         NEW p \in Paths, View'[p] # View[p]
  PROVE  \E q \in Paths : (Within(p, q) \/ SameFile(p, q)) /\ OperationOn(q)
<1>1. CASE NameStep
  <2>1. PICK v \in Paths : VfsCreate(v) \/ VfsMkdir(v) \/ VfsSymlink(v) \/ VfsUnlink(v) \/ VfsRmdir(v)
    BY <1>1 DEF NameStep
  <2>2. Reachable(S, v) /\ v # Root
    BY <2>1 DEF VfsCreate, VfsMkdir, VfsSymlink, VfsUnlink, VfsRmdir, Positive, Negative
  <2>3. Within(p, v) \/ SameFile(p, v)
    BY <2>1, <2>2, NameStepDies, DeathIsLocal
  <2> QED BY <2>1, <2>3 DEF OperationOn
<1>2. CASE DataStep
  <2>1. ~\E i \in Inodes : VfsRelease(i) \/ \E c \in Payloads : VfsWrite(i, c)
    BY DEF VfsRelease, VfsWrite, Reply
  <2>2. PICK v \in Paths : (\E trunc \in BOOLEAN : VfsOpen(v, trunc)) \/ VfsTruncate(v) \/ VfsChmod(v)
    BY <1>2, <2>1 DEF DataStep
  <2>3. Within(p, v) \/ SameFile(p, v)
    BY <2>2, DataStepDies, DeathIsLocal
  <2> QED BY <2>2, <2>3 DEF OperationOn
<1>3. CASE LinkStep
  <2>1. PICK vf \in Paths, vt \in Paths : VfsLink(vf, vt)
    BY <1>3 DEF LinkStep
  <2>2. /\ vf # Root /\ vt # Root /\ Reachable(S, vf) /\ Reachable(S, vt)
        /\ Exists(S, vf) /\ ~IsDirectory(S, vf) /\ ~Exists(S, vt)
    BY <2>1 DEF VfsLink, Positive, Negative
  <2>3. ~IsDirectory(S, vt)
    BY <2>2, EntryIs, Distinct DEF Inv, IsDirectory, Entry
  <2>4. ~Within(vf, vt) /\ ~Within(vt, vf)
    BY <2>2, <2>3, ReachableIs
  <2>5. Within(p, vf) \/ Within(p, vt) \/ SameFile(p, vf)
    BY <2>1, <2>2, <2>4, LinkDies, DeathIsLocal
  <2> QED BY <2>1, <2>5 DEF OperationOn
<1>4. CASE RenameStep
  <2>1. PICK vf \in Paths, vt \in Paths : VfsRename(vf, vt)
    BY <1>4 DEF RenameStep
  <2>2. /\ vf # Root /\ vt # Root /\ Reachable(S, vf) /\ Reachable(S, vt)
        /\ ~Within(vf, vt) /\ ~Within(vt, vf)
    BY <2>1 DEF VfsRename, MayRename, Positive
  <2>3. Within(p, vf) \/ Within(p, vt) \/ SameFile(p, vf)
    BY <2>1, <2>2, RenameDies, DeathIsLocal
  <2> QED BY <2>1, <2>3 DEF OperationOn
<1>5. ~SessionStep
  BY DEF SessionStep, Remount, Relaunch, Reply
<1> QED BY <1>1, <1>2, <1>3, <1>4, <1>5 DEF Next

\* Where no folder is kept, a kill touches only what the operation in flight
\* was working on, between whichever two host calls it comes: all that earlier
\* operations did is there after the next mount, and what they deleted stays
\* deleted, as long as its markers could be written (vfsops.cpp, overlay.cpp).
THEOREM UnkeptKillCorrect ==
  ASSUME Kept = {}
  PROVE  Spec => KillIsLocal
<1>1. Inv /\ Inv' /\ [Next]_vars =>
        [rc' = "killed" /\ Recorded(S) =>
           \A v \in Paths :
             View'[v] # View[v] =>
               \E p \in Paths : (Within(v, p) \/ SameFile(v, p)) /\ OperationOn(p)]_vars
  BY KillStep
<1> QED BY <1>1, UnkeptAlways, PTL DEF Spec, KillIsLocal

(***************************************************************************)
(* Kept folders are durable.                                               *)
(***************************************************************************)
\* On disk, the writelayer does not hide the kept folder k: no marker at or
\* above its root, and no file above it.
Shown(s, k) ==
  \A a \in Paths : Within(KeptRoot[k], a) =>
    /\ a \notin s[Wl].wh
    /\ a # KeptRoot[k] => a \notin s[Wl].opq /\ s[Wl].tree[a] \in {Dir, Absent}

\* On disk, the kept folder k is empty and opaque.
Vacant(s, k) ==
  /\ KeptRoot[k] \in s[k].opq
  /\ \A v \in Paths : Within(v, KeptRoot[k]) /\ v # KeptRoot[k] => s[k].tree[v] = Absent

\* The inductive invariant of KeptIsDurable: a kept folder that is not served
\* has nothing to lose.
Durable(s) == Root \notin s[Wl].opq /\ \A k \in Kept : Shown(s, k) \/ Vacant(s, k)

\* A kept folder that was shown in S still is, and one that was not is as it was.
Stays(s) ==
  /\ Root \in s[Wl].opq => Root \in S[Wl].opq
  /\ \A k \in Kept :
       /\ Shown(S, k) => Shown(s, k)
       /\ ~Shown(S, k) => s[k].tree = S[k].tree /\ s[k].opq = S[k].opq

\* v is the mount root or a kept folder that is shown, or above one.
OnWay(v) == v = Root \/ \E k \in Kept : Shown(S, k) /\ Within(KeptRoot[k], v)

\* v may be changed: it is not on the way to a kept folder, and its store is shown.
Free(v) == v \in Paths /\ ~OnWay(v) /\ (Home[v] # Wl => Shown(S, Home[v]))

LEMMA StaysDurable ==
  ASSUME NEW s, Durable(S), Stays(s)
  PROVE  Durable(s)
<1> QED BY DEF Durable, Stays, Vacant

LEMMA StaysHere == Stays(S)
<1> QED BY DEF Stays

\* What a step may do.
LEMMA StaysBy ==
  ASSUME NEW s, Stays(s), NEW e,
         \A k \in Kept : Shown(S, k) \/ (e[k].tree = s[k].tree /\ e[k].opq = s[k].opq),
         \A a \in Paths : OnWay(a) =>
           /\ a \in e[Wl].wh => a \in s[Wl].wh
           /\ a \in e[Wl].opq => a \in s[Wl].opq
           /\ e[Wl].tree[a] \in {s[Wl].tree[a], Dir, Absent}
  PROVE  Stays(e)
<1>1. ASSUME NEW k \in Kept, Shown(S, k) PROVE Shown(e, k)
  <2>1. Shown(s, k)
    BY <1>1 DEF Stays
  <2> SUFFICES ASSUME NEW a \in Paths, Within(KeptRoot[k], a)
               PROVE  /\ a \notin e[Wl].wh
                      /\ a # KeptRoot[k] => a \notin e[Wl].opq /\ e[Wl].tree[a] \in {Dir, Absent}
    BY DEF Shown
  <2>2. OnWay(a)
    BY <1>1 DEF OnWay
  <2>3. /\ a \notin s[Wl].wh
        /\ a # KeptRoot[k] => a \notin s[Wl].opq /\ s[Wl].tree[a] \in {Dir, Absent}
    BY <2>1 DEF Shown
  <2> QED BY <2>2, <2>3
<1>2. ASSUME NEW k \in Kept, ~Shown(S, k) PROVE e[k].tree = S[k].tree /\ e[k].opq = S[k].opq
  BY <1>2 DEF Stays
<1>3. Root \in e[Wl].opq => Root \in S[Wl].opq
  BY PathsAre DEF OnWay, Stays
<1> QED BY <1>1, <1>2, <1>3 DEF Stays

\* A change of the store h that spares what is on the way.
LEMMA StaysIn ==
  ASSUME NEW s, Stays(s), NEW e, NEW h \in Stores, h # Wl => Shown(S, h),
         \A g \in Stores : g # h => e[g] = s[g],
         h = Wl => \A a \in Paths : OnWay(a) =>
           /\ a \in e[Wl].wh => a \in s[Wl].wh
           /\ a \in e[Wl].opq => a \in s[Wl].opq
           /\ e[Wl].tree[a] \in {s[Wl].tree[a], Dir, Absent}
  PROVE  Stays(e)
<1>1. \A k \in Kept : Shown(S, k) \/ (e[k].tree = s[k].tree /\ e[k].opq = s[k].opq)
  BY StoresAre
<1>2. \A a \in Paths : OnWay(a) =>
        /\ a \in e[Wl].wh => a \in s[Wl].wh
        /\ a \in e[Wl].opq => a \in s[Wl].opq
        /\ e[Wl].tree[a] \in {s[Wl].tree[a], Dir, Absent}
  BY StoresAre
<1> QED BY <1>1, <1>2, StaysBy

\* The kernel reached a path in a kept folder: the folder is shown.
LEMMA ReachedShown ==
  ASSUME KeptOnTop, NEW s, Good(s), Masked(s), NEW v \in Paths, NEW k \in Kept, Within(v, KeptRoot[k]),
         Reachable(s, v), v # KeptRoot[k] \/ Exists(s, v)
  PROVE  Shown(s, k)
<1> DEFINE root == KeptRoot[k]
<1>1. root \in Paths /\ Home[root] = k /\ k \in Stores /\ k # Wl
  BY KeptAre, KeptApart, StoresAre
<1>2. \A a \in Paths : Within(v, a) /\ a # v => IsDirectory(s, a) /\ Exists(s, a)
  BY ReachableClear, DirectoryIs
<1>3. \A a \in Paths : Within(root, a) => Within(v, a) /\ (a # root => a # v)
  BY <1>1, PathsAre, WithinTransitive, WithinAntisymmetric
<1>4. Exists(s, root)
  BY <1>1, <1>2
<1>5. CASE root = Root
  <2>1. \A a \in Paths : Within(root, a) => a = Root
    BY <1>5, PathsAre, WithinRoot
  <2> QED BY <1>5, <2>1, StoresAre DEF Shown, Good, Apart
<1>6. CASE root # Root
  <2>1. s[Wl].tree[root] = Absent
    BY <1>1, <1>6, PathsAre, WithinReflexive DEF Good, Apart
  <2>2. ~IsDeleted(s, Wl, root) /\ ~IsUnderMask(s, Wl, root)
    BY <1>4, <2>1 DEF Exists, Resolve, None
  <2>3. \A a \in Above[Wl][root] : a \notin s[Wl].opaque /\ a \notin s[Wl].opq
    BY <2>2, StoresAre DEF IsUnderMask, Masked
  <2>4. ASSUME NEW a \in Paths, Within(root, a)
        PROVE  /\ a \notin s[Wl].wh
               /\ a # root => a \notin s[Wl].opq /\ s[Wl].tree[a] \in {Dir, Absent}
    <3>1. ~IsDeleted(s, Wl, a)
      BY <1>1, <1>2, <1>3, <1>4, <2>4, DirectoryIs
    <3>2. a \notin s[Wl].wh
      BY <3>1, StoresAre DEF IsDeleted, Masked, Good, Apart
    <3>3. ASSUME a # root PROVE a \notin s[Wl].opq /\ s[Wl].tree[a] \in {Dir, Absent}
      <4>1. a \in Above[Wl][root]
        BY <1>1, <2>4, <3>3, AboveAre, StoresAre, PathsAre, WithinRoot
      <4>2. Home[a] = Wl
        BY <2>4, <3>3, KeptApart
      <4>3. IsDirectory(s, a)
        BY <1>2, <1>3, <2>4, <3>3
      <4> QED BY <2>3, <4>1, <4>2, <4>3, DirectoryIs
    <3> QED BY <3>2, <3>3
  <2> QED BY <2>4 DEF Shown
<1> QED BY <1>5, <1>6

\* A kept folder that is shown is reached, by directories alone.
LEMMA ShownServed ==
  ASSUME KeptOnTop, KeptReached, "marker" \notin HostFaults,
         NEW s, Good(s), Masked(s), NEW k \in Kept, Shown(s, k)
  PROVE  /\ \A a \in Paths : Within(KeptRoot[k], a) => IsDirectory(s, a) /\ Exists(s, a)
         /\ Reachable(s, KeptRoot[k])
<1> DEFINE root == KeptRoot[k]
<1>1. root \in Paths /\ Home[root] = k /\ k \in Stores /\ k # Wl /\ StoreRoot(k) = root
  BY KeptAre, KeptApart, StoresAre
<1>2. s[Wl].deleted = s[Wl].wh /\ s[Wl].opaque = s[Wl].opq
  BY StoresAre DEF Masked
<1>3. ASSUME NEW a \in Paths, Within(root, a) PROVE IsDirectory(s, a) /\ Exists(s, a)
  <2>1. ~IsDeleted(s, Wl, a)
    BY <1>2, <1>3 DEF Shown, IsDeleted
  <2>2. ~IsUnderMask(s, Wl, a)
    <3> SUFFICES ASSUME NEW b \in Above[Wl][a] PROVE ~IsDeleted(s, Wl, b) /\ b \notin s[Wl].opaque
      BY DEF IsUnderMask
    <3>1. b \in Paths /\ Within(a, b) /\ b # a
      BY AboveAre, StoresAre
    <3>2. Within(root, b) /\ b # root
      BY <1>1, <1>3, <3>1, PathsAre, WithinTransitive, WithinAntisymmetric
    <3> QED BY <1>2, <3>1, <3>2 DEF Shown, IsDeleted
  <2>3. CASE a = root
    <3>1. s[k].tree[root] = Dir
      BY <1>1 DEF Good, HostTree
    <3>2. s[Wl].tree[root] \in {Dir, Absent}
      <4>1. root = Root => s[Wl].tree[root] = Dir
        BY StoresAre DEF Good, HostTree
      <4> QED BY <1>1, <4>1, PathsAre, WithinReflexive DEF Good, Apart
    <3>3. ResolveLayers(s, root) = [kind |-> "Kept", at |-> k, entry |-> Dir]
      BY <1>1, <3>1, ResolveLayersIs, Distinct
    <3>4. \/ Resolve(s, root) = [kind |-> "WriteLayer", at |-> Wl, entry |-> Dir]
          \/ Resolve(s, root) = [kind |-> "Kept", at |-> k, entry |-> Dir]
      BY <2>1, <2>2, <2>3, <3>2, <3>3 DEF Resolve
    <3> QED BY <2>3, <3>4 DEF IsDirectory, Exists
  <2>4. CASE a # root
    <3>1. a \in Ancestors(root)
      BY <1>1, <1>3, <2>4, PathsAre, AncestorsAre
    <3>2. KeptOver[a] = {}
      BY ZenonT(60), <1>3, <2>4, KeptApart, HomeIs
    <3>3. s[Wl].tree[a] \in {Dir, Absent}
      BY <1>3, <2>4 DEF Shown
    <3>4. ResolveLayers(s, a) = HighestAnswer(s, a, Hits[a])
      BY <3>2 DEF ResolveLayers
    <3>5. ASSUME Hits[a] # {}
          PROVE  ResolveLayers(s, a) = [kind |-> "Lower", at |-> Topmost(Hits[a]), entry |-> Dir]
      <4>1. Hits[a] \subseteq DOMAIN Layers /\ Hits[a] \subseteq Int /\ Hits[a] \cap Kept = {}
        BY HitsAre
      <4>2. PICK i \in Hits[a] : \A j \in Hits[a] : j <= i
        BY <3>5, <4>1, GreatestExists
      <4>3. Topmost(Hits[a]) = i
        BY <4>1, <4>2, GreatestIs DEF Topmost
      <4>4. LayerEntry[i][a] = Dir
        BY <3>1, <4>2 DEF KeptReached
      <4> QED BY <3>4, <3>5, <4>1, <4>2, <4>3, <4>4 DEF HighestAnswer, Answer
    <3>6. ASSUME Hits[a] = {}, a # Root
          PROVE  ResolveLayers(s, a) = [kind |-> "Lower", at |-> Wl, entry |-> Dir]
      <4>1. k \in DOMAIN Layers /\ Layers[k].type = "Dir" /\ Layers[k].maskedUnder = {}
        BY KeptAre, LayersAssumption DEF Kept
      <4>2. Presence(Layers[k]) = root /\ ~LayerMasked(Layers[k], root)
        BY <4>1 DEF Presence, KeptRoot, LayerMasked
      <4>3. a \in ImplicitDirs
        BY <3>1, <3>6, <4>1, <4>2 DEF ImplicitDirs
      <4> QED BY <3>4, <3>6, <4>3 DEF HighestAnswer
    <3>8. s[Wl].tree[Root] = Dir
      BY StoresAre DEF Good, HostTree
    <3>7. \/ Resolve(s, a) = [kind |-> "WriteLayer", at |-> Wl, entry |-> Dir]
          \/ \E i : Resolve(s, a) = [kind |-> "Lower", at |-> i, entry |-> Dir]
      BY <2>1, <2>2, <3>3, <3>5, <3>6, <3>8, Distinct DEF Resolve
    <3> QED BY <3>7 DEF IsDirectory, Exists
  <2> QED BY <2>3, <2>4
<1>4. Reachable(s, root)
  <2> SUFFICES ASSUME NEW a \in Above[Wl][root] PROVE IsDirectory(s, a)
    BY DEF Reachable
  <2>1. a \in Paths /\ Within(root, a)
    BY <1>1, AboveAre, StoresAre
  <2> QED BY <1>3, <2>1
<1> QED BY <1>3, <1>4

\* A mount changes no host tree and no marker.
LEMMA SeedDisk ==
  ASSUME NEW s \in VfsState
  PROVE  LET t == SeedMasks(s)
         IN  /\ t \in VfsState
             /\ \A h \in Stores : t[h].tree = s[h].tree /\ t[h].wh = s[h].wh /\ t[h].opq = s[h].opq
<1> DEFINE t == SeedMasks(s)
           del(h) == {v \in s[h].wh : v # Root /\ WalkReaches(s, h, ParentVRel(v))}
           opa(h) == {v \in s[h].opq : WalkReaches(s, h, v)}
<1>1. t = [h \in Stores |-> [s[h] EXCEPT !.deleted = del(h), !.opaque = opa(h)]]
  BY DEF SeedMasks
<1>2. \A h \in Stores : del(h) \subseteq Paths /\ opa(h) \subseteq Paths
  BY FieldsAre
<1> HIDE DEF t, del, opa
<1>3. ASSUME NEW h \in Stores
      PROVE  /\ t[h].tree = s[h].tree /\ t[h].wh = s[h].wh /\ t[h].opq = s[h].opq
             /\ t[h] \in [tree : [Paths -> Inodes \cup {Dir, Absent}], wh : SUBSET Paths, opq : SUBSET Paths,
                          deleted : SUBSET Paths, opaque : SUBSET Paths]
  <2>1. s[h] \in [tree : [Paths -> Inodes \cup {Dir, Absent}], wh : SUBSET Paths, opq : SUBSET Paths,
                  deleted : SUBSET Paths, opaque : SUBSET Paths]
    BY DEF VfsState
  <2>2. t[h] = [s[h] EXCEPT !.deleted = del(h), !.opaque = opa(h)]
    BY <1>1
  <2> QED BY <1>2, <2>1, <2>2
<1>4. t \in VfsState
  BY <1>1, <1>3 DEF VfsState
<1> QED BY <1>3, <1>4 DEF t

\* A state that the handler may stop in.
Calm(s) == s \in VfsState /\ Stays(s)

LEMMA EndsDurable ==
  ASSUME Durable(S), NEW s, Calm(s), NEW o, NEW d, NEW code, Reply(s, o, d, code) \/ Killed(s, d)
  PROVE  Durable(S')
<1>1. Durable(s) /\ s \in VfsState
  BY StaysDurable DEF Calm
<1>2. S' = s \/ S' = SeedMasks(s)
  BY DEF Reply, Killed
<1>3. \A h \in Stores : S'[h].tree = s[h].tree /\ S'[h].wh = s[h].wh /\ S'[h].opq = s[h].opq
  BY <1>1, <1>2, SeedDisk
<1> QED BY <1>1, <1>3, StoresAre DEF Durable, Shown, Vacant

LEMMA StopsDurable ==
  ASSUME Durable(S), NEW s, Calm(s), NEW d, NEW call, Stops(call, s, d)
  PROVE  Durable(S')
<1> QED BY EndsDurable DEF Stops

LEMMA EnsureParentCalm ==
  ASSUME NEW s, Calm(s), NEW h \in Stores, NEW v \in Paths, h # Wl => Shown(S, h)
  PROVE  Calm(EnsureParent(s, h, v))
<1> DEFINE e == EnsureParent(s, h, v)
<1>1. /\ e \in VfsState
      /\ \A g \in Stores : g # h => e[g] = s[g]
      /\ e[h].wh = s[h].wh /\ e[h].opq = s[h].opq
      /\ \A p \in Paths : e[h].tree[p] \in {s[h].tree[p], Dir, Absent}
  BY EnsureParentIs DEF Calm
<1> HIDE DEF e
<1>2. Stays(e)
  BY <1>1, StaysIn DEF Calm
<1> QED BY <1>1, <1>2 DEF Calm, e

LEMMA RemoveWhiteoutCalm ==
  ASSUME NEW s, Calm(s), NEW v
  PROVE  Calm(RemoveWhiteout(s, v))
<1> DEFINE e == RemoveWhiteout(s, v)
<1>1. /\ e \in VfsState
      /\ \A g \in Stores : g # Wl => e[g] = s[g]
      /\ e[Wl].wh \subseteq s[Wl].wh /\ e[Wl].opq = s[Wl].opq /\ e[Wl].tree = s[Wl].tree
  BY ZenonT(60), StoresAre DEF RemoveWhiteout, VfsState, Calm
<1> HIDE DEF e
<1>2. Stays(e)
  BY <1>1, StaysIn, StoresAre DEF Calm
<1> QED BY <1>1, <1>2 DEF Calm, e

\* The store that a free path is written to.
LEMMA FreeIs ==
  ASSUME KeptOnTop, NEW v, Free(v)
  PROVE  /\ v \in Paths /\ v # Root /\ ~OnWay(v)
         /\ Home[v] \in Stores /\ (Home[v] # Wl => Shown(S, Home[v]) /\ Home[v] \in Kept)
<1> QED BY HomeBelongs, StoresAre DEF Free, OnWay

LEMMA PutCalm ==
  ASSUME KeptOnTop, NEW s, Calm(s), NEW v, Free(v), NEW x \in Inodes \cup {Dir, Absent}
  PROVE  Calm(Put(s, Home[v], v, x))
<1> DEFINE e == Put(s, Home[v], v, x)
<1>1. /\ e \in VfsState
      /\ \A g \in Stores : g # Home[v] => e[g] = s[g]
      /\ e[Home[v]].wh = s[Home[v]].wh /\ e[Home[v]].opq = s[Home[v]].opq
      /\ \A p \in Paths : p # v => e[Home[v]].tree[p] = s[Home[v]].tree[p]
  BY FreeIs DEF Put, VfsState, Calm
<1> HIDE DEF e
<1>2. Stays(e)
  BY <1>1, StaysIn, FreeIs DEF Calm
<1> QED BY <1>1, <1>2 DEF Calm, e

LEMMA WhiteoutIs ==
  ASSUME NEW s \in VfsState, NEW h \in Stores, NEW v \in Paths, NEW w \in BOOLEAN
  PROVE  LET e == Whiteout(s, h, v, w)
         IN  /\ e \in VfsState
             /\ e[h].wh = (IF w THEN s[h].wh \cup {v} ELSE s[h].wh)
             /\ e[h].tree = s[h].tree /\ e[h].opq = s[h].opq
             /\ \A g \in Stores : g # h => e[g] = s[g]
<1> QED BY ZenonT(60) DEF VfsState, Whiteout

LEMMA WhiteoutCalm ==
  ASSUME NEW s, Calm(s), NEW h \in Stores, h # Wl => Shown(S, h),
         NEW v \in Paths, ~OnWay(v), NEW w \in BOOLEAN
  PROVE  Calm(Whiteout(s, h, v, w))
<1> DEFINE e == Whiteout(s, h, v, w)
<1>0. s \in VfsState
  BY DEF Calm
<1>1. /\ e \in VfsState
      /\ e[h].wh = (IF w THEN s[h].wh \cup {v} ELSE s[h].wh)
      /\ e[h].tree = s[h].tree /\ e[h].opq = s[h].opq
      /\ \A g \in Stores : g # h => e[g] = s[g]
  BY <1>0, WhiteoutIs
<1> HIDE DEF e
<1>2. Stays(e)
  BY <1>1, StaysIn DEF Calm
<1> QED BY <1>1, <1>2 DEF Calm, e

LEMMA CreateWhiteoutCalm ==
  ASSUME KeptOnTop, NEW s, Calm(s), NEW v, Free(v), NEW w \in BOOLEAN
  PROVE  Calm(CreateWhiteout(s, v, w))
<1>1. Calm(EnsureParent(s, Wl, v))
  BY EnsureParentCalm, FreeIs, StoresAre
<1>2. CreateWhiteout(s, v, w) = Whiteout(EnsureParent(s, Wl, v), Wl, v, w)
  BY DEF CreateWhiteout, Whiteout
<1> QED BY <1>1, <1>2, WhiteoutCalm, FreeIs, StoresAre

\* HideLower.
LEMMA HideLowerCalm ==
  ASSUME KeptOnTop, NEW s, Calm(s), NEW v, Free(v), NEW r \in HideLower(s, v)
  PROVE  Calm(r.s)
<1> DEFINE h == Home[v]
<1>1. CASE h = Wl \/ v = StoreRoot(h)
  <2>1. PICK w \in MarkerWritten : r = Outcome(CreateWhiteout(s, v, w), "ok")
    BY <1>1 DEF HideLower
  <2>2. r.s = CreateWhiteout(s, v, w) /\ w \in BOOLEAN
    BY <2>1 DEF Outcome, MarkerWritten
  <2> QED BY <2>2, CreateWhiteoutCalm
<1>2. CASE ~(h = Wl \/ v = StoreRoot(h))
  <2>1. Calm(EnsureParent(s, h, v)) /\ h \in Stores /\ h # Wl /\ Shown(S, h)
    BY <1>2, EnsureParentCalm, FreeIs
  <2>2. KeptHide(s, h, v) = Whiteout(EnsureParent(s, h, v), h, v, TRUE)
    BY DEF KeptHide, Whiteout
  <2>3. r.s = KeptHide(s, h, v) \/ r.s = EnsureParent(s, h, v)
    BY <1>2 DEF HideLower, Outcome
  <2> HIDE DEF h
  <2> QED BY <2>1, <2>2, <2>3, WhiteoutCalm, FreeIs
<1> QED BY <1>1, <1>2

\* UnhideLower.
LEMMA SettleCalm ==
  ASSUME KeptOnTop, NEW s, Calm(s), NEW v, Free(v), NEW e \in UnhideLower(s, v) \cup Settle(s, v)
  PROVE  Calm(e)
<1> DEFINE h == Home[v]
           t == [s EXCEPT ![h].wh = @ \ {v}, ![h].deleted = @ \ {v}]
<1>1. \/ e = s \/ e = RemoveWhiteout(s, v)
      \/ h # Wl /\ e = RemoveWhiteout(t, v)
  BY DEF UnhideLower, Settle
<1>2. ASSUME h # Wl PROVE Calm(t)
  <2>1. h \in Stores /\ Shown(S, h)
    BY <1>2, FreeIs
  <2> HIDE DEF h
  <2>2. t \in VfsState /\ \A g \in Stores : g # h => t[g] = s[g]
    BY <2>1 DEF VfsState, Calm
  <2> HIDE DEF t
  <2>3. Stays(t)
    BY <1>2, <2>1, <2>2, StaysIn DEF Calm
  <2> QED BY <2>2, <2>3 DEF Calm
<1> HIDE DEF t, h
<1> QED BY <1>1, <1>2, RemoveWhiteoutCalm

LEMMA OpaqueMarkIs ==
  ASSUME NEW s \in VfsState, NEW h \in Stores, NEW v \in Paths, NEW w \in BOOLEAN
  PROVE  LET e == OpaqueMark(s, h, v, w)
         IN  /\ e \in VfsState /\ \A g \in Stores : g # h => e[g] = s[g]
             /\ e[h].tree = s[h].tree /\ e[h].wh = s[h].wh /\ e[h].opq \subseteq s[h].opq \cup {v}
<1> DEFINE e == OpaqueMark(s, h, v, w)
<1>1. /\ e \in VfsState
      /\ e[h].opq = (IF w THEN s[h].opq \cup {v} ELSE s[h].opq)
      /\ \A g \in Stores : e[g].tree = s[g].tree /\ e[g].wh = s[g].wh /\ (g # h => e[g] = s[g])
  BY ZenonT(60) DEF VfsState, OpaqueMark
<1> QED BY <1>1

\* Opaque.
LEMMA OpaqueCalm ==
  ASSUME KeptOnTop, NEW s, Calm(s), NEW v, Free(v), NEW r \in Opaque(s, v)
  PROVE  Calm(r.s)
<1> DEFINE h == Home[v]
<1>0. h \in Stores /\ v \in Paths /\ ~OnWay(v) /\ (h # Wl => Shown(S, h))
  BY FreeIs
<1>1. \/ r.s = s
      \/ \E w \in BOOLEAN : r.s = [s EXCEPT ![h].opq = IF w THEN @ \cup {v} ELSE @, ![h].opaque = @ \cup {v}]
  <2>1. CASE h = Wl
    <3>1. PICK w \in MarkerWritten : r = Outcome(MarkOpaque(s, v, w), "ok")
      BY <2>1 DEF Opaque
    <3>2. w \in BOOLEAN /\ r.s = MarkOpaque(s, v, w)
      BY <3>1 DEF MarkerWritten, Outcome
    <3> QED BY <2>1, <3>2 DEF MarkOpaque
  <2>2. CASE h # Wl
    <3>1. r.s = s \/ r.s = KeptMarkOpaque(s, h, v)
      BY <2>2 DEF Opaque, Outcome
    <3>2. KeptMarkOpaque(s, h, v) = [s EXCEPT ![h].opq = IF TRUE THEN @ \cup {v} ELSE @, ![h].opaque = @ \cup {v}]
      BY DEF KeptMarkOpaque
    <3> QED BY <3>1, <3>2
  <2> QED BY <2>1, <2>2
<1> HIDE DEF h
<1>2. ASSUME NEW w \in BOOLEAN, r.s = [s EXCEPT ![h].opq = IF w THEN @ \cup {v} ELSE @, ![h].opaque = @ \cup {v}]
      PROVE  Calm(r.s)
  <2> DEFINE e == r.s
  <2>1. /\ e \in VfsState /\ \A g \in Stores : g # h => e[g] = s[g]
        /\ e[h].tree = s[h].tree /\ e[h].wh = s[h].wh /\ e[h].opq \subseteq s[h].opq \cup {v}
    <3>1. e = OpaqueMark(s, h, v, w) /\ s \in VfsState
      BY <1>2 DEF OpaqueMark, Calm
    <3> QED BY <1>0, <3>1, OpaqueMarkIs
  <2> HIDE DEF e
  <2>2. Stays(e)
    BY <1>0, <2>1, StaysIn DEF Calm
  <2> QED BY <2>1, <2>2 DEF Calm, e
<1> QED BY <1>1, <1>2

\* Prepare.
LEMMA PrepareCalm ==
  ASSUME KeptOnTop, NEW s, Calm(s), NEW v, Free(v)
  PROVE  Calm(Prepare(s, v))
<1>1. Calm(IF Home[v] = Wl THEN RemoveWhiteout(s, v) ELSE s)
  BY RemoveWhiteoutCalm
<1> QED BY <1>1, EnsureParentCalm, FreeIs DEF Prepare

\* The ends of the handlers.
LEMMA MadeDurable ==
  ASSUME KeptOnTop, Durable(S), NEW s, Calm(s), NEW v, Free(v), NEW o, NEW d, Made(s, o, d, v)
  PROVE  Durable(S')
<1>1. \A e \in Settle(s, v) : Calm(e)
  BY SettleCalm
<1> QED BY <1>1, EndsDurable DEF Made

LEMMA HideRestDurable ==
  ASSUME KeptOnTop, Durable(S), NEW s, Calm(s), NEW v, Free(v), NEW d, HideRest(s, d, v)
  PROVE  Durable(S')
<1>1. \A r \in HideLower(s, v) : Calm(r.s)
  BY HideLowerCalm
<1> QED BY <1>1, EndsDurable DEF HideRest

(***************************************************************************)
(* What the kernel lets a handler change.                                  *)
(***************************************************************************)
\* What is known before a step.
Ready == KeptOnTop /\ KeptReached /\ "marker" \notin HostFaults /\ Inv /\ Durable(S)

\* v is the root of its kept folder.
Mount(v) == v \in Paths /\ v # Root /\ Home[v] # Wl /\ v = StoreRoot(Home[v])

LEMMA OnWayServed ==
  ASSUME Ready, NEW v \in Paths, v # Root, OnWay(v)
  PROVE  IsDirectory(S, v) /\ Exists(S, v)
<1> QED BY ShownServed DEF Ready, Inv, OnWay

LEMMA HomeShown ==
  ASSUME Ready, NEW v \in Paths, Reachable(S, v), Home[v] # Wl, v # StoreRoot(Home[v]) \/ Exists(S, v)
  PROVE  Shown(S, Home[v])
<1>1. Home[v] \in Kept /\ Within(v, KeptRoot[Home[v]])
  BY HomeIs DEF Ready
<1> QED BY <1>1, ReachedShown, StoresAre DEF Ready, Inv

\* A name that is not there.
LEMMA NegativeFree ==
  ASSUME Ready, NEW v \in Paths, Negative(v)
  PROVE  Free(v) \/ Mount(v)
<1> QED BY OnWayServed, HomeShown DEF Negative, Free, Mount

\* A file.
LEMMA FileFree ==
  ASSUME Ready, NEW v \in Paths, v # Root, Reachable(S, v), Exists(S, v), ~IsDirectory(S, v)
  PROVE  Free(v)
<1> QED BY OnWayServed, HomeShown DEF Free, OnWay

\* The root of a kept folder is a directory, for as long as it is there.
LEMMA MountIs ==
  ASSUME Ready, NEW v, Mount(v)
  PROVE  LET k == Home[v]
         IN  /\ k \in Kept /\ v = KeptRoot[k] /\ v \in Paths /\ v # Root /\ k \in Stores /\ k # Wl
             /\ S[k].tree[v] = Dir /\ Above[k][v] = {}
             /\ Exists(S, v) => IsDirectory(S, v)
             /\ OnWay(v) => Shown(S, k)
<1> DEFINE k == Home[v]
<1>1. k \in Kept /\ v = KeptRoot[k] /\ v \in Paths /\ v # Root /\ k \in Stores /\ k # Wl
  BY HomeBelongs, StoresAre, HomeIs DEF Mount, Ready
<1>2. S[k].tree[v] = Dir
  BY <1>1, StoresAre DEF Ready, Inv, Good, HostTree
<1>3. Above[k][v] = {}
  BY <1>1, AboveAre, StoresAre
<1>4. Exists(S, v) => IsDirectory(S, v)
  BY <1>1, <1>2, DirectoryIs DEF Ready, Inv
<1>5. ASSUME NEW j \in Kept, Within(KeptRoot[j], v) PROVE j = k
  BY <1>1, <1>5, KeptApart DEF Ready
<1> QED BY <1>1, <1>2, <1>3, <1>4, <1>5 DEF OnWay

\* A directory that lists nothing.
LEMMA EmptyFree ==
  ASSUME Ready, NEW v \in Paths, v # Root, Reachable(S, v), Exists(S, v), CollectChildren(S, v) = {}
  PROVE  Free(v) \/ Mount(v)
<1>1. Home[v] # Wl => Shown(S, Home[v])
  BY HomeShown
<1>2. ASSUME NEW k \in Kept, Shown(S, k), Within(KeptRoot[k], v), v # KeptRoot[k] PROVE FALSE
  <2> DEFINE root == KeptRoot[k]
  <2>1. root \in Paths /\ root \in VPath /\ v \in VPath
    BY KeptAre, PathsAre
  <2>2. PICK c \in VPath : Within(root, c) /\ c # Root /\ ParentVRel(c) = v
    BY <1>2, <2>1, ChildTowards
  <2>3. c \in Paths /\ c \in Children(v)
    BY <2>1, <2>2, UpwardClosed DEF Children
  <2>4. Home[v] = Wl /\ KeptOver[v] = {}
    <3>1. KeptOnTop
      BY DEF Ready
    <3>2. Home[v] = Wl
      BY <1>2, <3>1, KeptApart
    <3> QED BY <3>1, <3>2, HomeIs
  <2>5. k \in DOMAIN Layers /\ Layers[k].type = "Dir" /\ Layers[k].maskedUnder = {} /\ k \in Nat
    BY KeptAre, LayersAssumption DEF Kept
  <2>6. c \in LayerLists(Layers[k], v)
    BY <1>2, <2>2, <2>3, <2>5 DEF LayerLists, LayerMasked, Presence, KeptRoot
  <2>7. 0 \in 0 .. Len(Layers) /\ 0 <= k
    BY <2>5, LayersAssumption
  <2>8. c \in LowerNames[v][0]
    BY <2>5, <2>6, <2>7 DEF LowerNames
  <2>9. Topmost({Wl} \cup {j \in KeptOver[v] : v \in S[j].opaque}) = 0
    <3>1. {Wl} \cup {j \in KeptOver[v] : v \in S[j].opaque} = {0}
      BY <2>4 DEF Wl
    <3> QED BY <3>1 DEF Topmost
  <2>10. c \notin S[Wl].wh /\ v \notin S[Wl].opq
    BY <1>2, <2>2, <2>3 DEF Shown
  <2> HIDE DEF root
  <2>11. c \in CollectChildren(S, v)
    BY <2>4, <2>8, <2>9, <2>10 DEF CollectChildren
  <2> QED BY <2>11
<1>3. ASSUME NEW k \in Kept, Shown(S, k), Within(KeptRoot[k], v) PROVE Mount(v)
  BY <1>2, <1>3, KeptApart, StoresAre DEF Mount, Ready
<1> QED BY <1>1, <1>3 DEF Free, OnWay

(***************************************************************************)
(* Copy-up and renames.                                                    *)
(***************************************************************************)
\* A copy-up of what the kernel reached.
LEMMA CopiedUpCalm ==
  ASSUME Ready, NEW P, P \subseteq Paths, \A p \in P : Reachable(S, p), NEW v \in Paths,
         NEW up \in CopiedUp(P, v)
  PROVE  Calm(up.s) /\ up.at = Home[v]
<1>1. KeptOnTop /\ Good(S) /\ S \in VfsState
  BY DEF Ready, Inv, Good
<1>2. PICK ino \in Allocations(NewFiles(S, P)) :
        up = [s |-> CopyUp(S, P, ino), d |-> CopyData(S, data, ino), at |-> WriteStore(v)]
  BY DEF CopiedUp
<1>3. ino \in [NewFiles(S, P) -> Inodes]
  BY <1>2, FreeInodesAre DEF Allocations
<1>4. up.s = CopyUp(S, P, ino) /\ up.at = Home[v]
  BY <1>1, <1>2, LookupIs DEF WriteStore
<1> DEFINE e == up.s
<1>5. /\ e \in VfsState
      /\ \A h \in Stores : e[h].wh = S[h].wh /\ e[h].opq = S[h].opq
      /\ \A h \in Stores : \A p \in Paths :
           \/ e[h].tree[p] = S[h].tree[p]
           \/ S[h].tree[p] = Absent /\ Home[p] = h /\ p \in DOMAIN ino /\ e[h].tree[p] = ino[p]
           \/ S[h].tree[p] = Absent /\ e[h].tree[p] = Dir /\ IsDirectory(S, p)
      /\ \A h \in Stores : \A p \in Paths : e[h].tree[p] # S[h].tree[p] =>
           \E q \in P : Home[q] = h /\ Resolve(S, q).kind = "Lower"
  BY <1>1, <1>3, <1>4, CopyUpIs
<1> HIDE DEF e
<1>6. ASSUME NEW k \in Kept, ~Shown(S, k) PROVE e[k].tree = S[k].tree /\ e[k].opq = S[k].opq
  <2>1. k \in Stores /\ k # Wl /\ StoreRoot(k) = KeptRoot[k]
    BY StoresAre
  <2>2. ASSUME NEW p \in Paths, e[k].tree[p] # S[k].tree[p] PROVE FALSE
    <3>1. PICK q \in P : Home[q] = k /\ Resolve(S, q).kind = "Lower"
      BY <1>5, <2>1, <2>2
    <3>2. q \in Paths /\ Reachable(S, q)
      BY <3>1
    <3>3. S[k].tree[q] = Absent
      BY <1>1, <3>1, <3>2, LookupIs
    <3>4. q # StoreRoot(k)
      BY <1>1, <2>1, <3>3, Distinct DEF Good, HostTree
    <3> QED BY <1>6, <2>1, <3>1, <3>2, <3>4, HomeShown
  <2>3. e[k].tree \in [Paths -> Inodes \cup {Dir, Absent}] /\ S[k].tree \in [Paths -> Inodes \cup {Dir, Absent}]
    BY <1>1, <1>5, <2>1, FieldsAre
  <2> QED BY <1>5, <2>1, <2>2, <2>3
<1>7. ASSUME NEW a \in Paths, OnWay(a) PROVE e[Wl].tree[a] \in {S[Wl].tree[a], Dir, Absent}
  <2>1. a \notin DOMAIN ino
    <3>1. CASE a = Root
      <4>1. S[Wl].tree[Root] = Dir
        BY <1>1, StoresAre DEF Good, HostTree
      <4>2. Resolve(S, Root).kind = "Lower" => S[Home[Root]].tree[Root] = Absent
        BY <1>1, PathsAre, LookupIs
      <4>3. Home[Root] # Wl => S[Home[Root]].tree[Root] # Absent
        <5> HAVE Home[Root] # Wl
        <5>1. Home[Root] \in Kept /\ Within(Root, KeptRoot[Home[Root]])
          BY <1>1, HomeIs, PathsAre
        <5>2. KeptRoot[Home[Root]] = Root
          BY <5>1, KeptAre, PathsAre, WithinRoot, WithinAntisymmetric
        <5> QED BY <1>1, <5>1, <5>2, StoresAre, Distinct DEF Good, HostTree
      <4> QED BY <1>3, <3>1, <4>1, <4>2, <4>3, Distinct DEF NewFiles, LowerFile
    <3>2. CASE a # Root
      <4>1. IsDirectory(S, a)
        BY <1>7, <3>2, OnWayServed
      <4> QED BY <1>3, <4>1 DEF NewFiles, LowerFile, IsDirectory
    <3> QED BY <3>1, <3>2
  <2> QED BY <1>5, <2>1, StoresAre
<1>8. Stays(e)
  BY <1>5, <1>6, <1>7, StaysBy, StaysHere, StoresAre
<1> QED BY <1>4, <1>5, <1>8 DEF Calm, e

\* A copy-up that fails.
LEMMA CopyUpFailsDurable ==
  ASSUME Ready, NEW v \in Paths, v # Root, Reachable(S, v), Exists(S, v), CopyUpFails(v)
  PROVE  Durable(S')
<1> DEFINE s1 == EnsureParent(S, Home[v], v)
<1>1. ~IsDirectory(S, v)
  BY DEF CopyUpFails, NewFiles, LowerFile, IsDirectory
<1>2. Free(v) /\ KeptOnTop /\ Durable(S)
  BY <1>1, FileFree DEF Ready
<1>3. Calm(S)
  BY StaysHere DEF Calm, Ready, Inv, Good
<1>4. Calm(s1)
  BY <1>2, <1>3, EnsureParentCalm, FreeIs
<1> HIDE DEF s1
<1>5. \A i \in FreeInodes : Calm(Put(s1, Home[v], v, i))
  BY <1>2, <1>4, PutCalm, FreeInodesAre
<1>6. \/ Stops("copy", s1, data)
      \/ Reply(s1, open, data, EIO)
      \/ \E i \in FreeInodes : Killed(Put(s1, Home[v], v, i), [data EXCEPT ![i] = Empty])
  BY DEF CopyUpFails, s1
<1> QED BY <1>2, <1>4, <1>5, <1>6, StopsDurable, EndsDurable

\* The host renames one free name to another.
LEMMA HostRenameCalm ==
  ASSUME NEW s, Calm(s), NEW vf \in Paths, ~OnWay(vf), NEW vt \in Paths, ~OnWay(vt),
         NEW hf \in Stores, hf # Wl => Shown(S, hf), NEW ht \in Stores, ht # Wl => Shown(S, ht),
         Fits(s, hf, vf, vt)
  PROVE  LET e == HostRename(s, hf, vf, ht, vt)
         IN  /\ Calm(e)
             /\ \A g \in Stores : e[g].deleted = s[g].deleted /\ e[g].opaque = s[g].opaque
<1> DEFINE e == HostRename(s, hf, vf, ht, vt)
<1>1. vf \in VPath /\ vt \in VPath
  BY PathsAre
<1>2. s \in VfsState /\ Stays(s)
  BY DEF Calm
<1> DEFINE wh == s[hf].wh \ {vf}
           opq == s[hf].opq
           lands(mine) == {Rebase(w, vf, vt) : w \in {x \in mine : Within(x, vf)}}
<1>3. /\ e \in VfsState
      /\ \A g \in Stores :
           /\ e[g].deleted = s[g].deleted /\ e[g].opaque = s[g].opaque
           /\ e[g].wh = (IF g = hf THEN s[g].wh \ {w \in wh : Within(w, vf)} ELSE s[g].wh)
                          \cup (IF g = ht THEN lands(wh) ELSE {})
           /\ e[g].opq = (IF g = hf THEN s[g].opq \ {w \in opq : Within(w, vf)} ELSE s[g].opq)
                          \cup (IF g = ht THEN lands(opq) ELSE {})
           /\ \A p \in Paths :
                e[g].tree[p] =
                  IF g = ht /\ Within(p, vt)
                  THEN IF Rebase(p, vt, vf) \in Paths THEN s[hf].tree[Rebase(p, vt, vf)] ELSE Absent
                  ELSE IF g = hf /\ Within(p, vf) THEN Absent ELSE s[g].tree[p]
  BY <1>2, HostRenameIs
<1> HIDE DEF e
<1>4. ASSUME NEW a \in Paths, OnWay(a) PROVE ~Within(a, vf) /\ ~Within(a, vt)
  <2>1. ASSUME NEW v \in Paths, Within(a, v) PROVE OnWay(v)
    <3>1. CASE a = Root
      BY <2>1, <3>1, PathsAre, WithinRoot DEF OnWay
    <3>2. ASSUME NEW k \in Kept, Shown(S, k), Within(KeptRoot[k], a) PROVE OnWay(v)
      BY <2>1, <3>2, KeptAre, PathsAre, WithinTransitive DEF OnWay
    <3> QED BY <1>4, <3>1, <3>2 DEF OnWay
  <2> QED BY <1>1, <2>1
<1>5. \A w \in lands(wh) \cup lands(opq) : ~OnWay(w) \/ w \notin Paths
  <2>1. wh \subseteq Paths /\ opq \subseteq Paths
    BY <1>1, <1>2, FieldsAre
  <2>2. ASSUME NEW x \in Paths, Within(x, vf) PROVE Within(Rebase(x, vf, vt), vt)
    BY <1>1, <2>2, PathsAre, RebaseBack
  <2> QED BY <1>4, <2>1, <2>2
<1>6. ASSUME NEW k \in Kept, ~Shown(S, k) PROVE e[k].tree = s[k].tree /\ e[k].opq = s[k].opq
  <2>1. k \in Stores /\ k # Wl /\ k # hf /\ k # ht
    BY <1>1, <1>6, StoresAre
  <2>2. e[k].tree \in [Paths -> Inodes \cup {Dir, Absent}] /\ s[k].tree \in [Paths -> Inodes \cup {Dir, Absent}]
    BY <1>2, <1>3, <2>1, FieldsAre
  <2>3. \A p \in Paths : e[k].tree[p] = s[k].tree[p]
    BY <1>3, <2>1
  <2>4. e[k].opq = s[k].opq
    <3>1. e[k].opq = (IF k = hf THEN s[k].opq \ {w \in opq : Within(w, vf)} ELSE s[k].opq)
                       \cup (IF k = ht THEN lands(opq) ELSE {})
      BY <1>3, <2>1
    <3> HIDE DEF lands, opq
    <3> QED BY <2>1, <3>1
  <2> QED BY <2>2, <2>3, <2>4
<1>7. ASSUME NEW a \in Paths, OnWay(a)
      PROVE  /\ a \in e[Wl].wh => a \in s[Wl].wh
             /\ a \in e[Wl].opq => a \in s[Wl].opq
             /\ e[Wl].tree[a] \in {s[Wl].tree[a], Dir, Absent}
  BY <1>3, <1>4, <1>5, <1>7, StoresAre
<1> HIDE DEF wh, opq, lands
<1>8. Stays(e)
  BY <1>2, <1>6, <1>7, StaysBy
<1> QED BY <1>3, <1>8 DEF Calm, e

\* The masks of a directory follow it.
LEMMA MovedMasksCalm ==
  ASSUME NEW s, Calm(s), NEW h \in Stores, NEW vf \in Paths, NEW vt \in Paths,
         \A p \in s[h].deleted \cup s[h].opaque : Within(p, vf) => Rebase(p, vf, vt) \in Paths
  PROVE  LET e == MovedMasks(s, h, vf, vt)
         IN  Calm(e) /\ \A g \in Stores : g # h => e[g] = s[g]
<1> DEFINE e == MovedMasks(s, h, vf, vt)
           D == RewritePrefix(s[h].deleted, vf, vt)
           Q == RewritePrefix(s[h].opaque, vf, vt)
<1>1. s \in VfsState
  BY DEF Calm
<1>2. D \in SUBSET Paths /\ Q \in SUBSET Paths
  BY <1>1, FieldsAre DEF RewritePrefix
<1>3. e = [s EXCEPT ![h].deleted = D, ![h].opaque = Q]
  BY <1>1 DEF MovedMasks, VfsState
<1> HIDE DEF e, D, Q
<1>4. /\ e \in VfsState
      /\ \A g \in Stores : /\ e[g].tree = s[g].tree /\ e[g].wh = s[g].wh /\ e[g].opq = s[g].opq
                           /\ g # h => e[g] = s[g]
  BY <1>1, <1>2, <1>3 DEF VfsState
<1>5. Stays(e)
  BY <1>4, StaysBy, StoresAre DEF Calm
<1> QED BY <1>4, <1>5 DEF Calm, e

(***************************************************************************)
(* Every handler leaves a kept folder shown, or empty.                     *)
(***************************************************************************)
LEMMA CalmHere ==
  ASSUME Ready
  PROVE  Calm(S) /\ Good(S) /\ S \in VfsState /\ KeptOnTop /\ Durable(S)
<1> QED BY StaysHere DEF Calm, Ready, Inv, Good

\* A directory is there for the name to be made in.
LEMMA MadeRoomCalm ==
  ASSUME Ready, NEW s, Calm(s), NEW v, Free(v) \/ Mount(v)
  PROVE  LET e == EnsureParent(s, Home[v], v)
             f == Prepare(s, v)
         IN  /\ Calm(e) /\ Calm(f)
             /\ Mount(v) => /\ e[Home[v]].tree[v] = s[Home[v]].tree[v]
                            /\ f[Home[v]].tree[v] = s[Home[v]].tree[v]
<1>1. CASE Free(v)
  <2>1. Calm(EnsureParent(s, Home[v], v)) /\ Calm(Prepare(s, v))
    BY <1>1, EnsureParentCalm, FreeIs, PrepareCalm, CalmHere
  <2>2. ASSUME Mount(v) PROVE FALSE
    <3>1. Home[v] \in Kept /\ v = KeptRoot[Home[v]] /\ Shown(S, Home[v]) /\ v \in Paths
      BY <1>1, <2>2, MountIs DEF Free, Mount
    <3>2. OnWay(v)
      BY <3>1, PathsAre, WithinReflexive DEF OnWay
    <3> QED BY <1>1, <3>2 DEF Free
  <2> QED BY <2>1, <2>2
<1>2. CASE Mount(v)
  <2> DEFINE k == Home[v]
             e == EnsureParent(s, k, v)
  <2>1. v \in Paths /\ k \in Stores /\ k # Wl /\ Above[k][v] = {}
    BY <1>2, MountIs
  <2>2. s \in VfsState /\ Stays(s)
    BY DEF Calm
  <2>3. /\ e \in VfsState
        /\ \A g \in Stores : /\ g # k => e[g] = s[g]
                             /\ e[g].wh = s[g].wh /\ e[g].opq = s[g].opq
        /\ \A p \in Paths : e[k].tree[p] = s[k].tree[p]
    BY <2>1, <2>2, EnsureParentIs
  <2>4. Prepare(s, v) = e
    BY <2>1 DEF Prepare
  <2> HIDE DEF e, k
  <2>5. e[k].tree = s[k].tree
    BY <2>1, <2>2, <2>3, FieldsAre
  <2>6. \A g \in Stores : e[g].tree = s[g].tree /\ e[g].opq = s[g].opq /\ e[g].wh = s[g].wh
    BY <2>3, <2>5
  <2>7. Stays(e)
    BY <2>2, <2>6, StaysBy, StoresAre
  <2> QED BY <2>3, <2>4, <2>5, <2>7 DEF Calm, e, k
<1> QED BY <1>1, <1>2

LEMMA ParentFailsDurable ==
  ASSUME Ready, NEW v, ParentFails(v)
  PROVE  Durable(S')
<1> QED BY CalmHere, RemoveWhiteoutCalm, StopsDurable DEF ParentFails

\* VfsCreate and VfsSymlink.
LEMMA CreateDurable ==
  ASSUME Ready, NEW v \in Paths, VfsCreate(v) \/ VfsSymlink(v)
  PROVE  Durable(S')
<1> DEFINE s2 == Prepare(S, v)
           host == s2[Home[v]].tree[v]
<1>1. (Free(v) \/ Mount(v)) /\ KeptOnTop /\ Durable(S)
  BY NegativeFree, CalmHere DEF VfsCreate, VfsSymlink
<1>2. Calm(s2)
  BY <1>1, MadeRoomCalm, CalmHere
<1>3. Mount(v) => host = Dir
  BY <1>1, MadeRoomCalm, CalmHere, MountIs
<1> HIDE DEF s2
<1>4. \A i \in FreeInodes : Free(v) => Calm(Put(s2, Home[v], v, i))
  BY <1>1, <1>2, PutCalm, FreeInodesAre
<1>5. \/ ParentFails(v)
      \/ \E call : Stops(call, s2, data)
      \/ \E o, d, code : Reply(s2, o, d, code)
      \/ host = Absent /\ \E i \in FreeInodes : \E o, d : Made(Put(s2, Home[v], v, i), o, d, v)
      \/ host \in Inodes /\ \E o, d : Made(s2, o, d, v)
  <2>1. CASE VfsCreate(v)
    BY <2>1 DEF VfsCreate, s2
  <2>2. CASE VfsSymlink(v)
    BY <2>2 DEF VfsSymlink, s2
  <2> QED BY <2>1, <2>2
<1>6. ASSUME host = Absent \/ host \in Inodes PROVE Free(v)
  BY <1>1, <1>3, <1>6, Distinct
<1> HIDE DEF host
<1> QED BY <1>1, <1>2, <1>4, <1>5, <1>6, ParentFailsDurable, StopsDurable, EndsDurable, MadeDurable

LEMMA MkdirDurable ==
  ASSUME Ready, NEW v \in Paths, VfsMkdir(v)
  PROVE  Durable(S')
<1> DEFINE s2 == Prepare(S, v)
           s3 == Put(s2, Home[v], v, Dir)
           host == s2[Home[v]].tree[v]
<1>1. (Free(v) \/ Mount(v)) /\ KeptOnTop /\ Durable(S) /\ Calm(S)
  BY NegativeFree, CalmHere DEF VfsMkdir
<1>2. Calm(s2)
  BY <1>1, MadeRoomCalm, CalmHere
<1>3. Mount(v) => host = Dir
  BY <1>1, MadeRoomCalm, CalmHere, MountIs
<1> HIDE DEF s2
<1>4. Free(v) => Calm(s3)
  BY <1>1, <1>2, PutCalm
<1> HIDE DEF s3
<1>5. ASSUME Free(v), NEW r \in Opaque(s3, v) \cup {Outcome(s3, "ok")} PROVE Calm(r.s)
  BY <1>1, <1>4, <1>5, OpaqueCalm DEF Outcome
<1>6. \/ Reply(RemoveWhiteout(S, v), open, data, "ok")
      \/ ParentFails(v)
      \/ Stops("mkdir", s2, data)
      \/ \E code : Reply(s2, open, data, code)
      \/ host = Absent /\ Killed(s3, data)
      \/ host = Absent /\ \E r \in Opaque(s3, v) \cup {Outcome(s3, "ok")} : Made(r.s, open, data, v)
  BY DEF VfsMkdir, s2, s3
<1>7. host = Absent => Free(v)
  BY <1>1, <1>3, Distinct
<1> HIDE DEF host
<1>8. Calm(RemoveWhiteout(S, v))
  BY <1>1, RemoveWhiteoutCalm
<1> QED BY <1>1, <1>2, <1>4, <1>5, <1>6, <1>7, <1>8, ParentFailsDurable, StopsDurable, EndsDurable, MadeDurable

LEMMA UnlinkDurable ==
  ASSUME Ready, NEW v \in Paths, VfsUnlink(v)
  PROVE  Durable(S')
<1>1. Free(v) /\ KeptOnTop /\ Durable(S) /\ Calm(S)
  BY FileFree, CalmHere DEF VfsUnlink, Positive
<1>2. Calm(Put(S, Home[v], v, Absent))
  BY <1>1, PutCalm
<1> QED BY <1>1, <1>2, StopsDurable, HideRestDurable DEF VfsUnlink

\* The markers that a sweep takes.
LEMMA SweepCalm ==
  ASSUME Ready, NEW v, v \in Paths, Home[v] # Wl => Shown(S, Home[v])
  PROVE  LET e == IF Home[v] = Wl THEN Sweep(S, v) ELSE KeptDropMarkersUnder(S, Home[v], v)
         IN  Calm(e)
<1> DEFINE h == Home[v]
           e == IF h = Wl THEN Sweep(S, v) ELSE KeptDropMarkersUnder(S, h, v)
<1>1. h \in Stores /\ Calm(S) /\ Good(S) /\ S \in VfsState
  BY CalmHere, HomeBelongs
<1>2. e \in VfsState
  BY <1>1, CalmHere, SweptSound DEF Sound, Ready, Inv, Good
<1>3. \A g \in Stores : e[g].tree = S[g].tree
  BY <1>1, CalmHere, SweptSound DEF Sound, Ready, Inv
<1>4. ASSUME h = Wl PROVE e[Wl].wh \subseteq S[Wl].wh /\ e[Wl].opq \subseteq S[Wl].opq /\ \A g \in Stores : g # Wl => e[g] = S[g]
  BY <1>1, <1>4 DEF Sweep, VfsState
<1>5. ASSUME h # Wl PROVE \A g \in Stores : g # h => e[g] = S[g]
  BY <1>1, <1>5 DEF KeptDropMarkersUnder, VfsState
<1> HIDE DEF e, h
<1>6. Stays(e)
  BY <1>1, <1>3, <1>4, <1>5, StaysIn, StaysHere DEF h
<1> QED BY <1>2, <1>6 DEF Calm, e, h

\* The marker of a name in the writelayer, and the mark of a kept folder's directory.
LEMMA CreateWhiteoutIs ==
  ASSUME NEW s \in VfsState, NEW v \in Paths, NEW w \in BOOLEAN
  PROVE  LET e == CreateWhiteout(s, v, w)
         IN  /\ \A g \in Stores : g # Wl => e[g] = s[g]
             /\ e[Wl].wh \subseteq s[Wl].wh \cup {v} /\ e[Wl].opq = s[Wl].opq
             /\ \A p \in Paths : e[Wl].tree[p] \in {s[Wl].tree[p], Dir}
<1> DEFINE e == CreateWhiteout(s, v, w)
<1>1. PICK h \in Stores : h = Wl
  BY StoresAre
<1>2. PICK m \in VfsState :
        /\ m = EnsureParent(s, h, v)
        /\ \A g \in Stores : /\ g # h => m[g] = s[g]
                             /\ m[g].wh = s[g].wh /\ m[g].opq = s[g].opq
        /\ \A p \in Paths : m[h].tree[p] \in {s[h].tree[p], Dir}
  <2> DEFINE m == EnsureParent(s, h, v)
  <2>1. /\ m \in VfsState
        /\ \A g \in Stores : /\ g # h => m[g] = s[g]
                             /\ m[g].wh = s[g].wh /\ m[g].opq = s[g].opq
        /\ \A p \in Paths : m[h].tree[p] = IF p \in Above[h][v] /\ s[h].tree[p] = Absent THEN Dir
                                           ELSE s[h].tree[p]
    BY EnsureParentIs
  <2> HIDE DEF m
  <2> QED BY <2>1 DEF m
<1>3. e = Whiteout(m, h, v, w)
  BY <1>1, <1>2 DEF CreateWhiteout, Whiteout
<1> HIDE DEF e
<1>4. /\ e[h].wh = (IF w THEN m[h].wh \cup {v} ELSE m[h].wh)
      /\ e[h].tree = m[h].tree /\ e[h].opq = m[h].opq
      /\ \A g \in Stores : g # h => e[g] = m[g]
  BY <1>3, WhiteoutIs
<1>5. /\ \A g \in Stores : g # h => e[g] = s[g]
      /\ e[h].wh \subseteq s[h].wh \cup {v} /\ e[h].opq = s[h].opq
      /\ \A p \in Paths : e[h].tree[p] \in {s[h].tree[p], Dir}
  BY <1>2, <1>4
<1> QED BY <1>1, <1>5 DEF e

LEMMA KeptMarkOpaqueIs ==
  ASSUME NEW s, Good(s), NEW k \in Stores, k # Wl, NEW v \in Paths, s[k].tree[v] = Dir
  PROVE  LET e == KeptMarkOpaque(s, k, v)
         IN  /\ Good(e) /\ v \in e[k].opq
             /\ \A g \in Stores : /\ e[g].tree = s[g].tree /\ e[g].wh = s[g].wh
                                  /\ g # k => e[g] = s[g]
<1> DEFINE e == KeptMarkOpaque(s, k, v)
<1>1. PICK w \in BOOLEAN : w
  OBVIOUS
<1>2. e = OpaqueMark(s, k, v, w)
  BY <1>1 DEF KeptMarkOpaque, OpaqueMark
<1>3. Good(OpaqueMark(s, k, v, w))
  <2>1. (k = Wl => \A j \in Kept : ~Within(v, KeptRoot[j])) /\ ("marker" \notin HostFaults => w)
    BY <1>1
  <2> QED BY <1>1, <2>1, OpaqueMarkGood, Zenon
<1>4. /\ v \in e[k].opq
      /\ \A g \in Stores : /\ e[g].tree = s[g].tree /\ e[g].wh = s[g].wh
                           /\ g # k => e[g] = s[g]
  BY DEF KeptMarkOpaque, Good, VfsState
<1> QED BY <1>2, <1>3, <1>4 DEF e

\* A kept folder itself is removed: it is emptied for good, and hidden.
LEMMA EmptiedDurable ==
  ASSUME Ready, NEW v, Mount(v), Shown(S, Home[v]), CollectChildren(S, v) = {},
         NEW r, r = KeptMarkOpaque(KeptDropMarkersUnder(S, Home[v], v), Home[v], v),
         NEW w \in BOOLEAN
  PROVE  /\ Calm(r)
         /\ Durable(CreateWhiteout(r, v, w))
<1> DEFINE k == Home[v]
           s1 == KeptDropMarkersUnder(S, k, v)
           e == CreateWhiteout(r, v, w)
<1>1. /\ k \in Kept /\ v = KeptRoot[k] /\ v \in Paths /\ v # Root /\ k \in Stores /\ k # Wl
      /\ S[k].tree[v] = Dir /\ StoreRoot(k) = v /\ Home[v] = k
  BY MountIs, StoresAre
<1>2. KeptOnTop /\ Calm(S) /\ Good(S) /\ Masked(S) /\ Durable(S) /\ Shown(S, k)
  BY CalmHere DEF Ready, Inv
<1>3. Calm(s1)
  BY <1>1, <1>2, SweepCalm
<1>4. /\ Good(s1) /\ \A g \in Stores : s1[g].tree = S[g].tree
      /\ \A c \in Children(v) : c \notin s1[k].wh
  BY <1>1, <1>2, SweptSound DEF Sound
<1>5. r = KeptMarkOpaque(s1, k, v)
  OBVIOUS
<1> HIDE DEF s1, k
<1>6. s1[k].tree[v] = Dir
  BY <1>1, <1>4
<1>7. /\ Good(r) /\ v \in r[k].opq
      /\ \A g \in Stores : /\ r[g].tree = s1[g].tree /\ r[g].wh = s1[g].wh
                           /\ g # k => r[g] = s1[g]
  BY <1>1, <1>4, <1>5, <1>6, KeptMarkOpaqueIs
<1>8. Calm(r)
  <2>1. Stays(r)
    BY <1>1, <1>2, <1>3, <1>7, StaysIn DEF Calm
  <2> QED BY <1>7, <2>1 DEF Calm, Good
<1>9. ASSUME NEW c \in Children(v) PROVE S[k].tree[c] = Absent
  <2>1. c \in Paths /\ c # Root /\ Within(c, v) /\ c # v
    BY <1>1, PathsAre, ParentIs DEF Children
  <2>2. v \notin S[Wl].opq /\ c \notin S[Wl].wh
    BY <1>1, <1>2, <2>1, PathsAre, WithinReflexive DEF Good, Apart
  <2>3. KeptOver[v] = {k} /\ k \in Nat
    BY <1>1, <1>2, HomeIs, KeptAre
  <2>4. k >= Topmost({Wl} \cup {j \in KeptOver[v] : v \in S[j].opaque})
    <3> DEFINE T == {Wl} \cup {j \in KeptOver[v] : v \in S[j].opaque}
    <3>1. CASE v \in S[k].opaque
      <4>1. T \subseteq Int /\ k \in T /\ \A j \in T : j <= k
        BY <2>3, <3>1 DEF Wl
      <4> HIDE DEF T
      <4>2. Topmost(T) = k
        BY <4>1, GreatestIs DEF Topmost
      <4> QED BY <2>3, <4>2 DEF T
    <3>2. CASE v \notin S[k].opaque
      <4>1. T \subseteq Int /\ Wl \in T /\ \A j \in T : j <= Wl
        BY <2>3, <3>2 DEF Wl
      <4> HIDE DEF T
      <4>2. Topmost(T) = Wl
        BY <4>1, GreatestIs DEF Topmost
      <4> QED BY <2>3, <4>2 DEF T, Wl
    <3> QED BY <3>1, <3>2
  <2>5. ASSUME S[k].tree[c] # Absent PROVE c \in CollectChildren(S, v)
    <3> DEFINE from == Topmost({Wl} \cup {j \in KeptOver[v] : v \in S[j].opaque})
               own == UNION {{d \in Children(v) : S[j].tree[d] # Absent} : j \in {x \in KeptOver[v] : x >= from}}
    <3> HIDE DEF from
    <3>1. k \in {x \in KeptOver[v] : x >= from} /\ c \in {d \in Children(v) : S[k].tree[d] # Absent}
      BY <2>3, <2>4, <2>5 DEF from
    <3>2. c \in own
      BY <3>1
    <3> HIDE DEF own
    <3> QED BY <2>2, <3>2 DEF CollectChildren, own, from
  <2> QED BY <2>5
<1>10. ASSUME NEW p \in Paths, Within(p, v), p # v PROVE r[k].tree[p] = Absent
  <2>1. Holds(k, v)
    BY <1>1, PathsAre, WithinReflexive DEF Holds
  <2>2. s1[k].tree[p] = Absent
    BY <1>1, <1>4, <1>9, <1>10, <2>1, NothingInside
  <2> QED BY <1>1, <1>7, <2>2
<1>11. r \in VfsState
  BY <1>7 DEF Good
<1>13. /\ \A g \in Stores : g # Wl => e[g] = r[g]
       /\ e[Wl].wh \subseteq r[Wl].wh \cup {v} /\ e[Wl].opq = r[Wl].opq
       /\ \A p \in Paths : e[Wl].tree[p] \in {r[Wl].tree[p], Dir}
  BY <1>1, <1>11, CreateWhiteoutIs
<1> HIDE DEF e
<1>14. Durable(r)
  BY <1>2, <1>8, StaysDurable DEF Calm
<1>15. ASSUME NEW j \in Kept, j # k PROVE Shown(e, j) \/ Vacant(e, j)
  <2>1. j \in Stores /\ j # Wl /\ e[j] = r[j]
    BY <1>13, StoresAre
  <2>2. CASE Vacant(r, j)
    BY <2>1, <2>2 DEF Vacant
  <2>3. CASE Shown(r, j)
    <3> SUFFICES ASSUME NEW a \in Paths, Within(KeptRoot[j], a)
                 PROVE  /\ a \notin e[Wl].wh
                        /\ a # KeptRoot[j] => a \notin e[Wl].opq /\ e[Wl].tree[a] \in {Dir, Absent}
      BY DEF Shown
    <3>1. a # v
      BY <1>1, <1>2, <1>15, KeptApart
    <3>2. /\ a \notin r[Wl].wh
          /\ a # KeptRoot[j] => a \notin r[Wl].opq /\ r[Wl].tree[a] \in {Dir, Absent}
      BY <2>3 DEF Shown
    <3> QED BY <1>13, <3>1, <3>2
  <2> QED BY <1>14, <2>2, <2>3 DEF Durable
<1>16. Vacant(e, k)
  BY <1>1, <1>7, <1>10, <1>13 DEF Vacant
<1>17. Root \notin e[Wl].opq
  BY <1>13, <1>14 DEF Durable
<1>18. Durable(e)
  BY <1>15, <1>16, <1>17 DEF Durable
<1> QED BY <1>8, <1>18 DEF e

LEMMA RmdirDurable ==
  ASSUME Ready, NEW v \in Paths, VfsRmdir(v)
  PROVE  Durable(S')
<1> DEFINE h == Home[v]
           s1 == IF h = Wl THEN Sweep(S, v) ELSE KeptDropMarkersUnder(S, h, v)
           s2 == HostRmdir(s1, h, v)
<1>1. v # Root /\ Reachable(S, v) /\ Exists(S, v) /\ KeptOnTop /\ Durable(S) /\ Calm(S)
  BY CalmHere DEF VfsRmdir, Positive
<1>2. h # Wl => Shown(S, h)
  BY <1>1, HomeShown
<1>3. CASE Reply(S, open, data, ENOTEMPTY)
  BY <1>1, <1>3, EndsDurable
<1>4. Calm(s1)
  BY <1>1, <1>2, SweepCalm
<1>5. CASE CollectChildren(S, v) = {} /\ h # Wl /\ v = StoreRoot(h)
  <2>1. Mount(v)
    BY <1>1, <1>5 DEF Mount
  <2> DEFINE r == KeptMarkOpaque(s1, h, v)
  <2>2. \A w \in BOOLEAN : Calm(r) /\ Durable(CreateWhiteout(r, v, w))
    BY <1>2, <1>5, <2>1, EmptiedDurable
  <2>3. \/ \E code : Reply(s1, open, data, code)
        \/ Killed(s1, data)
        \/ Killed(r, data)
        \/ \E w \in MarkerWritten : Reply(CreateWhiteout(r, v, w), open, data, "ok")
    <3>1. \A x \in Opaque(s1, v) : x.s = r \/ x.code # "ok"
      BY <1>5 DEF Opaque, Outcome, EIO
    <3>2. h = Wl => v # StoreRoot(h)
      BY <1>5
    <3> HIDE DEF r
    <3> QED BY <1>5, <3>1 DEF VfsRmdir
  <2>4. MarkerWritten \subseteq BOOLEAN /\ TRUE \in BOOLEAN
    BY DEF MarkerWritten
  <2>5. ASSUME NEW w \in MarkerWritten, Reply(CreateWhiteout(r, v, w), open, data, "ok") PROVE Durable(S')
    BY <2>2, <2>4, <2>5 DEF Reply
  <2> HIDE DEF r, s1
  <2> QED BY <1>1, <1>4, <2>2, <2>3, <2>4, <2>5, EndsDurable
<1>6. CASE CollectChildren(S, v) = {} /\ ~(h # Wl /\ v = StoreRoot(h))
  <2>1. Free(v)
    BY <1>1, <1>6, EmptyFree DEF Mount
  <2> HIDE DEF s1
  <2>2. Calm(s2)
    BY <1>1, <1>4, <2>1, PutCalm DEF HostRmdir
  <2>3. \/ Killed(s1, data)
        \/ HideRest(s2, data, v)
        \/ Reply(s1, open, data, ENOTEMPTY)
    BY <1>6, <1>3 DEF VfsRmdir, s1
  <2> HIDE DEF s2
  <2> QED BY <1>1, <1>4, <2>1, <2>2, <2>3, EndsDurable, HideRestDurable
<1> QED BY <1>3, <1>5, <1>6 DEF VfsRmdir

\* The writelayer's masks are the fewer for what follows a rename.
LEMMA SettleMasks ==
  ASSUME KeptOnTop, NEW s \in VfsState, NEW v \in Paths, NEW e \in Settle(s, v)
  PROVE  e[Wl].deleted \subseteq s[Wl].deleted /\ e[Wl].opaque = s[Wl].opaque
<1>1. PICK h \in Stores : h = Home[v]
  BY HomeBelongs
<1> DEFINE t == [s EXCEPT ![h].wh = @ \ {v}, ![h].deleted = @ \ {v}]
<1>2. e = s \/ (h # Wl /\ (e = RemoveWhiteout(s, v) \/ e = RemoveWhiteout(t, v)))
  BY <1>1 DEF Settle, UnhideLower
<1>3. h # Wl => t \in VfsState /\ t[Wl] = s[Wl]
  BY ZenonT(60), StoresAre DEF VfsState
<1> HIDE DEF t
<1>4. \A f \in VfsState : /\ RemoveWhiteout(f, v)[Wl].deleted = f[Wl].deleted \ {v}
                          /\ RemoveWhiteout(f, v)[Wl].opaque = f[Wl].opaque
  BY StoresAre DEF RemoveWhiteout, VfsState
<1> QED BY <1>2, <1>3, <1>4

LEMMA OpaqueMasks ==
  ASSUME KeptOnTop, NEW s \in VfsState, NEW v \in Paths, Home[v] # Wl, NEW r \in Opaque(s, v)
  PROVE  r.s[Wl] = s[Wl]
<1>1. PICK h \in Stores : h = Home[v] /\ h # Wl
  BY HomeBelongs
<1>2. r.s = s \/ r.s = KeptMarkOpaque(s, h, v)
  BY <1>1 DEF Opaque, Outcome
<1>3. KeptMarkOpaque(s, h, v)[Wl] = s[Wl]
  BY <1>1, StoresAre DEF KeptMarkOpaque, VfsState
<1> QED BY <1>2, <1>3

\* The names of a rename.
LEMMA RenameFree ==
  ASSUME Ready, NEW vf \in Paths, NEW vt \in Paths, TameRename(vf, vt)
  PROVE  /\ Free(vf) /\ vf # Root /\ Reachable(S, vf) /\ Exists(S, vf)
         /\ IF IsDirectory(S, vf) THEN Home[vf] = Home[vt] /\ Free(vt) ELSE Free(vt) \/ Mount(vt)
<1>1. MayRename(vf, vt) /\ KeptOnTop
  BY DEF TameRename, VfsRename, Ready
<1>2. /\ vf # Root /\ Reachable(S, vf) /\ Exists(S, vf) /\ vt # Root /\ Reachable(S, vt)
      /\ ~Within(vf, vt)
      /\ Exists(S, vt) => (IsDirectory(S, vf) <=> IsDirectory(S, vt))
  BY <1>1 DEF MayRename, Positive
<1>3. CASE ~IsDirectory(S, vf)
  <2>1. Free(vf)
    BY <1>2, <1>3, FileFree
  <2>2. ~OnWay(vt)
    BY <1>2, <1>3, OnWayServed
  <2>3. Home[vt] # Wl => Shown(S, Home[vt]) \/ Mount(vt)
    BY <1>2, HomeShown DEF Mount
  <2> QED BY <1>2, <1>3, <2>1, <2>2, <2>3 DEF Free
<1>4. CASE IsDirectory(S, vf)
  <2>1. /\ Home[vf] = Home[vt] /\ \A k \in Kept : ~Within(KeptRoot[k], vf)
        /\ LowerFree(vt) \/ Home[vt] # Wl
    BY <1>4 DEF TameRename
  <2>2. Free(vf)
    BY <1>2, <2>1, HomeShown DEF Free, OnWay
  <2>3. ASSUME NEW k \in Kept, Within(KeptRoot[k], vt) PROVE FALSE
    <3>1. KeptRoot[k] \in Paths
      BY KeptAre
    <3>2. KeptRoot[k] = vt
      <4>1. CASE LowerFree(vt)
        BY <2>3, <3>1, <4>1 DEF LowerFree
      <4>2. CASE Home[vt] # Wl
        BY <1>1, <2>3, <4>2, KeptApart
      <4> QED BY <2>1, <4>1, <4>2
    <3>3. Home[vf] = k
      BY <1>1, <2>1, <3>2, KeptApart
    <3>4. Within(vf, KeptRoot[k])
      BY <1>1, <3>3, HomeIs
    <3> QED BY <1>2, <3>2, <3>4
  <2>4. Home[vt] # Wl => vt # StoreRoot(Home[vt])
    <3> SUFFICES ASSUME Home[vt] # Wl, vt = StoreRoot(Home[vt]) PROVE FALSE
      OBVIOUS
    <3>1. Mount(vt)
      BY <1>2 DEF Mount
    <3>2. Home[vt] \in Kept /\ vt = KeptRoot[Home[vt]]
      BY <3>1, MountIs
    <3> QED BY <2>3, <3>2, PathsAre, WithinReflexive
  <2>5. Free(vt)
    BY <1>2, <2>3, <2>4, HomeShown DEF Free, OnWay
  <2> QED BY <1>2, <1>4, <2>1, <2>2, <2>5
<1> QED BY <1>3, <1>4

\* A directory, once the host has moved it.
LEMMA TreeMovedDurable ==
  ASSUME Ready, NEW s1, NEW vf, Free(vf), NEW vt, Free(vt), NEW h, h = Home[vf], h = Home[vt],
         Calm(s1), Fits(s1, h, vf, vt), NEW d,
         NEW s2, s2 = HostRename(s1, h, vf, h, vt), NEW s3, s3 = KeptRenamePrefix(s2, vf, vt),
         NEW r, r \in (IF h # Wl THEN Opaque(s3, vt) ELSE {}) \cup {Outcome(s3, "ok")}
  PROVE  /\ Calm(s2) /\ Calm(r.s)
         /\ \A s4 \in Settle(r.s, vt) : Calm(RenameMaskPrefix(s4, vf, vt))
<1> DEFINE into(p) == Within(p, vf) => Rebase(p, vf, vt) \in Paths
<1>1. /\ vf \in Paths /\ ~OnWay(vf) /\ vt \in Paths /\ ~OnWay(vt)
      /\ h \in Stores /\ (h # Wl => Shown(S, h)) /\ KeptOnTop /\ Wl \in Stores
  BY FreeIs, StoresAre DEF Ready
<1>2. Calm(s2) /\ \A g \in Stores : s2[g].deleted = s1[g].deleted /\ s2[g].opaque = s1[g].opaque
  BY <1>1, HostRenameCalm
<1>3. \A g \in {h, Wl} : \A p \in s2[g].deleted \cup s2[g].opaque : into(p)
  <2> SUFFICES ASSUME NEW g \in {h, Wl}, NEW p \in s2[g].deleted \cup s2[g].opaque
               PROVE  into(p)
    OBVIOUS
  <2>1. p \in UNION {s1[x].deleted \cup s1[x].opaque : x \in {h, Wl}}
    BY <1>1, <1>2
  <2> QED BY <2>1 DEF Fits
<1> HIDE DEF into
<1>4. Calm(s3) /\ \A p \in s3[Wl].deleted \cup s3[Wl].opaque : into(p)
  <2>1. CASE h = Wl
    BY <1>2, <1>3, <2>1 DEF KeptRenamePrefix
  <2>2. CASE h # Wl
    <3>1. s3 = MovedMasks(s2, h, vf, vt)
      BY <2>2 DEF KeptRenamePrefix, MovedMasks
    <3>2. Calm(s3) /\ \A g \in Stores : g # h => s3[g] = s2[g]
      BY <1>1, <1>2, <1>3, <3>1, MovedMasksCalm DEF into
    <3> QED BY <1>1, <1>3, <2>2, <3>2
  <2> QED BY <2>1, <2>2
<1>5. Calm(r.s) /\ \A p \in r.s[Wl].deleted \cup r.s[Wl].opaque : into(p)
  <2>1. CASE r = Outcome(s3, "ok")
    BY <1>4, <2>1 DEF Outcome
  <2>2. CASE h # Wl /\ r \in Opaque(s3, vt)
    BY <1>1, <1>4, <2>2, OpaqueCalm, OpaqueMasks DEF Calm
  <2> QED BY <2>1, <2>2
<1>6. ASSUME NEW s4 \in Settle(r.s, vt) PROVE Calm(RenameMaskPrefix(s4, vf, vt))
  <2>1. Calm(s4)
    BY <1>1, <1>5, SettleCalm
  <2>2. \A p \in s4[Wl].deleted \cup s4[Wl].opaque : into(p)
    BY <1>1, <1>5, SettleMasks DEF Calm
  <2>3. PICK w \in Stores : w = Wl
    BY <1>1
  <2>4. Calm(MovedMasks(s4, w, vf, vt))
    BY <1>1, <2>1, <2>2, <2>3, MovedMasksCalm DEF into
  <2> QED BY <2>3, <2>4 DEF MovedMasks, RenameMaskPrefix
<1> QED BY <1>2, <1>5, <1>6

\* VfsRename, once the source is writable.
LEMMA FinishRenameDurable ==
  ASSUME Ready, NEW vf, Free(vf), NEW vt,
         IF IsDirectory(S, vf) THEN Home[vf] = Home[vt] /\ Free(vt) ELSE Free(vt) \/ Mount(vt),
         NEW s, Calm(s), Good(s), NEW d, NEW hf, hf = Home[vf], FinishRename(s, d, hf, vf, vt)
  PROVE  Durable(S')
<1> DEFINE isDir == IsDirectory(S, vf)
           ht == Home[vt]
           over == ht # Wl /\ IsDeleted(s, ht, vt)
           s1 == Prepare(s, vt)
           from == s1[hf].tree[vf]
           onto == s1[ht].tree[vt]
           s2 == IF from = onto /\ ~isDir THEN s1 ELSE HostRename(s1, hf, vf, ht, vt)
           s3 == IF isDir THEN KeptRenamePrefix(s2, vf, vt) ELSE s2
           clash == onto # Absent /\ (isDir # (onto = Dir))
<1>1. KeptOnTop /\ Durable(S) /\ vf \in Paths /\ (Free(vt) \/ Mount(vt))
  BY FreeIs DEF Ready
<1>2. Calm(s1)
  BY <1>1, MadeRoomCalm
<1>3. \/ Stops("parent", s, d)
      \/ Stops("rename", s1, d)
      \/ \E code : Reply(s1, open, d, code)
      \/ /\ ~clash /\ Fits(s1, hf, vf, vt)
         /\ \/ Killed(s2, d)
            \/ \E r \in IF isDir /\ over THEN Opaque(s3, vt) ELSE {Outcome(s3, "ok")} :
                 \/ r.code # "ok" /\ Reply(r.s, open, d, r.code)
                 \/ Killed(r.s, d)
                 \/ \E s4 \in Settle(r.s, vt) :
                      HideRest(IF isDir THEN RenameMaskPrefix(s4, vf, vt) ELSE s4, d, vf)
  BY DEF FinishRename
<1>4. CASE Stops("parent", s, d) \/ Stops("rename", s1, d) \/ \E code : Reply(s1, open, d, code)
  BY <1>1, <1>2, <1>4, StopsDurable, EndsDurable
<1>5. ASSUME ~clash, ~isDir PROVE Free(vt)
  <2> SUFFICES ASSUME Mount(vt) PROVE FALSE
    BY <1>1
  <2>1. ht \in Kept /\ vt = KeptRoot[ht] /\ ht \in Stores /\ ht # Wl
    BY MountIs
  <2>2. s[ht].tree[vt] = Dir
    BY <2>1, StoresAre DEF Good, HostTree
  <2>3. onto = Dir
    BY <1>1, <2>2, MadeRoomCalm
  <2> QED BY <1>5, <2>3, Distinct
<1>6. CASE /\ isDir /\ ~clash /\ Fits(s1, hf, vf, vt)
           /\ \/ Killed(s2, d)
              \/ \E r \in IF isDir /\ over THEN Opaque(s3, vt) ELSE {Outcome(s3, "ok")} :
                   \/ r.code # "ok" /\ Reply(r.s, open, d, r.code)
                   \/ Killed(r.s, d)
                   \/ \E s4 \in Settle(r.s, vt) :
                        HideRest(IF isDir THEN RenameMaskPrefix(s4, vf, vt) ELSE s4, d, vf)
  <2>1. hf = ht /\ Free(vt)
    BY <1>6
  <2>2. s2 = HostRename(s1, hf, vf, hf, vt) /\ s3 = KeptRenamePrefix(s2, vf, vt)
    BY <1>6, <2>1
  <2>3. over => hf # Wl
    BY <2>1
  <2> HIDE DEF s1, s2, s3, over, clash, ht
  <2>4. ASSUME NEW r \in IF over THEN Opaque(s3, vt) ELSE {Outcome(s3, "ok")}
        PROVE  /\ Calm(s2) /\ Calm(r.s)
               /\ \A s4 \in Settle(r.s, vt) : Calm(RenameMaskPrefix(s4, vf, vt))
    <3>1. r \in (IF hf # Wl THEN Opaque(s3, vt) ELSE {}) \cup {Outcome(s3, "ok")}
      BY <2>3, <2>4
    <3> QED BY <1>2, <1>6, <2>1, <2>2, <3>1, TreeMovedDurable DEF ht
  <2>5. Calm(s2)
    <3>1. Outcome(s3, "ok") \in (IF hf # Wl THEN Opaque(s3, vt) ELSE {}) \cup {Outcome(s3, "ok")}
      OBVIOUS
    <3> QED BY <1>2, <1>6, <2>1, <2>2, <3>1, TreeMovedDurable DEF ht
  <2>6. CASE Killed(s2, d)
    BY <1>1, <2>5, <2>6, EndsDurable
  <2>7. ASSUME NEW r \in IF over THEN Opaque(s3, vt) ELSE {Outcome(s3, "ok")},
               \/ \E code : Reply(r.s, open, d, code)
               \/ Killed(r.s, d)
               \/ \E s4 \in Settle(r.s, vt) : HideRest(RenameMaskPrefix(s4, vf, vt), d, vf)
        PROVE  Durable(S')
    BY <1>1, <2>4, <2>7, EndsDurable, HideRestDurable
  <2> QED BY <1>6, <2>6, <2>7
<1>7. CASE /\ ~isDir /\ ~clash /\ Fits(s1, hf, vf, vt)
           /\ \/ Killed(s2, d)
              \/ \E r \in {Outcome(s2, "ok")} :
                   \/ r.code # "ok" /\ Reply(r.s, open, d, r.code)
                   \/ Killed(r.s, d)
                   \/ \E s4 \in Settle(r.s, vt) : HideRest(s4, d, vf)
  <2>1. Free(vt)
    BY <1>5, <1>7
  <2>2. /\ vf \in Paths /\ ~OnWay(vf) /\ vt \in Paths /\ ~OnWay(vt)
        /\ hf \in Stores /\ (hf # Wl => Shown(S, hf)) /\ ht \in Stores /\ (ht # Wl => Shown(S, ht))
    BY <1>1, <2>1, FreeIs
  <2> HIDE DEF s1, ht
  <2>3. Calm(s2)
    BY <1>2, <1>7, <2>2, HostRenameCalm
  <2> HIDE DEF s2, clash
  <2>4. \A s4 \in Settle(s2, vt) : Calm(s4)
    BY <1>1, <2>1, <2>3, SettleCalm
  <2>5. \/ Killed(s2, d)
        \/ \E s4 \in Settle(s2, vt) : HideRest(s4, d, vf)
    BY <1>7 DEF Outcome
  <2> QED BY <1>1, <2>3, <2>4, <2>5, EndsDurable, HideRestDurable
<1> HIDE DEF s1, s2, clash, over
<1> QED BY <1>3, <1>4, <1>6, <1>7

\* VfsRename.
LEMMA RenameDurable ==
  ASSUME Ready, NEW vf \in Paths, NEW vt \in Paths, TameRename(vf, vt)
  PROVE  Durable(S')
<1> DEFINE visits == IF IsDirectory(S, vf) THEN DeepWalk(S, vf) ELSE {vf}
<1>1. /\ Free(vf) /\ vf # Root /\ Reachable(S, vf) /\ Exists(S, vf)
      /\ IF IsDirectory(S, vf) THEN Home[vf] = Home[vt] /\ Free(vt) ELSE Free(vt) \/ Mount(vt)
      /\ KeptOnTop /\ Inv /\ Durable(S)
  BY RenameFree DEF Ready
<1>2. \A p \in DeepWalk(S, vf) : p \in Paths /\ Reachable(S, p)
  BY <1>1, DeepWalkReachable
<1>3. visits \subseteq Paths /\ \A p \in visits : Reachable(S, p)
  BY <1>1, <1>2
<1>4. \/ \E up \in CopiedUp(visits, vf) : FinishRename(up.s, up.d, up.at, vf, vt)
      \/ \E stop : \E P \in PartialWalks(S, vf, stop) : \E up \in CopiedUp(P, vf) :
           (\E code : Reply(up.s, open, up.d, code)) \/ Stops("copy", up.s, up.d)
      \/ CopyUpFails(vf)
  BY DEF TameRename, VfsRename
<1> HIDE DEF visits
<1>5. ASSUME NEW up \in CopiedUp(visits, vf), FinishRename(up.s, up.d, up.at, vf, vt)
      PROVE  Durable(S')
  <2>1. Calm(up.s) /\ up.at = Home[vf]
    BY <1>3, CopiedUpCalm
  <2>2. Good(up.s)
    BY <1>1, <1>3, CopiedUpSound DEF AfterCopyUp, Sound
  <2> QED BY <1>1, <1>5, <2>1, <2>2, FinishRenameDurable
<1>6. ASSUME NEW stop, NEW P \in PartialWalks(S, vf, stop), NEW up \in CopiedUp(P, vf),
             (\E code : Reply(up.s, open, up.d, code)) \/ Stops("copy", up.s, up.d)
      PROVE  Durable(S')
  <2>1. P \subseteq Paths /\ \A p \in P : Reachable(S, p)
    BY <1>2 DEF PartialWalks
  <2>2. Calm(up.s)
    BY <2>1, CopiedUpCalm
  <2> QED BY <1>1, <1>6, <2>2, EndsDurable, StopsDurable
<1>7. CASE CopyUpFails(vf)
  BY <1>1, <1>7, CopyUpFailsDurable
<1> QED BY <1>4, <1>5, <1>6, <1>7

\* A copy-up of one name.
LEMMA CopiedHereCalm ==
  ASSUME Ready, NEW v \in Paths, Reachable(S, v), NEW up \in CopiedUp({v}, v)
  PROVE  Calm(up.s) /\ Good(up.s) /\ up.at = Home[v] /\ Durable(S)
<1>1. {v} \subseteq Paths /\ (\A p \in {v} : Reachable(S, p)) /\ KeptOnTop /\ Inv /\ Durable(S)
  BY DEF Ready
<1>2. Calm(up.s) /\ up.at = Home[v]
  BY <1>1, CopiedUpCalm
<1>3. Good(up.s)
  BY <1>1, CopiedUpSound DEF AfterCopyUp, Sound
<1> QED BY <1>1, <1>2, <1>3

\* VfsLink.
LEMMA LinkDurable ==
  ASSUME Ready, NEW vf \in Paths, NEW vt \in Paths, VfsLink(vf, vt)
  PROVE  Durable(S')
<1>1. /\ vf # Root /\ Reachable(S, vf) /\ Exists(S, vf) /\ (Free(vt) \/ Mount(vt))
      /\ KeptOnTop /\ Durable(S)
  BY NegativeFree DEF VfsLink, Positive, Ready
<1>2. CASE CopyUpFails(vf)
  BY <1>1, <1>2, CopyUpFailsDurable DEF VfsLink, Positive
<1>3. ASSUME ~CopyUpFails(vf) PROVE Durable(S')
  <2>1. PICK up \in CopiedUp({vf}, vf) :
          LET ht == Home[vt]
              s2 == EnsureParent(up.s, ht, vt)
              from == up.s[up.at].tree[vf]
              onto == up.s[ht].tree[vt]
              s3 == Put(s2, ht, vt, from)
          IN  \/ Stops("parent", up.s, up.d)
              \/ Stops("link", s2, up.d)
              \/ \E code : Reply(s2, open, up.d, code)
              \/ /\ onto = Absent
                 /\ \/ Killed(s3, up.d)
                    \/ \E s4 \in UnhideLower(s3, vt) : Reply(s4, open, up.d, "ok")
    BY <1>3 DEF VfsLink
  <2> DEFINE ht == Home[vt]
             s2 == EnsureParent(up.s, ht, vt)
             from == up.s[up.at].tree[vf]
             onto == up.s[ht].tree[vt]
             s3 == Put(s2, ht, vt, from)
  <2>2. Calm(up.s) /\ Good(up.s) /\ up.at = Home[vf]
    BY CopiedHereCalm DEF VfsLink, Positive
  <2>3. Calm(s2)
    BY <1>1, <2>2, MadeRoomCalm
  <2>4. from \in Inodes \cup {Dir, Absent}
    <3>1. PICK h \in Stores : h = up.at
      BY <1>1, <2>2, HomeBelongs
    <3>2. up.s[h].tree \in [Paths -> Inodes \cup {Dir, Absent}]
      BY <2>2, FieldsAre DEF Good
    <3> QED BY <3>1, <3>2
  <2>5. ASSUME onto = Absent PROVE Free(vt)
    <3> SUFFICES ASSUME Mount(vt) PROVE FALSE
      BY <1>1
    <3>1. ht \in Kept /\ vt = KeptRoot[ht] /\ ht \in Stores /\ ht # Wl
      BY MountIs
    <3> QED BY <2>2, <2>5, <3>1, StoresAre, Distinct DEF Good, HostTree
  <2> HIDE DEF s2, from
  <2>6. Free(vt) => Calm(s3)
    BY <1>1, <2>3, <2>4, PutCalm
  <2> HIDE DEF s3
  <2>7. ASSUME Free(vt), NEW s4 \in UnhideLower(s3, vt) PROVE Calm(s4)
    BY <1>1, <2>6, <2>7, SettleCalm
  <2>8. \/ Stops("parent", up.s, up.d)
        \/ Stops("link", s2, up.d)
        \/ \E code : Reply(s2, open, up.d, code)
        \/ /\ onto = Absent
           /\ \/ Killed(s3, up.d)
              \/ \E s4 \in UnhideLower(s3, vt) : Reply(s4, open, up.d, "ok")
    BY <2>1 DEF s3, s2, from
  <2> HIDE DEF onto
  <2> QED BY <1>1, <2>2, <2>3, <2>5, <2>6, <2>7, <2>8, EndsDurable, StopsDurable
<1> QED BY <1>2, <1>3

\* The operations on data.
LEMMA DataDurable ==
  ASSUME Ready, DataStep
  PROVE  Durable(S')
<1>1. Durable(S) /\ Calm(S)
  BY CalmHere
<1>2. ASSUME NEW v \in Paths, (\E trunc \in BOOLEAN : VfsOpen(v, trunc)) \/ VfsTruncate(v) \/ VfsChmod(v)
      PROVE  Durable(S')
  <2>1. v # Root /\ Reachable(S, v) /\ Exists(S, v)
    BY <1>2 DEF VfsOpen, VfsTruncate, VfsChmod, Regular, Positive
  <2>2. \/ CopyUpFails(v)
        \/ \E up \in CopiedUp({v}, v) :
             Stops("open", up.s, up.d) \/ \E o, d, code : Reply(up.s, o, d, code)
    <3>1. CASE \E trunc \in BOOLEAN : VfsOpen(v, trunc)
      BY <3>1 DEF VfsOpen
    <3>2. CASE VfsTruncate(v)
      BY <3>2 DEF VfsTruncate
    <3>3. CASE VfsChmod(v)
      BY <3>3 DEF VfsChmod
    <3> QED BY <1>2, <3>1, <3>2, <3>3
  <2>3. \A up \in CopiedUp({v}, v) : Calm(up.s)
    BY <2>1, CopiedHereCalm
  <2> QED BY <1>1, <2>1, <2>2, <2>3, CopyUpFailsDurable, StopsDurable, EndsDurable
<1>3. ASSUME NEW i \in Inodes, VfsRelease(i) \/ \E c \in Payloads : VfsWrite(i, c)
      PROVE  Durable(S')
  BY <1>1, <1>3, EndsDurable DEF VfsRelease, VfsWrite
<1> QED BY <1>2, <1>3 DEF DataStep

\* A mount: what is on disk stays, or starts afresh.
LEMMA SessionDurable ==
  ASSUME Ready, SessionStep
  PROVE  Durable(S')
<1>1. Durable(S) /\ Calm(S) /\ S \in VfsState
  BY CalmHere
<1> DEFINE fresh == [S EXCEPT ![Wl] = EmptyStore(Wl)]
<1>2. CASE Remount
  <2>1. S' = SeedMasks(S) \/ S' = SeedMasks(SeedMasks(S))
    BY <1>2 DEF Remount, Reply
  <2>2. SeedMasks(S) \in VfsState
    BY <1>1, SeedDisk
  <2>3. \A h \in Stores : S'[h].tree = S[h].tree /\ S'[h].wh = S[h].wh /\ S'[h].opq = S[h].opq
    BY <1>1, <2>1, <2>2, SeedDisk
  <2> QED BY <1>1, <2>3, StoresAre DEF Durable, Shown, Vacant
<1>3. CASE Relaunch
  <2>1. S' = SeedMasks(fresh) \/ S' = SeedMasks(SeedMasks(fresh))
    BY <1>3 DEF Relaunch, Reply
  <2>2. fresh \in VfsState /\ fresh[Wl] = EmptyStore(Wl)
    BY <1>1, StoresAre DEF VfsState, EmptyStore
  <2> HIDE DEF fresh
  <2>3. SeedMasks(fresh) \in VfsState
    BY <2>2, SeedDisk
  <2>4. \A h \in Stores : S'[h].tree = fresh[h].tree /\ S'[h].wh = fresh[h].wh /\ S'[h].opq = fresh[h].opq
    BY <2>1, <2>2, <2>3, SeedDisk
  <2>5. /\ fresh[Wl].wh = {} /\ fresh[Wl].opq = {}
        /\ \A p \in Paths : fresh[Wl].tree[p] \in {Dir, Absent}
    BY <2>2 DEF EmptyStore
  <2>6. S'[Wl].wh = {} /\ S'[Wl].opq = {} /\ \A p \in Paths : S'[Wl].tree[p] \in {Dir, Absent}
    BY <2>4, <2>5, StoresAre
  <2>7. \A k \in Kept : Shown(S', k)
    BY <2>6 DEF Shown
  <2> QED BY <2>6, <2>7 DEF Durable
<1> QED BY <1>2, <1>3 DEF SessionStep

LEMMA InitDurable ==
  ASSUME Init
  PROVE  Durable(S)
<1>1. S[Wl] = EmptyStore(Wl)
  BY StoresAre DEF Init
<1>2. S[Wl].wh = {} /\ S[Wl].opq = {} /\ \A p \in Paths : S[Wl].tree[p] \in {Dir, Absent}
  BY <1>1 DEF EmptyStore
<1>3. \A k \in Kept : Shown(S, k)
  BY <1>2 DEF Shown
<1> QED BY <1>2, <1>3 DEF Durable

LEMMA StepDurable ==
  ASSUME Ready, [TameNext]_vars
  PROVE  Durable(S')
<1>1. CASE NameStep
  BY <1>1, CreateDurable, MkdirDurable, UnlinkDurable, RmdirDurable DEF NameStep
<1>2. CASE DataStep
  BY <1>2, DataDurable
<1>3. CASE \E vf, vt \in Paths : TameRename(vf, vt)
  BY <1>3, RenameDurable
<1>4. CASE LinkStep
  BY <1>4, LinkDurable DEF LinkStep
<1>5. CASE SessionStep
  BY <1>5, SessionDurable
<1>6. CASE UNCHANGED vars
  <2>1. S' = S
    BY <1>6 DEF vars
  <2> QED BY <2>1 DEF Ready
<1> QED BY <1>1, <1>2, <1>3, <1>4, <1>5, <1>6 DEF TameNext

(***************************************************************************)
(* A new session.                                                          *)
(***************************************************************************)
\* Below the root of a kept folder that is shown, the layers alone answer.
LEMMA ShownResolve ==
  ASSUME KeptOnTop, "marker" \notin HostFaults, NEW s, Good(s), Masked(s), Root \notin s[Wl].opq,
         NEW k \in Kept, Shown(s, k), NEW p \in Paths, Within(p, KeptRoot[k]), p # KeptRoot[k]
  PROVE  Resolve(s, p) = ResolveLayers(s, p)
<1> DEFINE root == KeptRoot[k]
<1>1. root \in Paths /\ p # Root
  BY KeptAre, PathsAre, WithinRoot, WithinAntisymmetric
<1>2. s[Wl].deleted = s[Wl].wh /\ s[Wl].opaque = s[Wl].opq
  BY StoresAre DEF Masked
<1>3. s[Wl].tree[p] = Absent /\ p \notin s[Wl].deleted
  BY <1>1 DEF Good, Apart
<1>4. ASSUME NEW a \in Above[Wl][p] PROVE a \notin s[Wl].deleted /\ a \notin s[Wl].opaque
  <2>1. a \in Paths /\ a \in VPath /\ Within(p, a) /\ root \in VPath /\ p \in VPath
    BY <1>1, AboveAre, StoresAre, PathsAre
  <2>2. CASE Within(root, a)
    <3>1. a \notin s[Wl].wh
      BY <2>1, <2>2 DEF Shown
    <3>2. a # root => a \notin s[Wl].opq
      BY <2>1, <2>2 DEF Shown
    <3>3. a = root /\ root # Root => a \notin s[Wl].opaque
      BY <1>1, PathsAre, WithinReflexive DEF Good, Apart
    <3> QED BY <1>2, <3>1, <3>2, <3>3
  <2>3. CASE ~Within(root, a)
    <3>1. Within(a, root)
      BY <2>1, <2>3, WithinChain
    <3>2. a # Root /\ a # root
      BY <1>1, <2>3, <3>1, PathsAre, WithinRoot, WithinReflexive, WithinAntisymmetric
    <3> QED BY <2>1, <3>1, <3>2 DEF Good, Apart
  <2> QED BY <2>2, <2>3
<1> QED BY <1>3, <1>4 DEF Resolve, IsDeleted, IsUnderMask

\* What a new session finds on disk.
LEMMA RelaunchIs ==
  ASSUME Ready, Relaunch, Inv'
  PROVE  /\ \A j \in Kept : S'[j] = S[j] /\ Shown(S', j)
         /\ Root \notin S'[Wl].opq
         /\ data' = Reclaim(S', {}, data)
<1> DEFINE fresh == [S EXCEPT ![Wl] = EmptyStore(Wl)]
<1>1. S \in VfsState /\ Masked(S) /\ Masked(S')
  BY DEF Ready, Inv, Good
<1>2. S' = SeedMasks(fresh) /\ data' = Reclaim(S', {}, data)
  BY DEF Relaunch, Reply
<1>3. fresh \in VfsState /\ fresh[Wl] = EmptyStore(Wl) /\ \A j \in Kept : fresh[j] = S[j]
  BY <1>1, StoresAre DEF VfsState, EmptyStore
<1> HIDE DEF fresh
<1>4. \A h \in Stores : S'[h].tree = fresh[h].tree /\ S'[h].wh = fresh[h].wh /\ S'[h].opq = fresh[h].opq
  BY <1>2, <1>3, SeedDisk
<1>5. ASSUME NEW j \in Kept PROVE S'[j] = S[j]
  <2>1. j \in Stores
    BY StoresAre
  <2> DEFINE del == {v \in fresh[j].wh : v # Root /\ WalkReaches(fresh, j, ParentVRel(v))}
             opa == {v \in fresh[j].opq : WalkReaches(fresh, j, v)}
  <2>2. S'[j] = [fresh[j] EXCEPT !.deleted = del, !.opaque = opa]
    BY <1>2, <2>1 DEF SeedMasks
  <2> HIDE DEF del, opa
  <2>3. S[j] \in [tree : [Paths -> Inodes \cup {Dir, Absent}], wh : SUBSET Paths, opq : SUBSET Paths,
                  deleted : SUBSET Paths, opaque : SUBSET Paths]
    BY <1>1, <2>1 DEF VfsState
  <2>4. S'[j] = [S[j] EXCEPT !.deleted = del, !.opaque = opa]
    BY <1>3, <2>2
  <2>5. S'[j].deleted = del /\ S'[j].opaque = opa /\ S'[j].wh = S[j].wh /\ S'[j].opq = S[j].opq
    BY <2>3, <2>4
  <2>6. del = S[j].deleted /\ opa = S[j].opaque
    BY <1>1, <2>1, <2>5 DEF Masked, Ready
  <2> QED BY <2>3, <2>4, <2>6
<1>6. /\ fresh[Wl].wh = {} /\ fresh[Wl].opq = {}
      /\ \A p \in Paths : fresh[Wl].tree[p] \in {Dir, Absent}
  BY <1>3 DEF EmptyStore
<1>7. S'[Wl].wh = {} /\ S'[Wl].opq = {} /\ \A p \in Paths : S'[Wl].tree[p] \in {Dir, Absent}
  BY <1>4, <1>6, StoresAre
<1> QED BY <1>2, <1>5, <1>7 DEF Shown

\* A new session sees in the kept folder k what the last one saw.
LEMMA RelaunchSame ==
  ASSUME Ready, Relaunch, Inv', NEW k \in Kept, NEW v \in Paths, Within(v, KeptRoot[k]), v # KeptRoot[k]
  PROVE  Serves(S, data, v)' = Serves(S, data, v)
<1> DEFINE root == KeptRoot[k]
<1>1. KeptOnTop /\ KeptReached /\ "marker" \notin HostFaults /\ Durable(S) /\ Good(S) /\ Masked(S)
      /\ Root \notin S[Wl].opq
  BY DEF Ready, Inv, Durable
<1>2. PICK t : t = S'
  OBVIOUS
<1>3. Good(t) /\ Masked(t)
  BY <1>2 DEF Inv
<1>4. /\ \A j \in Kept : t[j] = S[j] /\ Shown(t, j)
      /\ Root \notin t[Wl].opq
      /\ data' = Reclaim(t, {}, data)
  BY <1>2, RelaunchIs
<1>5. k \in Stores /\ k # Wl /\ StoreRoot(k) = root /\ root \in Paths /\ Home[v] = k
  BY <1>1, StoresAre, KeptAre, HomeIs
<1>6. Serves(S, data, v)' = IF Reachable(t, v) THEN Content(data', Resolve(t, v).entry) ELSE Absent
  BY <1>2 DEF Serves, Reachable, IsDirectory, Resolve, ResolveLayers, HighestAnswer, Answer, Content,
              IsDeleted, IsUnderMask, KeptMasked
<1>7. CASE Shown(S, k)
  <2>1. ASSUME NEW p \in Paths, Within(p, root), p # root PROVE Resolve(t, p) = Resolve(S, p)
    <3>1. Resolve(t, p) = ResolveLayers(t, p) /\ Resolve(S, p) = ResolveLayers(S, p)
      BY <1>1, <1>3, <1>4, <1>7, <2>1, ShownResolve
    <3>2. KeptOver[p] \subseteq Kept
      BY DEF KeptOver
    <3>3. \A j \in KeptOver[p] : KeptMasked(t, j, p) <=> KeptMasked(S, j, p)
      BY <1>4, <3>2 DEF KeptMasked, IsDeleted, IsUnderMask
    <3>4. {j \in KeptOver[p] : t[j].tree[p] # Absent \/ KeptMasked(t, j, p)}
            = {j \in KeptOver[p] : S[j].tree[p] # Absent \/ KeptMasked(S, j, p)}
      BY <1>4, <3>2, <3>3
    <3>5. \A i : Answer(t, i, p) = Answer(S, i, p)
      BY <1>4 DEF Answer
    <3>6. \A hits : HighestAnswer(t, p, hits) = HighestAnswer(S, p, hits)
      BY <3>5 DEF HighestAnswer
    <3>7. ResolveLayers(t, p) = ResolveLayers(S, p)
      BY <3>4, <3>6 DEF ResolveLayers
    <3> QED BY <3>1, <3>7
  <2>2. \A a \in Paths : Within(root, a) => IsDirectory(t, a) /\ IsDirectory(S, a)
    BY <1>1, <1>3, <1>4, <1>7, ShownServed
  <2>3. ASSUME NEW a \in Above[Wl][v] PROVE IsDirectory(t, a) <=> IsDirectory(S, a)
    <3>1. a \in Paths /\ a \in VPath /\ Within(v, a) /\ root \in VPath /\ v \in VPath
      BY <1>5, AboveAre, StoresAre, PathsAre
    <3>2. Within(root, a) \/ (Within(a, root) /\ a # root)
      BY <3>1, WithinChain, WithinReflexive
    <3> QED BY <2>1, <2>2, <3>1, <3>2 DEF IsDirectory
  <2>4. Reachable(t, v) <=> Reachable(S, v)
    BY <2>3 DEF Reachable
  <2>5. Resolve(t, v) = Resolve(S, v)
    BY <2>1
  <2>6. Content(data', Resolve(t, v).entry) = Content(data, Resolve(t, v).entry)
    <3> DEFINE x == Resolve(t, v).entry
    <3>1. x = t[k].tree[v] \/ x = Absent \/ x \in Contents \cup {Dir, Packed}
      BY <1>1, <1>3, <1>5, LookupIs
    <3> HIDE DEF x
    <3>2. x \in Inodes => x \in Named(t)
      BY <1>5, <3>1, Distinct DEF Named
    <3>3. Content(data', x) = Content(data, x)
      BY <1>4, <3>2 DEF Content, Reclaim
    <3> QED BY <3>3 DEF x
  <2> QED BY <1>6, <2>4, <2>5, <2>6 DEF Serves
<1>8. CASE ~Shown(S, k)
  <2>1. Vacant(S, k)
    BY <1>1, <1>8 DEF Durable
  <2>2. Serves(S, data, v) = Absent
    BY <1>1, <1>8, ReachedShown DEF Serves
  <2>3. t[k].tree[v] = Absent /\ root \in t[k].opaque
    BY <1>3, <1>4, <1>5, <2>1 DEF Vacant, Masked
  <2>4. root \in Above[k][v]
    BY <1>5, AboveAre, PathsAre, WithinReflexive
  <2>5. KeptMasked(t, k, v)
    BY <1>5, <2>3, <2>4 DEF KeptMasked, IsUnderMask
  <2>6. Resolve(t, v).entry = Absent
    BY <1>1, <1>3, <1>5, <2>3, <2>5, LookupIs
  <2> QED BY <1>6, <2>2, <2>6, Distinct DEF Content
<1> QED BY <1>7, <1>8

\* A kept folder is durable: the new session of a fresh writelayer sees below
\* it what the last one saw, whatever was made, renamed or deleted there, the
\* folder itself and its mount point included (vfsops.cpp, overlay.cpp).
THEOREM KeptDurableCorrect ==
  ASSUME KeptOnTop, KeptReached, "marker" \notin HostFaults
  PROVE  TameSpec => KeptIsDurable
<1> DEFINE P == rc' = "relaunched" =>
                  \A k \in Kept : \A v \in Paths :
                    Holds(k, v) /\ v # StoreRoot(k) => View'[v] = View[v]
<1>1. Init => Durable(S)
  BY InitDurable
<1>2. Inv /\ Durable(S) /\ [TameNext]_vars => Durable(S)'
  BY StepDurable DEF Ready
<1>3. Inv /\ Inv' /\ Durable(S) /\ [TameNext]_vars => [P]_vars
  <2> SUFFICES ASSUME Inv, Inv', Durable(S), TameNext, rc' = "relaunched",
                      NEW k \in Kept, NEW v \in Paths, Holds(k, v), v # StoreRoot(k)
               PROVE  View'[v] = View[v]
    OBVIOUS
  <2>1. Relaunch
    <3>1. Next
      BY DEF TameNext, Next, TameRename, RenameStep
    <3> QED BY <3>1, StepEnds
  <2>2. Within(v, KeptRoot[k]) /\ v # KeptRoot[k]
    BY StoresAre DEF Holds
  <2>3. Serves(S, data, v)' = Serves(S, data, v)
    BY <2>1, <2>2, RelaunchSame DEF Ready
  <2> QED BY <2>3 DEF View
<1> QED BY <1>1, <1>2, <1>3, TameAlways, PTL DEF TameSpec, KeptIsDurable

=============================================================================
