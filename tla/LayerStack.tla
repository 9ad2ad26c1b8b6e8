------------------------------ MODULE LayerStack ------------------------------
(***************************************************************************)
(* VfsState::Init (src/src/overlay.cpp): how the layers of a mount's spec  *)
(* become the layer stack.  Zip and delta layers carry archives; a delta   *)
(* is composed over the archives its bases stand for, those of its chain   *)
(* are folded into it, and bases that surfaced elsewhere are masked where  *)
(* the delta surfaces.  One step per spec layer.                           *)
(*                                                                         *)
(* A spec layer is a record: type ("Zip", "Delta" or "Dir", which stands   *)
(* for both layer types without an archive), target, baseTargets (a        *)
(* sequence, empty when undeclared), mounts, the targets it surfaces at    *)
(* (its own, or its submounts'), and names, the paths in its archive.  An  *)
(* archive is named by the index of the spec layer whose composed bytes it *)
(* is.                                                                     *)
(***************************************************************************)
EXTENDS Integers, Sequences, FiniteSets, FiniteSetsExt, SequencesExt

CONSTANTS
  Targets,   \* mount targets
  Specs,     \* the specs that may be mounted: sequences of spec layers
  MaxFaults, \* the most layers that cannot be read (a bound of the instance)
  PathOf,    \* the virtual path of every target
  LowerOf    \* names -> their lower case

VARIABLES
  spec,       \* Spec::layers
  gi,         \* the spec layer at hand
  view,       \* baseByTarget: the archive at every target, 0 for none
  behindAt,   \* baseLayersByTarget: the spec layers that archive stands for
  chainSeen,  \* targets where a chain has begun
  layers,     \* VfsState::layers: spec layer, target and maskedUnder of each
  bases,      \* the archives every composed delta copies from
  skipped     \* spec layers left out with a message on stderr

vars == <<spec, gi, view, behindAt, chainSeen, layers, bases, skipped>>

\* LayerSpec, as far as Init looks at it.
LayerSpec ==
  [type : {"Zip", "Delta", "Dir"}, target : Targets, baseTargets : Seq(Targets),
   mounts : Seq(Targets) \ {<< >>}, names : SUBSET Seq(DOMAIN LowerOf)]

ASSUME StackAssumption ==
  /\ MaxFaults \in Nat
  /\ Specs \subseteq Seq(LayerSpec)
  /\ PathOf \in [Targets -> Seq(DOMAIN LowerOf)]

-----------------------------------------------------------------------------
Archive(i) == spec[i].type \in {"Zip", "Delta"}

\* Archive layers i < j of one target with none between them.
Follows(i, j) ==
  /\ i < j /\ Archive(i) /\ Archive(j) /\ spec[i].target = spec[j].target
  /\ \A k \in (i + 1) .. (j - 1) : Archive(k) => spec[k].target # spec[i].target

BuiltOverOwnTarget(i) ==
  spec[i].baseTargets = << >> \/ spec[i].target \in ToSet(spec[i].baseTargets)

\* Mutant: a zip stacked over a delta belongs to its chain.
AnyDeltaExtends(i, j) == i < j /\ spec[i].target = spec[j].target /\ spec[j].type = "Delta"

\* j is in the chain of i: from i on, every archive layer of the target is a
\* delta built over that target.
Extends(i, j) ==
  /\ i < j /\ Archive(i) /\ Archive(j) /\ spec[i].target = spec[j].target
  /\ \A k \in (i + 1) .. j :
       Archive(k) /\ spec[k].target = spec[i].target =>
         spec[k].type = "Delta" /\ BuiltOverOwnTarget(k)

\* chainTop: the last layer of the chain of i, or 0 when it is in none (a
\* layer without archive, a zip that no delta is built over).
ChainTop(i) ==
  LET above == {j \in DOMAIN spec : Extends(i, j)}
  IN  IF above # {} THEN Max(above) ELSE IF spec[i].type = "Delta" THEN i ELSE 0

BaseTargets(i) ==
  IF spec[i].baseTargets = << >> THEN {spec[i].target} ELSE ToSet(spec[i].baseTargets)

-----------------------------------------------------------------------------
Init ==
  /\ spec \in Specs
  /\ gi = 1
  /\ view = [t \in Targets |-> 0]
  /\ behindAt = [t \in Targets |-> {}]
  /\ chainSeen = {}
  /\ layers = << >>
  /\ bases = [i \in DOMAIN spec |-> {}]
  /\ skipped = {}

\* "skipping unreadable layer", "bad delta": the next layer is tried.
Unreadable ==
  /\ gi <= Len(spec) /\ Archive(gi)
  /\ Cardinality(skipped) < MaxFaults
  /\ skipped' = skipped \cup {gi}
  /\ gi' = gi + 1
  /\ UNCHANGED <<spec, view, behindAt, chainSeen, layers, bases>>

\* "delta layer has no base at target"
NoBase ==
  /\ gi <= Len(spec) /\ spec[gi].type = "Delta"
  /\ \E t \in BaseTargets(gi) : view[t] = 0
  /\ skipped' = skipped \cup {gi}
  /\ gi' = gi + 1
  /\ UNCHANGED <<spec, view, behindAt, chainSeen, layers, bases>>

\* Mutant: a delta stands for itself and its direct bases only.
BehindDirect(i) ==
  {i} \cup (IF spec[i].type = "Delta" THEN {view[t] : t \in BaseTargets(i)} ELSE {})

\* Mutant: the layer itself is not among those its archive stands for.
BehindBasesOnly(i) ==
  IF spec[i].type = "Delta" THEN UNION {behindAt[t] : t \in BaseTargets(i)} ELSE {i}

\* The spec layers the archive of layer i stands for.
Behind(i) ==
  {i} \cup (IF spec[i].type = "Delta" THEN UNION {behindAt[t] : t \in BaseTargets(i)} ELSE {})

\* Mutant: every archive becomes the byte view of its target.
AlwaysAdvances(i) == Archive(i)

\* Chain members, and zips below every chain, are their target's byte view;
\* a zip stacked over a chain is not.
AdvancesView(i) ==
  Archive(i) /\ (ChainTop(i) # 0 \/ spec[i].target \notin chainSeen)

Folded(i) == ChainTop(i) # 0 /\ ChainTop(i) # i

\* The stack with layer i mounted on top, its bases masked where it surfaces
\* if it is a delta.
Mount(i) ==
  LET tops  == ToSet(spec[i].mounts)
      below == IF spec[i].type = "Delta" THEN Behind(i) \ {i} ELSE {}
  IN  [n \in DOMAIN layers |->
         IF layers[n].spec \in below THEN [layers[n] EXCEPT !.maskedUnder = @ \cup tops]
         ELSE layers[n]]
      \o [n \in DOMAIN spec[i].mounts |->
            [spec |-> i, target |-> spec[i].mounts[n], maskedUnder |-> {}]]

\* What layer gi does to the byte views and to the chains, mounted or not.
Compose ==
  /\ gi <= Len(spec)
  /\ spec[gi].type = "Delta" => \A t \in BaseTargets(gi) : view[t] # 0
  /\ bases' = [bases EXCEPT ![gi] =
       IF spec[gi].type = "Delta" THEN {view[t] : t \in BaseTargets(gi)} ELSE {}]
  /\ chainSeen' = chainSeen \cup (IF ChainTop(gi) # 0 THEN {spec[gi].target} ELSE {})
  /\ IF AdvancesView(gi)
     THEN /\ view' = [view EXCEPT ![spec[gi].target] = gi]
          /\ behindAt' = [behindAt EXCEPT ![spec[gi].target] = Behind(gi)]
     ELSE UNCHANGED <<view, behindAt>>
  /\ gi' = gi + 1
  /\ UNCHANGED spec

Add ==
  /\ Compose
  /\ layers' = IF Folded(gi) THEN layers ELSE Mount(gi)
  /\ UNCHANGED skipped

\* "skipping unreadable zip layer": composed, but its index cannot be built.
Unindexed ==
  /\ Compose
  /\ Archive(gi) /\ ~Folded(gi)
  /\ Cardinality(skipped) < MaxFaults
  /\ skipped' = skipped \cup {gi}
  /\ UNCHANGED layers

Next == Unreadable \/ NoBase \/ Add \/ Unindexed

Spec == Init /\ [][Next]_vars

-----------------------------------------------------------------------------
(***************************************************************************)
(* The stack that Init leaves: structural directories, and on a mount that *)
(* ignores case the one spelling of every path.                            *)
(***************************************************************************)
LayerMasked(n, v) == \E t \in layers[n].maskedUnder : IsPrefix(PathOf[t], v)

Presence(n) == PathOf[layers[n].target]

ImplicitDirs ==
  UNION {{SubSeq(Presence(n), 1, k) : k \in 1 .. (Len(Presence(n)) - 1)} :
           n \in {m \in DOMAIN layers : ~LayerMasked(m, Presence(m))}}

\* FoldCase, component by component.
FoldCase(v) == [k \in DOMAIN v |-> LowerOf[v[k]]]

\* The target of layer n, and what its archive has below it.
Mounted(n) == {Presence(n)} \cup {Presence(n) \o r : r \in spec[layers[n].spec].names}

\* Mutant: a base hidden under its delta spells names too.
SpellsHidden(n) == Mounted(n)

\* The paths that layer n spells.
Spells(n) == {v \in Mounted(n) : ~LayerMasked(n, v)}

\* canonCase: folded paths -> the spelling of the lowest layer, else that of a
\* structural directory.
CanonCase ==
  LET spelled(n) == {FoldCase(v) : v \in Spells(n)}
      dirs == {FoldCase(d) : d \in ImplicitDirs}
      lowest(f) == Min({n \in DOMAIN layers : f \in spelled(n)})
  IN  [f \in (UNION {spelled(n) : n \in DOMAIN layers}) \cup dirs |->
         CHOOSE v \in IF \E n \in DOMAIN layers : f \in spelled(n) THEN Spells(lowest(f)) ELSE ImplicitDirs :
           FoldCase(v) = f]

\* CanonicalCase: the longest beginning of v that is known, as it is spelled,
\* and the rest as it was typed.
CanonicalCase(canon, v) ==
  LET known == {k \in DOMAIN v : FoldCase(SubSeq(v, 1, k)) \in DOMAIN canon}
      cut == Max(known)
  IN  IF known = {} THEN v ELSE canon[FoldCase(SubSeq(v, 1, cut))] \o SubSeq(v, cut + 1, Len(v))

-----------------------------------------------------------------------------
(***************************************************************************)
(* Properties.                                                             *)
(***************************************************************************)
\* The two tables per target are kept together: the layers an archive stands for
\* include the archive itself, as the newest (overlay.cpp:174-178).
TypeOK ==
  /\ gi \in 1 .. (Len(spec) + 1)
  /\ view \in [Targets -> 0 .. (gi - 1)]
  /\ behindAt \in [Targets -> SUBSET (1 .. (gi - 1))]
  /\ \A t \in Targets : view[t] # 0 => Archive(view[t]) /\ view[t] = Max(behindAt[t])
  /\ chainSeen \subseteq Targets
  /\ ToSet(layers) \subseteq [spec : 1 .. (gi - 1), target : Targets, maskedUnder : SUBSET Targets]
  /\ \A i \in DOMAIN spec : bases[i] \subseteq 1 .. (i - 1)
  /\ skipped \subseteq 1 .. (gi - 1)

Surfaced == {layers[n].spec : n \in DOMAIN layers}

\* What the bytes of layer i are made of, whatever the bookkeeping of Init: what
\* every set has that has the bases of i and, with a layer, its bases.
MadeOf(i) ==
  {j \in DOMAIN spec : \A C \in SUBSET DOMAIN spec :
     bases[i] \subseteq C /\ (\A k \in C : bases[k] \subseteq C) => j \in C}

\* A delta hides exactly what it was composed from, wherever that surfaced and
\* however many deltas lie between (overlay.h:34-36: "it masks that base [...], and
\* nothing else").
MasksExactlyBases ==
  \A n \in DOMAIN layers :
    layers[n].maskedUnder =
      UNION {ToSet(spec[d].mounts) : d \in {e \in Surfaced : layers[n].spec \in MadeOf(e)}}

\* No layer is dropped silently: it surfaces, or a delta that surfaces is made
\* of it, or it goes down with the delta on top of its chain, which said so
\* (overlay.cpp:170: folding too much "silently DROPPED every overlay above a delta").
NoLayerLost ==
  gi > Len(spec) =>
    \A i \in DOMAIN spec :
      \/ i \in Surfaced \cup skipped
      \/ ChainTop(i) \in skipped
      \/ \E d \in Surfaced : i \in MadeOf(d)

\* A zip stacked over a chain stays an overlay: it surfaces, and no delta is
\* composed over it, since none was generated over it.
OverlaysStayOut ==
  \A i \in 1 .. (gi - 1) :
    /\ spec[i].type = "Zip" /\ i \notin skipped
    /\ \A j \in DOMAIN spec : ~Follows(i, j) \/ spec[j].type = "Zip" \/ ~BuiltOverOwnTarget(j)
    /\ \E j \in 1 .. (i - 1) :
         spec[j].type = "Delta" /\ spec[j].target = spec[i].target /\ j \notin skipped
    => i \in Surfaced /\ \A d \in DOMAIN spec : i \notin bases[d]

\* On a mount that ignores case, what a visible layer has is found in any case,
\* and so is a new name in a directory that it has, however the bases that a
\* delta hides spell them (overlay.cpp:236 "A base hidden under its delta
\* spells nothing").  The layers in sight agree on its spelling, which
\* packaging sees to (overlay.cpp:234).
FoundInAnyCase ==
  gi > Len(spec) =>
    LET canon == CanonCase
        seen  == (UNION {{v \in Mounted(n) : ~LayerMasked(n, v)} : n \in DOMAIN layers}) \cup ImplicitDirs
    IN  \A v \in seen :
          (\A u \in seen : FoldCase(u) = FoldCase(v) => u = v) =>
            \A typed \in [DOMAIN v -> DOMAIN LowerOf] : FoldCase(typed) = FoldCase(v) =>
              /\ CanonicalCase(canon, typed) = v
              /\ \A new \in DOMAIN LowerOf :
                   FoldCase(Append(v, new)) \notin DOMAIN canon =>
                     CanonicalCase(canon, Append(typed, new)) = Append(v, new)
=============================================================================
