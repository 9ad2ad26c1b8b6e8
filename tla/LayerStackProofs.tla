--------------------------- MODULE LayerStackProofs ---------------------------
(***************************************************************************)
(* Proofs about LayerStack, for any specs and any number of layers that    *)
(* cannot be read.                                                         *)
(***************************************************************************)
EXTENDS LayerStack, SequenceTheorems, WellFoundedInduction, TLAPS

(***************************************************************************)
(* Largest and smallest layers.                                            *)
(***************************************************************************)
\* A set of layers that is not empty has a lowest one.
LEMMA LowestLayer ==
  ASSUME NEW T, T \subseteq Nat, T # {}
  PROVE  \E x \in T : \A y \in T : x <= y
<1>1. \E R : IsWellFoundedOn(R, Nat) /\ \A x, y \in Nat : y < x => <<y, x>> \in R
  <2>1. \A x, y \in Nat : y < x => <<y, x>> \in OpToRel(<, Nat)
    BY DEF OpToRel
  <2> QED BY <2>1, NatLessThanWellFounded, Zenon
<1>2. PICK R : IsWellFoundedOn(R, Nat) /\ \A x, y \in Nat : y < x => <<y, x>> \in R
  BY <1>1
<1>3. PICK x \in T : \A y \in T : <<y, x>> \notin R
  BY <1>2, WFMin, Zenon
<1>4. \A y \in T : ~(y < x)
  BY <1>2, <1>3
<1> QED BY <1>4

\* Max is the greatest of a bounded set of layers.
LEMMA GreatestLayer ==
  ASSUME NEW n \in Nat, NEW T, T \subseteq 1 .. n, T # {}
  PROVE  Max(T) \in T /\ \A y \in T : y <= Max(T)
<1> DEFINE U == {n - x : x \in T}
<1>1. U \subseteq Nat /\ U # {}
  <2>1. \A x \in T : n - x \in Nat
    OBVIOUS
  <2> QED BY <2>1
<1>2. PICK u \in U : \A y \in U : u <= y
  BY <1>1, LowestLayer
<1>3. PICK x \in T : u = n - x
  OBVIOUS
<1>4. \A y \in T : x >= y
  <2> TAKE y \in T
  <2>1. n - y \in U
    OBVIOUS
  <2>2. u <= n - y
    BY <1>2, <2>1
  <2> QED BY <1>3, <2>2
<1>5. \E z \in T : \A y \in T : z >= y
  BY <1>4
<1>6. Max(T) \in T /\ \A y \in T : Max(T) >= y
  BY <1>5 DEF Max
<1> QED BY <1>6

(***************************************************************************)
(* Chains.                                                                 *)
(***************************************************************************)
\* What the parser hands over.
LEMMA SpecFields ==
  ASSUME spec \in Specs
  PROVE  /\ spec \in Seq(LayerSpec) /\ Len(spec) \in Nat /\ DOMAIN spec = 1 .. Len(spec)
         /\ \A i \in DOMAIN spec : /\ spec[i].target \in Targets
                                   /\ BaseTargets(i) \subseteq Targets
                                   /\ spec[i].mounts \in Seq(Targets) /\ spec[i].mounts # << >>
<1>1. spec \in Seq(LayerSpec)
  BY StackAssumption
<1>2. Len(spec) \in Nat /\ DOMAIN spec = 1 .. Len(spec)
  BY <1>1
<1>3. ASSUME NEW i \in DOMAIN spec
      PROVE  /\ spec[i].target \in Targets
             /\ BaseTargets(i) \subseteq Targets
             /\ spec[i].mounts \in Seq(Targets) /\ spec[i].mounts # << >>
  <2>1. spec[i] \in LayerSpec
    BY <1>1, <1>2, <1>3
  <2>2. spec[i].target \in Targets /\ spec[i].baseTargets \in Seq(Targets)
        /\ spec[i].mounts \in Seq(Targets) /\ spec[i].mounts # << >>
    BY <2>1 DEF LayerSpec
  <2>3. ToSet(spec[i].baseTargets) \subseteq Targets
    BY <2>2 DEF ToSet
  <2> QED BY <2>2, <2>3 DEF BaseTargets
<1> QED BY <1>1, <1>2, <1>3

\* A chain's top is in it; a delta is in a chain; a layer without archive is not.
LEMMA ChainTopIs ==
  ASSUME spec \in Specs, NEW i \in DOMAIN spec
  PROVE  /\ ChainTop(i) \in 0 .. Len(spec)
         /\ spec[i].type = "Delta" => ChainTop(i) # 0
         /\ ChainTop(i) # 0 => ChainTop(i) >= i /\ Archive(i)
         /\ ChainTop(i) = i => spec[i].type = "Delta"
         /\ ChainTop(i) # 0 /\ ChainTop(i) # i => Extends(i, ChainTop(i))
         /\ \A j \in DOMAIN spec : Extends(i, j) => ChainTop(i) # 0 /\ j <= ChainTop(i)
<1> DEFINE above == {j \in DOMAIN spec : Extends(i, j)}
<1>1. Len(spec) \in Nat /\ DOMAIN spec = 1 .. Len(spec) /\ above \subseteq 1 .. Len(spec)
  BY SpecFields
<1>2. ChainTop(i) = IF above # {} THEN Max(above) ELSE IF spec[i].type = "Delta" THEN i ELSE 0
  BY DEF ChainTop
<1>3. CASE above # {}
  <2>1. Max(above) \in above /\ \A j \in above : j <= Max(above)
    BY <1>1, <1>3, GreatestLayer
  <2>2. ChainTop(i) = Max(above)
    BY <1>2, <1>3
  <2>3. Extends(i, ChainTop(i)) /\ ChainTop(i) \in 1 .. Len(spec)
    BY <1>1, <2>1, <2>2
  <2>4. i < ChainTop(i) /\ Archive(i)
    BY <2>3 DEF Extends
  <2> HIDE DEF above
  <2>5. \A j \in DOMAIN spec : Extends(i, j) => j <= ChainTop(i)
    BY <2>1, <2>2 DEF above
  <2> QED BY <1>1, <2>3, <2>4, <2>5
<1>4. CASE above = {}
  <2>1. ChainTop(i) = IF spec[i].type = "Delta" THEN i ELSE 0
    BY <1>2, <1>4
  <2>2. \A j \in DOMAIN spec : ~Extends(i, j)
    BY <1>4
  <2>3. spec[i].type = "Delta" => Archive(i)
    BY DEF Archive
  <2> QED BY <1>1, <2>1, <2>2, <2>3
<1> QED BY <1>3, <1>4

\* Above a layer and up to the top of its chain, every archive of the target is
\* a delta over that target, of the same chain.
LEMMA ChainGoesUp ==
  ASSUME spec \in Specs, NEW i \in DOMAIN spec, NEW k \in DOMAIN spec,
         i < k, k <= ChainTop(i), Archive(k), spec[k].target = spec[i].target
  PROVE  /\ spec[k].type = "Delta" /\ spec[k].target \in BaseTargets(k)
         /\ ChainTop(k) = ChainTop(i)
<1> DEFINE top == ChainTop(i)
<1>1. /\ DOMAIN spec = 1 .. Len(spec) /\ Len(spec) \in Nat
      /\ top \in DOMAIN spec /\ Extends(i, top) /\ Archive(i)
  BY ChainTopIs, SpecFields
<1>2. spec[k].type = "Delta" /\ BuiltOverOwnTarget(k)
  BY <1>1 DEF Extends
<1>3. spec[k].target \in BaseTargets(k)
  BY <1>2 DEF BuiltOverOwnTarget, BaseTargets
<1>4. \A j \in DOMAIN spec : Extends(k, j) => Extends(i, j)
  <2> SUFFICES ASSUME NEW j \in DOMAIN spec, Extends(k, j) PROVE Extends(i, j)
    OBVIOUS
  <2>1. k < j /\ Archive(j) /\ spec[j].target = spec[i].target
    BY DEF Extends
  <2>2. ASSUME NEW l \in (i + 1) .. j, Archive(l) /\ spec[l].target = spec[i].target
        PROVE  spec[l].type = "Delta" /\ BuiltOverOwnTarget(l)
    <3>1. CASE l <= k
      BY <1>1, <2>2, <3>1 DEF Extends
    <3>2. CASE l > k
      BY <1>1, <2>2, <3>2 DEF Extends
    <3> QED BY <1>1, <2>2, <3>1, <3>2
  <2> QED BY <1>1, <2>1, <2>2 DEF Extends
<1>5. ChainTop(k) # 0 /\ ChainTop(k) \in DOMAIN spec /\ ChainTop(k) >= k
  BY <1>1, <1>2, ChainTopIs
<1>6. CASE ChainTop(k) = k
  <2>1. k = top
    <3> SUFFICES ASSUME k # top PROVE FALSE
      OBVIOUS
    <3>1. k < top
      BY <1>1
    <3>2. Extends(k, top)
      BY <1>1, <3>1 DEF Extends
    <3> QED BY <1>1, <1>6, <3>1, <3>2, ChainTopIs
  <2> QED BY <1>6, <2>1, <1>2, <1>3
<1>7. CASE ChainTop(k) # k
  <2>1. Extends(k, ChainTop(k))
    BY <1>5, <1>7, ChainTopIs
  <2>2. ChainTop(k) <= top
    BY <1>4, <1>5, <2>1, ChainTopIs
  <2>3. CASE k = top
    BY <1>1, <1>5, <1>7, <2>2, <2>3
  <2>4. CASE k # top
    <3>1. k < top
      BY <1>1, <2>4
    <3>2. Extends(k, top)
      BY <1>1, <3>1 DEF Extends
    <3>3. top <= ChainTop(k)
      BY <1>1, <3>2, ChainTopIs
    <3> QED BY <1>1, <1>2, <1>3, <1>5, <2>2, <3>3
  <2> QED BY <2>3, <2>4
<1> QED BY <1>6, <1>7

(***************************************************************************)
(* What a layer is made of.                                                *)
(***************************************************************************)
\* MadeOf, of any bases b of n layers.
Closure(n, b, i) ==
  {j \in 1 .. n : \A C \in SUBSET (1 .. n) :
     b[i] \subseteq C /\ (\A k \in C : b[k] \subseteq C) => j \in C}

LowerOnly(n, b) == \A i \in 1 .. n : b[i] \subseteq 1 .. (i - 1)

\* What a layer is made of, as a closure of the bases.
LEMMA MadeOfIsClosure ==
  ASSUME spec \in Specs, NEW i
  PROVE  MadeOf(i) = Closure(Len(spec), bases, i)
BY SpecFields DEF MadeOf, Closure

\* A layer is made of lower ones.
LEMMA ClosureIsBelow ==
  ASSUME NEW n \in Nat, NEW b, LowerOnly(n, b), NEW i \in 1 .. n
  PROVE  Closure(n, b, i) \subseteq 1 .. (i - 1)
<1> DEFINE C == 1 .. (i - 1)
<1>1. C \in SUBSET (1 .. n) /\ b[i] \subseteq C
  BY DEF LowerOnly
<1>2. \A k \in C : b[k] \subseteq C
  <2> TAKE k \in C
  <2>1. k \in 1 .. n /\ 1 .. (k - 1) \subseteq C
    OBVIOUS
  <2> QED BY <2>1 DEF LowerOnly
<1> HIDE DEF C
<1>3. Closure(n, b, i) \subseteq C
  BY <1>1, <1>2 DEF Closure
<1> QED BY <1>3 DEF C

\* A layer without bases is made of nothing else.
LEMMA ClosureOfNone ==
  ASSUME NEW n \in Nat, NEW b, NEW i \in 1 .. n, b[i] = {}
  PROVE  Closure(n, b, i) = {}
<1>1. {} \in SUBSET (1 .. n) /\ b[i] \subseteq {} /\ \A k \in {} : b[k] \subseteq {}
  OBVIOUS
<1> QED BY <1>1 DEF Closure

\* Giving layer g its bases does not change what the layers below it are made of ...
LEMMA ClosureBelowStays ==
  ASSUME NEW n \in Nat, NEW b, NEW c, LowerOnly(n, b), LowerOnly(n, c),
         NEW g \in 1 .. n, \A k \in 1 .. n : k # g => c[k] = b[k],
         NEW i \in 1 .. n, i < g
  PROVE  Closure(n, c, i) = Closure(n, b, i)
<1>1. ASSUME NEW d, NEW e, LowerOnly(n, d), LowerOnly(n, e),
             \A k \in 1 .. n : k # g => d[k] = e[k]
      PROVE  Closure(n, d, i) \subseteq Closure(n, e, i)
  <2> SUFFICES ASSUME NEW j \in Closure(n, d, i),
                      NEW C \in SUBSET (1 .. n), e[i] \subseteq C, \A k \in C : e[k] \subseteq C
               PROVE  j \in C
    BY DEF Closure
  <2> DEFINE D == C \cap (1 .. (i - 1))
  <2>1. D \in SUBSET (1 .. n) /\ d[i] \subseteq D
    BY <1>1 DEF LowerOnly
  <2>2. \A k \in D : d[k] \subseteq D
    <3> TAKE k \in D
    <3>1. k \in 1 .. n /\ k < g /\ d[k] = e[k] /\ e[k] \subseteq C
      BY <1>1
    <3>2. d[k] \subseteq 1 .. (k - 1) /\ 1 .. (k - 1) \subseteq 1 .. (i - 1)
      BY <1>1, <3>1 DEF LowerOnly
    <3> QED BY <3>1, <3>2
  <2> HIDE DEF D
  <2>3. j \in D
    BY <2>1, <2>2 DEF Closure
  <2> QED BY <2>3 DEF D
<1>2. Closure(n, c, i) \subseteq Closure(n, b, i)
  BY <1>1
<1>3. Closure(n, b, i) \subseteq Closure(n, c, i)
  BY <1>1
<1> QED BY <1>2, <1>3

\* ... and makes g of its bases and of what those are made of.
LEMMA ClosureOfBases ==
  ASSUME NEW n \in Nat, NEW b, NEW c, LowerOnly(n, b), LowerOnly(n, c),
         NEW g \in 1 .. n, \A k \in 1 .. n : k # g => c[k] = b[k]
  PROVE  Closure(n, c, g) = UNION {{k} \cup Closure(n, b, k) : k \in c[g]}
<1> DEFINE U == UNION {{k} \cup Closure(n, b, k) : k \in c[g]}
<1>1. c[g] \subseteq 1 .. (g - 1) /\ 1 .. (g - 1) \subseteq 1 .. n
  BY DEF LowerOnly
<1>2. U \subseteq 1 .. (g - 1)
  <2> SUFFICES ASSUME NEW k \in c[g] PROVE {k} \cup Closure(n, b, k) \subseteq 1 .. (g - 1)
    OBVIOUS
  <2>1. k \in 1 .. n /\ k < g
    BY <1>1
  <2>2. Closure(n, b, k) \subseteq 1 .. (k - 1)
    BY <2>1, ClosureIsBelow
  <2> QED BY <2>1, <2>2
<1>3. \A k \in U : c[k] \subseteq U
  <2> TAKE k \in U
  <2>1. k \in 1 .. n /\ c[k] = b[k]
    BY <1>1, <1>2
  <2>2. PICK x \in c[g] : k = x \/ k \in Closure(n, b, x)
    OBVIOUS
  <2>3. b[k] \subseteq Closure(n, b, x)
    <3>1. b[k] \subseteq 1 .. n
      <4>1. 1 .. (k - 1) \subseteq 1 .. n
        BY <2>1
      <4> QED BY <2>1, <4>1 DEF LowerOnly
    <3>2. CASE k = x
      BY <3>1, <3>2 DEF Closure
    <3>3. CASE k \in Closure(n, b, x)
      BY <3>1, <3>3 DEF Closure
    <3> QED BY <2>2, <3>2, <3>3
  <2> QED BY <2>1, <2>3
<1>4. Closure(n, c, g) \subseteq U
  <2>1. U \in SUBSET (1 .. n) /\ c[g] \subseteq U
    BY <1>1, <1>2
  <2> HIDE DEF U
  <2> QED BY <1>3, <2>1 DEF Closure
<1>5. U \subseteq Closure(n, c, g)
  <2> SUFFICES ASSUME NEW x \in c[g], NEW j \in {x} \cup Closure(n, b, x),
                      NEW C \in SUBSET (1 .. n), c[g] \subseteq C, \A k \in C : c[k] \subseteq C
               PROVE  j \in C
    BY <1>1, <1>2 DEF Closure
  <2> DEFINE D == C \cap (1 .. (g - 1))
  <2>1. D \in SUBSET (1 .. n) /\ x \in D
    BY <1>1
  <2>2. \A k \in D : b[k] \subseteq D
    <3> TAKE k \in D
    <3>1. k \in 1 .. n /\ k < g /\ b[k] = c[k] /\ c[k] \subseteq C
      OBVIOUS
    <3>2. b[k] \subseteq 1 .. (k - 1) /\ 1 .. (k - 1) \subseteq 1 .. (g - 1)
      BY <3>1 DEF LowerOnly
    <3> QED BY <3>1, <3>2
  <2>3. b[x] \subseteq D
    BY <2>1, <2>2
  <2> HIDE DEF D
  <2>4. j \in D
    BY <2>1, <2>2, <2>3 DEF Closure
  <2> QED BY <2>4 DEF D
<1> QED BY <1>4, <1>5

(***************************************************************************)
(* The inductive invariant.                                                *)
(***************************************************************************)
StackLayer(n) == [spec : 1 .. n, target : Targets, maskedUnder : SUBSET Targets]

Typed ==
  /\ spec \in Specs
  /\ gi \in 1 .. (Len(spec) + 1)
  /\ view \in [Targets -> 0 .. (gi - 1)]
  /\ behindAt \in [Targets -> SUBSET (1 .. (gi - 1))]
  /\ chainSeen \subseteq Targets
  /\ layers \in Seq(StackLayer(gi - 1))
  /\ bases \in [1 .. Len(spec) -> SUBSET (1 .. Len(spec))]
  /\ LowerOnly(Len(spec), bases)
  /\ \A i \in gi .. Len(spec) : bases[i] = {}
  /\ skipped \subseteq 1 .. (gi - 1)

\* The view of a target is an archive, recorded with all it is made of.
ViewsOK ==
  \A t \in Targets :
    view[t] # 0 => Archive(view[t]) /\ behindAt[t] = {view[t]} \cup MadeOf(view[t])

\* Until the top of its chain is reached a layer is in the view of its target ...
ChainKept ==
  \A i \in 1 .. (gi - 1) :
    i \notin skipped /\ ChainTop(i) >= gi => i \in behindAt[spec[i].target]

\* ... and then in that top, unless it was skipped.
ChainMade ==
  \A i \in 1 .. (gi - 1) :
    i \notin skipped /\ Folded(i) /\ ChainTop(i) < gi =>
      ChainTop(i) \in skipped \/ i \in MadeOf(ChainTop(i))

UnfoldedSurface == \A i \in 1 .. (gi - 1) : i \notin skipped /\ ~Folded(i) => i \in Surfaced

ChainsSeen ==
  \A j \in 1 .. (gi - 1) :
    spec[j].type = "Delta" /\ j \notin skipped => spec[j].target \in chainSeen

\* A zip over a chain, with no delta built over it.
StackedOver(i) ==
  /\ spec[i].type = "Zip" /\ i \notin skipped
  /\ \A j \in DOMAIN spec : ~Follows(i, j) \/ spec[j].type = "Zip" \/ ~BuiltOverOwnTarget(j)
  /\ \E j \in 1 .. (i - 1) :
       spec[j].type = "Delta" /\ spec[j].target = spec[i].target /\ j \notin skipped

OverlaysApart ==
  \A i \in 1 .. (gi - 1) : StackedOver(i) =>
    (\A t \in Targets : view[t] # i) /\ (\A d \in DOMAIN spec : i \notin bases[d])

Inv ==
  /\ Typed
  /\ ViewsOK
  /\ MasksExactlyBases
  /\ ChainKept
  /\ ChainMade
  /\ UnfoldedSurface
  /\ ChainsSeen
  /\ OverlaysApart

(***************************************************************************)
(* The first state.                                                        *)
(***************************************************************************)
LEMMA InvInit == Init => Inv
<1> SUFFICES ASSUME Init PROVE Inv
  OBVIOUS
<1>1. /\ Len(spec) \in Nat /\ DOMAIN spec = 1 .. Len(spec) /\ spec \in Specs
      /\ gi = 1 /\ view = [t \in Targets |-> 0] /\ behindAt = [t \in Targets |-> {}]
      /\ chainSeen = {} /\ layers = << >> /\ skipped = {} /\ bases = [i \in 1 .. Len(spec) |-> {}]
  BY SpecFields DEF Init
<1>2. 1 .. (gi - 1) = {}
  BY <1>1
<1>3. Typed
  <2>1. << >> \in Seq(StackLayer(gi - 1))
    OBVIOUS
  <2>2. LowerOnly(Len(spec), bases)
    BY <1>1 DEF LowerOnly
  <2> QED BY <1>1, <2>1, <2>2 DEF Typed
<1>4. ViewsOK
  BY <1>1 DEF ViewsOK
<1>5. MasksExactlyBases
  BY <1>1 DEF MasksExactlyBases
<1>6. ChainKept /\ ChainMade /\ UnfoldedSurface /\ ChainsSeen /\ OverlaysApart
  BY <1>2 DEF ChainKept, ChainMade, UnfoldedSurface, ChainsSeen, OverlaysApart
<1> QED BY <1>3, <1>4, <1>5, <1>6 DEF Inv

(***************************************************************************)
(* Steps.                                                                  *)
(***************************************************************************)
\* What the spec says of a layer does not change.
LEMMA SpecStays ==
  ASSUME spec' = spec, NEW i
  PROVE  /\ Archive(i)' = Archive(i) /\ BaseTargets(i)' = BaseTargets(i)
         /\ BuiltOverOwnTarget(i)' = BuiltOverOwnTarget(i)
         /\ ChainTop(i)' = ChainTop(i) /\ Folded(i)' = Folded(i)
         /\ \A j : Follows(i, j)' = Follows(i, j)
<1>1. \A k : Archive(k)' = Archive(k) /\ BuiltOverOwnTarget(k)' = BuiltOverOwnTarget(k)
  BY DEF Archive, BuiltOverOwnTarget
<1>2. \A k, j : Extends(k, j)' = Extends(k, j) /\ Follows(k, j)' = Follows(k, j)
  BY <1>1 DEF Extends, Follows
<1>3. {j \in DOMAIN spec : Extends(i, j)}' = {j \in DOMAIN spec : Extends(i, j)}
  BY <1>2
<1>4. ChainTop(i)' = ChainTop(i)
  BY <1>3 DEF ChainTop
<1>5. Folded(i)' = Folded(i)
  BY <1>4 DEF Folded
<1>6. BaseTargets(i)' = BaseTargets(i)
  BY DEF BaseTargets
<1> QED BY <1>1, <1>2, <1>4, <1>5, <1>6

\* What a layer is made of does not change when its bases do not.
LEMMA MadeOfStays ==
  ASSUME spec' = spec, bases' = bases, NEW i
  PROVE  MadeOf(i)' = MadeOf(i)
BY DEF MadeOf

\* A layer that is left out changes nothing but the count.
LEMMA SkippedKeeps == Inv /\ (Unreadable \/ NoBase) => Inv'
<1> SUFFICES ASSUME Inv, Unreadable \/ NoBase PROVE Inv'
  OBVIOUS
<1>1. /\ gi <= Len(spec) /\ gi' = gi + 1 /\ skipped' = skipped \cup {gi}
      /\ spec' = spec /\ view' = view /\ behindAt' = behindAt /\ chainSeen' = chainSeen
      /\ layers' = layers /\ bases' = bases
  BY DEF Unreadable, NoBase
<1>2. /\ spec \in Specs /\ gi \in 1 .. (Len(spec) + 1) /\ Len(spec) \in Nat
      /\ DOMAIN spec = 1 .. Len(spec) /\ Typed
  BY SpecFields DEF Inv, Typed
<1>3. 1 .. (gi' - 1) = 1 .. gi /\ 1 .. (gi - 1) \subseteq 1 .. gi
  BY <1>1, <1>2
<1>4. \A i \in 1 .. (gi' - 1) : i \notin skipped' => i \in 1 .. (gi - 1) /\ i \notin skipped
  BY <1>1, <1>2
<1>5. Typed'
  <2>1. gi' \in 1 .. (Len(spec') + 1) /\ \A i \in gi' .. Len(spec') : bases'[i] = {}
    BY <1>1, <1>2 DEF Typed
  <2>2. view' \in [Targets -> 0 .. (gi' - 1)]
    BY <1>1, <1>2 DEF Typed
  <2>3. behindAt' \in [Targets -> SUBSET (1 .. (gi' - 1))]
    BY <1>1, <1>3, <1>2 DEF Typed
  <2>4. layers' \in Seq(StackLayer(gi' - 1))
    <3>1. StackLayer(gi - 1) \subseteq StackLayer(gi' - 1)
      BY <1>1, <1>3 DEF StackLayer
    <3> QED BY <1>1, <1>2, <3>1 DEF Typed
  <2>5. skipped' \subseteq 1 .. (gi' - 1)
    BY <1>1, <1>2, <1>3 DEF Typed
  <2> QED BY <1>1, <1>2, <2>1, <2>2, <2>3, <2>4, <2>5 DEF Typed, LowerOnly
<1>6. ViewsOK'
  BY <1>1, SpecStays, MadeOfStays DEF Inv, ViewsOK
<1>7. Surfaced' = Surfaced
  BY <1>1 DEF Surfaced
<1>8. MasksExactlyBases'
  BY <1>1, <1>7, MadeOfStays DEF Inv, MasksExactlyBases
<1>9. ChainKept'
  <2> SUFFICES ASSUME NEW i \in 1 .. (gi' - 1), i \notin skipped', ChainTop(i)' >= gi'
               PROVE  i \in behindAt'[spec'[i].target]
    BY DEF ChainKept
  <2>1. i \in 1 .. (gi - 1) /\ i \notin skipped /\ ChainTop(i) >= gi
    BY <1>1, <1>2, <1>4, SpecStays, ChainTopIs
  <2> QED BY <1>1, <2>1 DEF Inv, ChainKept
<1>10. ChainMade'
  <2> SUFFICES ASSUME NEW i \in 1 .. (gi' - 1), i \notin skipped', Folded(i)', ChainTop(i)' < gi'
               PROVE  ChainTop(i)' \in skipped' \/ i \in MadeOf(ChainTop(i))'
    BY DEF ChainMade
  <2>1. /\ i \in 1 .. (gi - 1) /\ i \notin skipped /\ Folded(i)
        /\ ChainTop(i)' = ChainTop(i) /\ ChainTop(i) < gi + 1
    BY <1>1, <1>4, SpecStays
  <2>2. ChainTop(i) \in Nat
    BY <1>2, <2>1, ChainTopIs
  <2>3. CASE ChainTop(i) = gi
    BY <1>1, <2>1, <2>3
  <2>4. CASE ChainTop(i) < gi
    <3>1. ChainTop(i) \in skipped \/ i \in MadeOf(ChainTop(i))
      BY <2>1, <2>4 DEF Inv, ChainMade
    <3>2. MadeOf(ChainTop(i))' = {j \in DOMAIN spec' : \A C \in SUBSET DOMAIN spec' :
             bases'[ChainTop(i)'] \subseteq C /\ (\A k \in C : bases'[k] \subseteq C) => j \in C}
      BY DEF MadeOf
    <3>3. MadeOf(ChainTop(i))' = MadeOf(ChainTop(i))
      BY <1>1, <2>1, <3>2 DEF MadeOf
    <3> QED BY <1>1, <2>1, <3>1, <3>3
  <2> QED BY <1>2, <2>1, <2>2, <2>3, <2>4
<1>11. UnfoldedSurface'
  BY <1>1, <1>4, <1>7, SpecStays DEF Inv, UnfoldedSurface
<1>12. ChainsSeen'
  BY <1>1, <1>4 DEF Inv, ChainsSeen
<1>13. OverlaysApart'
  <2> SUFFICES ASSUME NEW i \in 1 .. (gi' - 1), StackedOver(i)'
               PROVE  (\A t \in Targets : view'[t] # i) /\ (\A d \in DOMAIN spec' : i \notin bases'[d])
    BY DEF OverlaysApart
  <2>1. i \in 1 .. (gi - 1) /\ StackedOver(i)
    <3>1. i \in 1 .. (gi - 1) /\ i \notin skipped
      BY <1>4 DEF StackedOver
    <3> QED BY <1>1, <3>1, SpecStays DEF StackedOver
  <2> QED BY <1>1, <2>1 DEF Inv, OverlaysApart
<1> QED BY <1>5, <1>6, <1>8, <1>9, <1>10, <1>11, <1>12, <1>13 DEF Inv

(***************************************************************************)
(* A layer that is composed.                                               *)
(***************************************************************************)
\* The stack with a layer on top.
LEMMA Mounting ==
  ASSUME Typed, gi <= Len(spec), Behind(gi) \subseteq 1 .. gi
  PROVE  LET M == Mount(gi)
             tops == ToSet(spec[gi].mounts)
         IN  /\ M \in Seq(StackLayer(gi))
             /\ Len(M) = Len(layers) + Len(spec[gi].mounts) /\ Len(spec[gi].mounts) > 0
             /\ \A n \in 1 .. Len(layers) :
                  /\ M[n].spec = layers[n].spec
                  /\ M[n].maskedUnder = layers[n].maskedUnder \cup
                       (IF spec[gi].type = "Delta" /\ layers[n].spec \in Behind(gi) THEN tops ELSE {})
             /\ \A n \in (Len(layers) + 1) .. Len(M) : M[n].spec = gi /\ M[n].maskedUnder = {}
<1> DEFINE tops == ToSet(spec[gi].mounts)
           below == IF spec[gi].type = "Delta" THEN Behind(gi) \ {gi} ELSE {}
           Old == [n \in DOMAIN layers |->
                     IF layers[n].spec \in below THEN [layers[n] EXCEPT !.maskedUnder = @ \cup tops]
                     ELSE layers[n]]
           New == [n \in DOMAIN spec[gi].mounts |->
                     [spec |-> gi, target |-> spec[gi].mounts[n], maskedUnder |-> {}]]
<1>1. /\ gi \in DOMAIN spec /\ gi \in Nat /\ Len(spec) \in Nat
      /\ spec[gi].mounts \in Seq(Targets) /\ spec[gi].mounts # << >>
  BY SpecFields DEF Typed
<1>2. layers \in Seq(StackLayer(gi - 1)) /\ Len(layers) \in Nat /\ DOMAIN layers = 1 .. Len(layers)
  BY DEF Typed
<1>3. Len(spec[gi].mounts) \in Nat /\ Len(spec[gi].mounts) > 0 /\ tops \subseteq Targets
      /\ DOMAIN spec[gi].mounts = 1 .. Len(spec[gi].mounts)
  BY <1>1 DEF ToSet
<1>4. \A n \in 1 .. Len(layers) :
        /\ layers[n] \in StackLayer(gi - 1) /\ layers[n].spec \in 1 .. (gi - 1)
        /\ layers[n].spec # gi
  <2> TAKE n \in 1 .. Len(layers)
  <2>1. layers[n] \in StackLayer(gi - 1)
    BY <1>2
  <2>2. layers[n].spec \in 1 .. (gi - 1)
    BY <2>1 DEF StackLayer
  <2> QED BY <1>1, <2>1, <2>2
<1>5. \A n \in 1 .. Len(layers) :
        /\ Old[n] \in StackLayer(gi) /\ Old[n].spec = layers[n].spec
        /\ Old[n].maskedUnder = layers[n].maskedUnder \cup
             (IF spec[gi].type = "Delta" /\ layers[n].spec \in Behind(gi) THEN tops ELSE {})
  <2> TAKE n \in 1 .. Len(layers)
  <2>1. /\ layers[n] = [spec |-> layers[n].spec, target |-> layers[n].target,
                        maskedUnder |-> layers[n].maskedUnder]
        /\ layers[n].spec \in 1 .. gi /\ layers[n].target \in Targets
        /\ layers[n].maskedUnder \subseteq Targets /\ layers[n].spec # gi
    <3>1. layers[n] \in StackLayer(gi - 1) /\ layers[n].spec \in 1 .. (gi - 1)
      BY <1>4
    <3> QED BY <1>1, <3>1 DEF StackLayer
  <2>2. Old[n] = IF layers[n].spec \in below THEN [layers[n] EXCEPT !.maskedUnder = @ \cup tops]
                 ELSE layers[n]
    BY <1>2
  <2>3. layers[n].spec \in below <=> spec[gi].type = "Delta" /\ layers[n].spec \in Behind(gi)
    BY <2>1
  <2> HIDE DEF tops, below, Old
  <2>4. CASE layers[n].spec \in below
    <3>1. Old[n] = [spec |-> layers[n].spec, target |-> layers[n].target,
                    maskedUnder |-> layers[n].maskedUnder \cup tops]
      BY <2>1, <2>2, <2>4
    <3> QED BY <1>3, <2>1, <2>3, <2>4, <3>1 DEF StackLayer
  <2>5. CASE layers[n].spec \notin below
    BY <2>1, <2>2, <2>3, <2>5 DEF StackLayer
  <2> QED BY <2>4, <2>5
<1>6. \A n \in 1 .. Len(spec[gi].mounts) :
        New[n] \in StackLayer(gi) /\ New[n].spec = gi /\ New[n].maskedUnder = {}
  <2> TAKE n \in 1 .. Len(spec[gi].mounts)
  <2>1. New[n] = [spec |-> gi, target |-> spec[gi].mounts[n], maskedUnder |-> {}]
    BY <1>3
  <2>2. spec[gi].mounts[n] \in Targets
    BY <1>1, <1>3
  <2> QED BY <1>1, <2>1, <2>2 DEF StackLayer
<1>7. Old \in Seq(StackLayer(gi)) /\ Len(Old) = Len(layers)
  <2>1. DOMAIN Old = 1 .. Len(layers)
    BY <1>2
  <2>2. Old \in [1 .. Len(layers) -> StackLayer(gi)]
    BY <1>2, <1>5
  <2> HIDE DEF Old
  <2> QED BY <1>2, <2>1, <2>2
<1>8. New \in Seq(StackLayer(gi)) /\ Len(New) = Len(spec[gi].mounts)
  <2>1. New \in [1 .. Len(spec[gi].mounts) -> StackLayer(gi)]
    BY <1>3, <1>6
  <2>2. DOMAIN New = 1 .. Len(spec[gi].mounts)
    BY <1>3
  <2> HIDE DEF New
  <2> QED BY <1>3, <2>1, <2>2
<1>9. Mount(gi) = Old \o New
  BY DEF Mount
<1> HIDE DEF Old, New, tops
<1>10. Old \o New \in Seq(StackLayer(gi)) /\ Len(Old \o New) = Len(layers) + Len(spec[gi].mounts)
  BY <1>7, <1>8
<1>11. \A n \in 1 .. Len(layers) : (Old \o New)[n] = Old[n]
  BY <1>2, <1>7, <1>8
<1>12. \A n \in (Len(layers) + 1) .. (Len(layers) + Len(spec[gi].mounts)) :
         n - Len(layers) \in 1 .. Len(spec[gi].mounts) /\ (Old \o New)[n] = New[n - Len(layers)]
  BY <1>2, <1>3, <1>7, <1>8
<1>13. \A n \in 1 .. Len(layers) :
         /\ (Old \o New)[n].spec = layers[n].spec
         /\ (Old \o New)[n].maskedUnder = layers[n].maskedUnder \cup
              (IF spec[gi].type = "Delta" /\ layers[n].spec \in Behind(gi) THEN tops ELSE {})
  BY <1>5, <1>11
<1>14. \A n \in (Len(layers) + 1) .. Len(Old \o New) :
         (Old \o New)[n].spec = gi /\ (Old \o New)[n].maskedUnder = {}
  BY <1>6, <1>10, <1>12
<1> QED BY <1>3, <1>9, <1>10, <1>13, <1>14 DEF tops

\* What composing a layer does to what the layers are made of: the record kept
\* beside the views (behindAt) is the new layer's.
LEMMA Composing ==
  ASSUME Inv, Compose, NEW g, g = gi
  PROVE  /\ gi \in 1 .. Len(spec) /\ Len(spec) \in Nat /\ DOMAIN spec = 1 .. Len(spec)
         /\ spec' = spec /\ gi' = gi + 1
         /\ bases' \in [1 .. Len(spec) -> SUBSET (1 .. Len(spec))] /\ LowerOnly(Len(spec), bases')
         /\ \A k \in 1 .. Len(spec) : k # gi => bases'[k] = bases[k]
         /\ \A i \in 1 .. (gi - 1) : MadeOf(i)' = MadeOf(i)
         /\ MadeOf(g)' \subseteq 1 .. (gi - 1) /\ Behind(gi) = {gi} \cup MadeOf(g)'
         /\ spec[gi].type # "Delta" => MadeOf(g)' = {}
         /\ spec[gi].type = "Delta" => \A t \in BaseTargets(gi) : behindAt[t] \subseteq MadeOf(g)'
         /\ \A k \in bases'[gi] : \E t \in Targets : k = view[t]
<1> DEFINE n == Len(spec)
           X == IF spec[gi].type = "Delta" THEN {view[t] : t \in BaseTargets(gi)} ELSE {}
<1>1. /\ gi \in 1 .. n /\ n \in Nat /\ DOMAIN spec = 1 .. n /\ spec \in Specs
      /\ spec' = spec /\ gi' = gi + 1 /\ Typed
  BY SpecFields DEF Inv, Typed, Compose
<1>2. bases' = [bases EXCEPT ![gi] = X]
  BY DEF Compose
<1>3. /\ BaseTargets(gi) \subseteq Targets
      /\ spec[gi].type = "Delta" => \A t \in BaseTargets(gi) : view[t] \in 1 .. (gi - 1)
  <2>1. BaseTargets(gi) \subseteq Targets
    BY <1>1, SpecFields
  <2>2. \A t \in Targets : view[t] \in 0 .. (gi - 1)
    BY <1>1 DEF Typed
  <2>3. spec[gi].type = "Delta" => \A t \in BaseTargets(gi) : view[t] # 0
    BY DEF Compose
  <2> QED BY <1>1, <2>1, <2>2, <2>3
<1>4. X \subseteq 1 .. (gi - 1)
  BY <1>3
<1>5. /\ bases \in [1 .. n -> SUBSET (1 .. n)] /\ LowerOnly(n, bases)
  BY <1>1 DEF Typed
<1>6. bases'[gi] = X /\ \A k \in 1 .. n : k # gi => bases'[k] = bases[k]
  BY <1>1, <1>2, <1>5
<1>7. bases' \in [1 .. n -> SUBSET (1 .. n)]
  <2>1. X \subseteq 1 .. n
    BY <1>1, <1>4
  <2> HIDE DEF X
  <2> QED BY <1>1, <1>2, <1>5, <2>1
<1>8. LowerOnly(n, bases')
  BY <1>1, <1>4, <1>5, <1>6 DEF LowerOnly
<1>9. \A i : MadeOf(i) = Closure(n, bases, i) /\ MadeOf(i)' = Closure(n, bases', i)
  BY <1>1 DEF MadeOf, Closure
<1> HIDE DEF n, X
<1>10. \A i \in 1 .. (gi - 1) : MadeOf(i)' = MadeOf(i)
  <2> TAKE i \in 1 .. (gi - 1)
  <2>1. i \in 1 .. n /\ i < gi
    BY <1>1
  <2>2. Closure(n, bases', i) = Closure(n, bases, i)
    BY <1>1, <1>5, <1>6, <1>8, <2>1, ClosureBelowStays
  <2> QED BY <1>9, <2>2
<1>11. MadeOf(g)' \subseteq 1 .. (gi - 1)
  BY <1>1, <1>8, <1>9, ClosureIsBelow
<1>12. MadeOf(g)' = UNION {{k} \cup MadeOf(k) : k \in X}
  <2>1. Closure(n, bases', gi) = UNION {{k} \cup Closure(n, bases, k) : k \in bases'[gi]}
    BY <1>1, <1>5, <1>6, <1>8, ClosureOfBases
  <2>2. MadeOf(g)' = UNION {{k} \cup Closure(n, bases, k) : k \in X}
    BY <1>6, <1>9, <2>1
  <2>3. \A k \in X : Closure(n, bases, k) = MadeOf(k)
    BY <1>9
  <2> QED BY <2>2, <2>3
<1>13. CASE spec[gi].type = "Delta"
  <2>1. X = {view[t] : t \in BaseTargets(gi)}
    BY <1>13 DEF X
  <2>2. \A t \in BaseTargets(gi) : behindAt[t] = {view[t]} \cup MadeOf(view[t])
    BY <1>1, <1>3, <1>13 DEF Inv, ViewsOK
  <2>3. MadeOf(g)' = UNION {behindAt[t] : t \in BaseTargets(gi)}
    <3>1. \A j : j \in MadeOf(g)' <=> \E k \in X : j \in {k} \cup MadeOf(k)
      BY <1>12
    <3>2. \A j : (\E k \in X : j \in {k} \cup MadeOf(k)) <=>
                 \E t \in BaseTargets(gi) : j \in {view[t]} \cup MadeOf(view[t])
      BY <2>1
    <3> QED BY <3>1, <3>2, <2>2
  <2>4. Behind(gi) = {gi} \cup MadeOf(g)'
    BY <1>13, <2>3 DEF Behind
  <2>5. \A t \in BaseTargets(gi) : behindAt[t] \subseteq MadeOf(g)'
    BY <2>3
  <2>6. \A k \in bases'[gi] : \E t \in Targets : k = view[t]
    BY <1>3, <1>6, <2>1
  <2> QED BY <1>1, <1>6, <1>7, <1>8, <1>10, <1>11, <1>13, <2>4, <2>5, <2>6 DEF n
<1>14. CASE spec[gi].type # "Delta"
  <2>1. X = {}
    BY <1>14 DEF X
  <2>2. MadeOf(g)' = {}
    BY <1>12, <2>1
  <2>3. Behind(gi) = {gi} \cup MadeOf(g)'
    BY <1>14, <2>2 DEF Behind
  <2> QED BY <1>1, <1>6, <1>7, <1>8, <1>10, <1>11, <1>14, <2>1, <2>2, <2>3 DEF n
<1> QED BY <1>13, <1>14

\* How the stack and the skipped layers change with it.
LEMMA Stacking ==
  ASSUME Inv, Add \/ Unindexed
  PROVE  /\ Compose
         /\ layers' \in Seq(StackLayer(gi)) /\ skipped' \subseteq skipped \cup {gi}
         /\ skipped \subseteq skipped'
         /\ gi \notin skipped' => (Folded(gi) \/ gi \in Surfaced')
         /\ Surfaced \subseteq Surfaced' /\ Surfaced' \subseteq Surfaced \cup {gi}
         /\ Surfaced \subseteq 1 .. (gi - 1)
         /\ \A m \in 1 .. Len(layers') :
              \/ /\ m \in 1 .. Len(layers) /\ layers'[m].spec = layers[m].spec
                 /\ layers'[m].maskedUnder = layers[m].maskedUnder \cup
                      (IF gi \in Surfaced' /\ spec[gi].type = "Delta" /\ layers[m].spec \in Behind(gi)
                       THEN ToSet(spec[gi].mounts) ELSE {})
              \/ layers'[m].spec = gi /\ layers'[m].maskedUnder = {}
<1>1. /\ Compose
      /\ \/ layers' = Mount(gi) /\ skipped' = skipped
         \/ layers' = layers /\ (Folded(gi) \/ gi \in skipped') /\ skipped' \in {skipped, skipped \cup {gi}}
  BY DEF Add, Unindexed
<1>2. /\ Typed /\ gi \in 1 .. Len(spec) /\ Behind(gi) \subseteq 1 .. gi
  BY <1>1, Composing DEF Inv
<1>3. layers \in Seq(StackLayer(gi - 1)) /\ Len(layers) \in Nat /\ DOMAIN layers = 1 .. Len(layers)
  BY <1>2 DEF Typed
<1>4. \A m \in 1 .. Len(layers) : layers[m] \in StackLayer(gi - 1) /\ layers[m].spec \in 1 .. (gi - 1)
  <2> TAKE m \in 1 .. Len(layers)
  <2>1. layers[m] \in StackLayer(gi - 1)
    BY <1>3
  <2> QED BY <2>1 DEF StackLayer
<1>5. Surfaced \subseteq 1 .. (gi - 1)
  BY <1>3, <1>4 DEF Surfaced
<1>6. CASE layers' = layers /\ (Folded(gi) \/ gi \in skipped') /\ skipped' \in {skipped, skipped \cup {gi}}
  <2>1. Surfaced' = Surfaced /\ gi \notin Surfaced
    <3>1. layers' = layers
      BY <1>6
    <3>2. Surfaced' = Surfaced
      BY <3>1 DEF Surfaced
    <3>3. gi \notin 1 .. (gi - 1)
      BY <1>2
    <3> QED BY <1>5, <3>2, <3>3
  <2>2. layers' \in Seq(StackLayer(gi))
    <3>1. StackLayer(gi - 1) \subseteq StackLayer(gi)
      BY <1>2 DEF StackLayer
    <3> QED BY <1>3, <1>6, <3>1
  <2> QED BY <1>1, <1>3, <1>5, <1>6, <2>1, <2>2
<1>7. CASE layers' = Mount(gi) /\ skipped' = skipped
  <2>1. /\ layers' \in Seq(StackLayer(gi))
        /\ Len(layers') = Len(layers) + Len(spec[gi].mounts) /\ Len(spec[gi].mounts) > 0
        /\ \A m \in 1 .. Len(layers) :
             /\ layers'[m].spec = layers[m].spec
             /\ layers'[m].maskedUnder = layers[m].maskedUnder \cup
                  (IF spec[gi].type = "Delta" /\ layers[m].spec \in Behind(gi)
                   THEN ToSet(spec[gi].mounts) ELSE {})
        /\ \A m \in (Len(layers) + 1) .. Len(layers') :
             layers'[m].spec = gi /\ layers'[m].maskedUnder = {}
    BY <1>2, <1>7, Mounting
  <2>2. DOMAIN layers' = 1 .. Len(layers') /\ Len(layers') \in Nat /\ Len(spec[gi].mounts) \in Nat
    <3>1. Len(spec[gi].mounts) \in Nat
      BY <1>2, SpecFields DEF Typed
    <3> QED BY <2>1, <3>1
  <2>3. Len(layers) + 1 \in (Len(layers) + 1) .. Len(layers')
    BY <1>3, <2>1, <2>2
  <2>4. gi \in Surfaced'
    <3>1. Len(layers) + 1 \in DOMAIN layers' /\ layers'[Len(layers) + 1].spec = gi
      BY <1>3, <2>1, <2>2, <2>3
    <3> QED BY <3>1 DEF Surfaced
  <2>5. Surfaced \subseteq Surfaced'
    <3> SUFFICES ASSUME NEW m \in 1 .. Len(layers) PROVE layers[m].spec \in Surfaced'
      BY <1>3 DEF Surfaced
    <3>1. m \in DOMAIN layers' /\ layers'[m].spec = layers[m].spec
      BY <1>3, <2>1, <2>2
    <3> QED BY <3>1 DEF Surfaced
  <2>6. \A m \in 1 .. Len(layers') : m \in 1 .. Len(layers) \/ m \in (Len(layers) + 1) .. Len(layers')
    BY <1>3, <2>2
  <2>7. Surfaced' \subseteq Surfaced \cup {gi}
    <3> SUFFICES ASSUME NEW m \in 1 .. Len(layers') PROVE layers'[m].spec \in Surfaced \cup {gi}
      BY <2>2 DEF Surfaced
    <3>1. CASE m \in 1 .. Len(layers)
      BY <1>3, <2>1, <3>1 DEF Surfaced
    <3>2. CASE m \in (Len(layers) + 1) .. Len(layers')
      BY <2>1, <3>2
    <3> QED BY <2>6, <3>1, <3>2
  <2> QED BY <1>1, <1>5, <1>7, <2>1, <2>4, <2>5, <2>6, <2>7
<1> QED BY <1>1, <1>6, <1>7

\* A layer that is put on the stack keeps it well typed.
LEMMA ComposedTyped == Inv /\ (Add \/ Unindexed) => Typed'
<1> SUFFICES ASSUME Inv, Add \/ Unindexed PROVE Typed'
  OBVIOUS
<1>1. /\ Compose /\ layers' \in Seq(StackLayer(gi)) /\ skipped' \subseteq skipped \cup {gi}
  BY Stacking
<1>2. /\ gi \in 1 .. Len(spec) /\ Len(spec) \in Nat /\ DOMAIN spec = 1 .. Len(spec)
      /\ spec' = spec /\ gi' = gi + 1
      /\ bases' \in [1 .. Len(spec) -> SUBSET (1 .. Len(spec))] /\ LowerOnly(Len(spec), bases')
      /\ \A k \in 1 .. Len(spec) : k # gi => bases'[k] = bases[k]
      /\ Behind(gi) \subseteq 1 .. gi
  <2>1. \A g : g = gi => MadeOf(g)' \subseteq 1 .. (gi - 1) /\ Behind(gi) = {gi} \cup MadeOf(g)'
    BY <1>1, Composing
  <2>2. PICK g : g = gi
    OBVIOUS
  <2>3. gi \in 1 .. Len(spec)
    BY <1>1, <2>2, Composing
  <2>4. Behind(gi) \subseteq 1 .. gi
    BY <2>1, <2>2, <2>3
  <2> QED BY <1>1, <2>2, <2>4, Composing
<1>3. Typed /\ gi' - 1 = gi /\ 1 .. (gi - 1) \subseteq 1 .. gi /\ gi \in 1 .. gi
  BY <1>2 DEF Inv
<1>4. spec[gi].target \in Targets /\ spec \in Specs
  BY <1>2, <1>3, SpecFields DEF Typed
<1>5. view' \in [Targets -> 0 .. gi]
  <2>1. view \in [Targets -> 0 .. gi]
    BY <1>2, <1>3 DEF Typed
  <2>2. view' = view \/ view' = [view EXCEPT ![spec[gi].target] = gi]
    BY <1>1 DEF Compose
  <2> QED BY <1>2, <1>4, <2>1, <2>2
<1>6. behindAt' \in [Targets -> SUBSET (1 .. gi)]
  <2>1. behindAt \in [Targets -> SUBSET (1 .. gi)]
    BY <1>3 DEF Typed
  <2>2. behindAt' = behindAt \/ behindAt' = [behindAt EXCEPT ![spec[gi].target] = Behind(gi)]
    BY <1>1 DEF Compose
  <2> QED BY <1>2, <1>4, <2>1, <2>2
<1>7. chainSeen' \subseteq Targets
  BY <1>1, <1>3, <1>4 DEF Compose, Typed
<1>8. \A i \in gi' .. Len(spec') : bases'[i] = {}
  BY <1>2, <1>3 DEF Typed
<1>9. skipped' \subseteq 1 .. gi
  BY <1>1, <1>3 DEF Typed
<1>10. gi' \in 1 .. (Len(spec') + 1)
  BY <1>2
<1> QED BY <1>1, <1>2, <1>3, <1>4, <1>5, <1>6, <1>7, <1>8, <1>9, <1>10 DEF Typed

\* The view of a target is recorded with what it is made of.
LEMMA ComposedViews == Inv /\ (Add \/ Unindexed) => ViewsOK'
<1> SUFFICES ASSUME Inv, Add \/ Unindexed PROVE ViewsOK'
  OBVIOUS
<1>1. PICK g : g = gi
  OBVIOUS
<1>2. Compose /\ Typed
  BY Stacking DEF Inv
<1>3. /\ g \in 1 .. Len(spec) /\ DOMAIN spec = 1 .. Len(spec) /\ spec' = spec
      /\ \A i \in 1 .. (gi - 1) : MadeOf(i)' = MadeOf(i)
      /\ Behind(gi) = {gi} \cup MadeOf(g)'
  BY <1>1, <1>2, Composing
<1>4. \A i : Archive(i)' = Archive(i)
  BY <1>3, SpecStays
<1> SUFFICES ASSUME NEW t \in Targets, view'[t] # 0
             PROVE  Archive(view[t])' /\ behindAt'[t] = {view'[t]} \cup MadeOf(view[t])'
  BY DEF ViewsOK
<1>5. PICK k : k = view'[t]
  OBVIOUS
<1>6. Archive(view[t])' = Archive(k)' /\ MadeOf(view[t])' = MadeOf(k)'
  BY <1>5 DEF Archive, MadeOf
<1>7. CASE AdvancesView(gi) /\ t = spec[gi].target
  <2>1. view'[t] = gi /\ behindAt'[t] = Behind(gi)
    BY <1>2, <1>7 DEF Compose, Typed
  <2>2. Archive(gi)
    BY <1>7 DEF AdvancesView
  <2>3. k = g /\ Archive(k)'
    BY <1>1, <1>4, <1>5, <2>1, <2>2
  <2> QED BY <1>1, <1>3, <1>6, <2>1, <2>3
<1>8. CASE ~(AdvancesView(gi) /\ t = spec[gi].target)
  <2>1. view'[t] = view[t] /\ behindAt'[t] = behindAt[t]
    BY <1>2, <1>8 DEF Compose, Typed
  <2>2. k = view[t] /\ k \in 1 .. (gi - 1)
    <3>1. view[t] \in 0 .. (gi - 1) /\ gi \in Nat
      BY <1>2 DEF Typed
    <3> QED BY <1>5, <2>1, <3>1
  <2>3. Archive(k) /\ behindAt[t] = {k} \cup MadeOf(k)
    BY <2>1, <2>2 DEF Inv, ViewsOK
  <2> QED BY <1>3, <1>4, <1>5, <1>6, <2>1, <2>2, <2>3
<1> QED BY <1>7, <1>8

\* A delta masks what it is made of where it surfaces, and nothing else.
LEMMA ComposedMasks == Inv /\ (Add \/ Unindexed) => MasksExactlyBases'
<1> SUFFICES ASSUME Inv, Add \/ Unindexed PROVE MasksExactlyBases'
  OBVIOUS
<1>1. PICK g : g = gi
  OBVIOUS
<1>2. Compose /\ Typed /\ layers' \in Seq(StackLayer(gi))
  BY Stacking DEF Inv
<1>3. /\ g \in 1 .. Len(spec) /\ spec' = spec /\ spec \in Specs /\ Len(spec) \in Nat
      /\ \A i \in 1 .. (gi - 1) : MadeOf(i)' = MadeOf(i)
      /\ Behind(gi) = {gi} \cup MadeOf(g)' /\ MadeOf(g)' \subseteq 1 .. (gi - 1)
      /\ spec[gi].type # "Delta" => MadeOf(g)' = {}
  BY <1>1, <1>2, Composing DEF Typed
<1>4. /\ Surfaced \subseteq 1 .. (gi - 1) /\ Surfaced \subseteq Surfaced'
      /\ Surfaced' \subseteq Surfaced \cup {gi}
  BY Stacking
<1>5. \A e \in 1 .. (gi - 1) : MadeOf(e)' \subseteq 1 .. (gi - 1)
  <2> TAKE e \in 1 .. (gi - 1)
  <2>1. e \in 1 .. Len(spec) /\ LowerOnly(Len(spec), bases)
    BY <1>1, <1>2, <1>3 DEF Typed
  <2>2. MadeOf(e) \subseteq 1 .. (e - 1)
    BY <1>3, <2>1, MadeOfIsClosure, ClosureIsBelow
  <2>3. 1 .. (e - 1) \subseteq 1 .. (gi - 1)
    BY <1>1, <1>3
  <2> QED BY <1>3, <2>2, <2>3
<1> SUFFICES ASSUME NEW m \in DOMAIN layers'
             PROVE  layers'[m].maskedUnder =
                      UNION {ToSet(spec[d].mounts) : d \in {e \in Surfaced' : layers'[m].spec \in MadeOf(e)'}}
  BY <1>3 DEF MasksExactlyBases
<1>6. m \in 1 .. Len(layers')
  BY <1>2
<1> DEFINE made == {e \in Surfaced' : layers'[m].spec \in MadeOf(e)'}
<1>7. CASE layers'[m].spec = gi /\ layers'[m].maskedUnder = {}
  <2>1. \A e \in Surfaced' : gi \notin MadeOf(e)'
    <3> TAKE e \in Surfaced'
    <3>1. e \in 1 .. (gi - 1) \/ e = g
      BY <1>1, <1>4
    <3>2. MadeOf(e)' \subseteq 1 .. (gi - 1)
      BY <1>3, <1>5, <3>1
    <3>3. gi \notin 1 .. (gi - 1)
      BY <1>1, <1>3
    <3> QED BY <3>2, <3>3
  <2>2. made = {}
    BY <1>7, <2>1
  <2> QED BY <1>7, <2>2
<1>8. CASE /\ m \in 1 .. Len(layers) /\ layers'[m].spec = layers[m].spec
           /\ layers'[m].maskedUnder = layers[m].maskedUnder \cup
                (IF gi \in Surfaced' /\ spec[gi].type = "Delta" /\ layers[m].spec \in Behind(gi)
                 THEN ToSet(spec[gi].mounts) ELSE {})
  <2> DEFINE old == {e \in Surfaced : layers[m].spec \in MadeOf(e)}
  <2>1. m \in DOMAIN layers /\ layers[m].spec \in 1 .. (gi - 1) /\ layers[m].spec # gi
    <3>1. m \in DOMAIN layers /\ layers[m] \in StackLayer(gi - 1)
      BY <1>2, <1>8 DEF Typed
    <3>2. layers[m].spec \in 1 .. (gi - 1)
      BY <3>1 DEF StackLayer
    <3> QED BY <1>1, <1>3, <3>1, <3>2
  <2>2. layers[m].maskedUnder = UNION {ToSet(spec[d].mounts) : d \in old}
    BY <2>1 DEF Inv, MasksExactlyBases
  <2>3. gi \in Surfaced' /\ spec[gi].type = "Delta" /\ layers[m].spec \in Behind(gi) <=> gi \in made
    <3>1. layers[m].spec \in Behind(gi) <=> layers[m].spec \in MadeOf(g)'
      BY <1>3, <2>1
    <3>2. gi \in made <=> gi \in Surfaced' /\ layers[m].spec \in MadeOf(g)'
      BY <1>1, <1>8
    <3> QED BY <1>3, <3>1, <3>2
  <2>4. \A e : e # gi => (e \in made <=> e \in old)
    <3> TAKE e
    <3> HAVE e # gi
    <3>1. e \in Surfaced' <=> e \in Surfaced
      BY <1>4
    <3>2. e \in Surfaced => MadeOf(e)' = MadeOf(e)
      BY <1>3, <1>4
    <3> QED BY <1>8, <3>1, <3>2
  <2>5. gi \notin old
    BY <1>1, <1>3, <1>4
  <2> HIDE DEF made, old
  <2>6. CASE gi \in made
    <3>1. made = old \cup {gi}
      BY <2>4, <2>6
    <3>2. layers'[m].maskedUnder = layers[m].maskedUnder \cup ToSet(spec[gi].mounts)
      BY <1>8, <2>3, <2>6
    <3> QED BY <2>2, <3>1, <3>2 DEF made
  <2>7. CASE gi \notin made
    <3>1. made = old
      BY <2>4, <2>5, <2>7
    <3>2. layers'[m].maskedUnder = layers[m].maskedUnder
      BY <1>8, <2>3, <2>7
    <3> QED BY <2>2, <3>1, <3>2 DEF made
  <2> QED BY <2>6, <2>7
<1> QED BY <1>6, <1>7, <1>8, Stacking

\* A chain stays together until its top is composed over all of it.
LEMMA ComposedChains == Inv /\ (Add \/ Unindexed) => ChainKept' /\ ChainMade' /\ UnfoldedSurface'
<1> SUFFICES ASSUME Inv, Add \/ Unindexed PROVE ChainKept' /\ ChainMade' /\ UnfoldedSurface'
  OBVIOUS
<1>1. PICK g : g = gi
  OBVIOUS
<1>2. /\ Compose /\ Typed /\ skipped \subseteq skipped' /\ skipped' \subseteq skipped \cup {gi}
      /\ gi \notin skipped' => Folded(gi) \/ gi \in Surfaced'
      /\ Surfaced \subseteq Surfaced'
  BY Stacking DEF Inv
<1>3. /\ gi \in 1 .. Len(spec) /\ DOMAIN spec = 1 .. Len(spec) /\ Len(spec) \in Nat
      /\ spec \in Specs /\ spec' = spec /\ gi' = gi + 1
      /\ \A i \in 1 .. (gi - 1) : MadeOf(i)' = MadeOf(i)
      /\ Behind(gi) = {gi} \cup MadeOf(g)'
      /\ spec[gi].type = "Delta" => \A t \in BaseTargets(gi) : behindAt[t] \subseteq MadeOf(g)'
  BY <1>1, <1>2, Composing DEF Typed
<1>4. \A i : ChainTop(i)' = ChainTop(i) /\ Folded(i)' = Folded(i)
  BY <1>3, SpecStays
<1>5. \A i \in 1 .. (gi' - 1) : i = gi \/ (i \in 1 .. (gi - 1) /\ i \in DOMAIN spec)
  BY <1>3
<1>6. /\ AdvancesView(gi) => behindAt' = [behindAt EXCEPT ![spec[gi].target] = Behind(gi)]
      /\ ~AdvancesView(gi) => behindAt' = behindAt
      /\ \A t \in Targets : behindAt \in [Targets -> SUBSET (1 .. (gi - 1))]
  BY <1>2 DEF Compose, Typed
<1>7. \A i \in DOMAIN spec : spec[i].target \in Targets
  BY <1>3, SpecFields
\* Layer i of a chain not yet at its top, when the next archive is composed.
<1>8. ASSUME NEW i \in 1 .. (gi - 1), i \notin skipped, gi <= ChainTop(i),
             Archive(gi), spec[gi].target = spec[i].target
      PROVE  /\ ChainTop(gi) = ChainTop(i)
             /\ i \in MadeOf(g)'
  <2>1. i \in DOMAIN spec /\ i < gi /\ gi \in DOMAIN spec
    BY <1>3
  <2>2. /\ spec[gi].type = "Delta" /\ spec[gi].target \in BaseTargets(gi)
        /\ ChainTop(gi) = ChainTop(i)
    BY <1>3, <1>8, <2>1, ChainGoesUp
  <2>3. i \in behindAt[spec[i].target]
    <3>1. ChainTop(i) >= gi
      BY <1>3, <1>8, <2>1, ChainTopIs
    <3> QED BY <1>8, <3>1 DEF Inv, ChainKept
  <2> QED BY <1>3, <1>8, <2>2, <2>3
<1>9. ChainKept'
  <2> SUFFICES ASSUME NEW i \in 1 .. (gi' - 1), i \notin skipped', ChainTop(i)' >= gi'
               PROVE  i \in behindAt'[spec'[i].target]
    BY DEF ChainKept
  <2>1. ChainTop(i) >= gi + 1
    BY <1>3, <1>4
  <2>2. CASE i = gi
    <3>1. ChainTop(gi) # 0 /\ Archive(gi)
      BY <1>3, <2>1, <2>2, ChainTopIs
    <3>2. AdvancesView(gi)
      BY <3>1 DEF AdvancesView
    <3> QED BY <1>3, <1>6, <1>7, <2>2, <3>2
  <2>3. CASE i \in 1 .. (gi - 1) /\ i \in DOMAIN spec
    <3>1. i \notin skipped /\ gi <= ChainTop(i)
      <4>1. ChainTop(i) \in 0 .. Len(spec)
        BY <1>3, <2>3, ChainTopIs
      <4> QED BY <1>2, <1>3, <2>1, <4>1
    <3>2. i \in behindAt[spec[i].target]
      <4>1. ChainTop(i) >= gi
        BY <1>3, <2>3, <3>1, ChainTopIs
      <4> QED BY <2>3, <3>1, <4>1 DEF Inv, ChainKept
    <3>3. CASE AdvancesView(gi) /\ spec[gi].target = spec[i].target
      <4>1. Archive(gi)
        BY <3>3 DEF AdvancesView
      <4>2. i \in Behind(gi)
        BY <1>3, <1>8, <2>3, <3>1, <3>3, <4>1
      <4> QED BY <1>3, <1>6, <1>7, <3>3, <4>2
    <3>4. CASE ~(AdvancesView(gi) /\ spec[gi].target = spec[i].target)
      <4>1. behindAt'[spec[i].target] = behindAt[spec[i].target]
        BY <1>3, <1>6, <1>7, <2>3, <3>4
      <4> QED BY <1>3, <3>2, <4>1
    <3> QED BY <3>3, <3>4
  <2> QED BY <1>5, <2>2, <2>3
<1>10. ChainMade'
  <2> SUFFICES ASSUME NEW i \in 1 .. (gi' - 1), i \notin skipped', Folded(i)', ChainTop(i)' < gi'
               PROVE  ChainTop(i)' \in skipped' \/ i \in MadeOf(ChainTop(i))'
    BY DEF ChainMade
  <2>1. PICK top : top = ChainTop(i)
    OBVIOUS
  <2>2. ChainTop(i)' = top /\ MadeOf(ChainTop(i))' = MadeOf(top)'
    BY <1>4, <2>1 DEF MadeOf
  <2>3. Folded(i) /\ top < gi + 1 /\ i \in DOMAIN spec /\ i \notin skipped
    BY <1>2, <1>3, <1>4, <1>5, <2>2
  <2>4. top \in Nat /\ top > i /\ Extends(i, top) /\ top \in DOMAIN spec
    <3>1. top # 0 /\ top # i
      BY <2>1, <2>3 DEF Folded
    <3>2. Extends(i, top) /\ top \in 0 .. Len(spec) /\ top >= i
      BY <1>3, <2>1, <2>3, <3>1, ChainTopIs
    <3> QED BY <1>3, <2>3, <3>1, <3>2
  <2>5. i \in 1 .. (gi - 1)
    BY <1>3, <2>3, <2>4
  <2>6. CASE top = gi
    <3>1. Archive(gi) /\ spec[gi].target = spec[i].target
      BY <2>4, <2>6 DEF Extends
    <3>2. i \in MadeOf(g)'
      <4>1. gi <= ChainTop(i)
        BY <1>3, <2>1, <2>6
      <4> QED BY <1>8, <2>3, <2>5, <3>1, <4>1
    <3>3. top = g
      BY <1>1, <2>6
    <3> QED BY <2>2, <3>2, <3>3
  <2>7. CASE top # gi
    <3>1. top < gi /\ top \in 1 .. (gi - 1)
      BY <1>3, <2>3, <2>4, <2>7
    <3>2. top \in skipped \/ i \in MadeOf(top)
      BY <2>1, <2>3, <2>5, <3>1 DEF Inv, ChainMade
    <3> QED BY <1>2, <1>3, <2>2, <3>1, <3>2
  <2> QED BY <2>6, <2>7
<1>11. UnfoldedSurface'
  <2> SUFFICES ASSUME NEW i \in 1 .. (gi' - 1), i \notin skipped', ~Folded(i)'
               PROVE  i \in Surfaced'
    BY DEF UnfoldedSurface
  <2>1. ~Folded(i)
    BY <1>4
  <2>2. CASE i = gi
    BY <1>2, <2>1, <2>2
  <2>3. CASE i \in 1 .. (gi - 1)
    BY <1>2, <2>1, <2>3 DEF Inv, UnfoldedSurface
  <2> QED BY <1>5, <2>2, <2>3
<1> QED BY <1>9, <1>10, <1>11

\* No chain begins with a zip that no delta is built over.
LEMMA StackedOverIsApart ==
  ASSUME spec \in Specs, NEW i \in DOMAIN spec, spec[i].type = "Zip",
         \A j \in DOMAIN spec : ~Follows(i, j) \/ spec[j].type = "Zip" \/ ~BuiltOverOwnTarget(j)
  PROVE  ChainTop(i) = 0
<1> SUFFICES ASSUME ChainTop(i) # 0 PROVE FALSE
  OBVIOUS
<1> DEFINE top == ChainTop(i)
           T == {k \in (i + 1) .. top : Archive(k) /\ spec[k].target = spec[i].target}
<1>1. /\ DOMAIN spec = 1 .. Len(spec) /\ Len(spec) \in Nat /\ top \in DOMAIN spec
      /\ Extends(i, top)
  BY ChainTopIs, SpecFields
<1>2. T \subseteq Nat /\ top \in T
  BY <1>1 DEF Extends
<1>3. PICK k \in T : \A j \in T : k <= j
  BY <1>2, LowestLayer
<1>4. k \in DOMAIN spec /\ i < k /\ Archive(k) /\ spec[k].target = spec[i].target /\ k <= top
  BY <1>1
<1>5. spec[k].type = "Delta" /\ BuiltOverOwnTarget(k)
  BY <1>1, <1>4 DEF Extends
<1>6. Follows(i, k)
  <2>1. Archive(i)
    BY DEF Archive
  <2>2. \A j \in (i + 1) .. (k - 1) : Archive(j) => spec[j].target # spec[i].target
    <3> SUFFICES ASSUME NEW j \in (i + 1) .. (k - 1), Archive(j), spec[j].target = spec[i].target
                 PROVE  FALSE
      OBVIOUS
    <3>1. j \in T /\ ~(k <= j)
      BY <1>1, <1>4
    <3> QED BY <1>3, <3>1
  <2> QED BY <1>4, <2>1, <2>2 DEF Follows
<1> QED BY <1>4, <1>5, <1>6

\* A zip stacked over a chain stays out of every view and so out of every delta.
LEMMA ComposedOverlays == Inv /\ (Add \/ Unindexed) => ChainsSeen' /\ OverlaysApart'
<1> SUFFICES ASSUME Inv, Add \/ Unindexed PROVE ChainsSeen' /\ OverlaysApart'
  OBVIOUS
<1>1. PICK g : g = gi
  OBVIOUS
<1>2. Compose /\ Typed /\ skipped \subseteq skipped'
  BY Stacking DEF Inv
<1>3. /\ gi \in 1 .. Len(spec) /\ DOMAIN spec = 1 .. Len(spec) /\ Len(spec) \in Nat
      /\ spec \in Specs /\ spec' = spec /\ gi' = gi + 1
      /\ \A k \in 1 .. Len(spec) : k # gi => bases'[k] = bases[k]
      /\ LowerOnly(Len(spec), bases')
      /\ \A k \in bases'[gi] : \E t \in Targets : k = view[t]
  BY <1>1, <1>2, Composing DEF Typed
<1>4. \A i \in 1 .. (gi' - 1) : i = gi \/ (i \in 1 .. (gi - 1) /\ i \in DOMAIN spec)
  BY <1>3
<1>5. chainSeen' = chainSeen \cup (IF ChainTop(gi) # 0 THEN {spec[gi].target} ELSE {})
  BY <1>2 DEF Compose
<1>6. ChainsSeen'
  <2> SUFFICES ASSUME NEW j \in 1 .. (gi' - 1), spec'[j].type = "Delta", j \notin skipped'
               PROVE  spec'[j].target \in chainSeen'
    BY DEF ChainsSeen
  <2>1. CASE j = gi
    BY <1>3, <1>5, <2>1, ChainTopIs
  <2>2. CASE j \in 1 .. (gi - 1)
    BY <1>2, <1>3, <1>5, <2>2 DEF Inv, ChainsSeen
  <2> QED BY <1>4, <2>1, <2>2
<1>7. \A t \in Targets : view[t] \in 0 .. (gi - 1)
  BY <1>2 DEF Typed
<1>8. \A t \in Targets : view'[t] = view[t] \/ (view'[t] = gi /\ AdvancesView(gi))
  BY <1>2 DEF Compose, Typed
<1>9. OverlaysApart'
  <2> SUFFICES ASSUME NEW i \in 1 .. (gi' - 1), StackedOver(i)'
               PROVE  (\A t \in Targets : view'[t] # i) /\ (\A d \in DOMAIN spec' : i \notin bases'[d])
    BY DEF OverlaysApart
  <2>1. StackedOver(i)
    <3>1. /\ Archive(i)' = Archive(i)
          /\ \A j : Follows(i, j)' = Follows(i, j) /\ BuiltOverOwnTarget(j)' = BuiltOverOwnTarget(j)
      BY <1>3, SpecStays
    <3> QED BY <1>2, <1>3, <3>1 DEF StackedOver
  <2>2. CASE i \in 1 .. (gi - 1)
    <3>1. (\A t \in Targets : view[t] # i) /\ (\A d \in DOMAIN spec : i \notin bases[d])
      BY <2>1, <2>2 DEF Inv, OverlaysApart
    <3>2. \A t \in Targets : view'[t] # i
      BY <1>3, <1>8, <2>2, <3>1
    <3>3. i \notin bases'[gi]
      BY <1>3, <3>1
    <3> QED BY <1>3, <3>1, <3>2, <3>3
  <2>3. CASE i = gi
    <3>1. ChainTop(gi) = 0
      BY <1>3, <2>1, <2>3, StackedOverIsApart DEF StackedOver
    <3>2. spec[gi].target \in chainSeen
      <4>1. PICK j \in 1 .. (gi - 1) :
              spec[j].type = "Delta" /\ spec[j].target = spec[gi].target /\ j \notin skipped
        BY <2>1, <2>3 DEF StackedOver
      <4> QED BY <4>1 DEF Inv, ChainsSeen
    <3>3. ~AdvancesView(gi)
      BY <3>1, <3>2 DEF AdvancesView
    <3>4. \A t \in Targets : view'[t] # gi
      BY <1>3, <1>7, <1>8, <3>3
    <3>5. \A d \in DOMAIN spec : gi \notin bases'[d]
      <4> TAKE d \in DOMAIN spec
      <4>1. CASE d <= gi
        BY <1>3, <4>1 DEF LowerOnly
      <4>2. CASE d > gi
        BY <1>2, <1>3, <4>2 DEF Typed
      <4> QED BY <1>3, <4>1, <4>2
    <3> QED BY <1>3, <2>3, <3>4, <3>5
  <2> QED BY <1>4, <2>2, <2>3
<1> QED BY <1>6, <1>9

(***************************************************************************)
(* The theorems.                                                           *)
(***************************************************************************)
LEMMA InvNext == Inv /\ [Next]_vars => Inv'
<1> SUFFICES ASSUME Inv, [Next]_vars PROVE Inv'
  OBVIOUS
<1>1. CASE Unreadable \/ NoBase
  BY <1>1, SkippedKeeps
<1>2. CASE Add \/ Unindexed
  BY <1>2, ComposedTyped, ComposedViews, ComposedMasks, ComposedChains, ComposedOverlays DEF Inv
<1>3. CASE UNCHANGED vars
  <2>1. /\ spec' = spec /\ gi' = gi /\ view' = view /\ behindAt' = behindAt
        /\ chainSeen' = chainSeen /\ layers' = layers /\ bases' = bases /\ skipped' = skipped
    BY <1>3 DEF vars
  <2>2. Surfaced' = Surfaced /\ \A i : MadeOf(i)' = MadeOf(i) /\ ChainTop(i)' = ChainTop(i)
    BY <2>1, SpecStays, MadeOfStays DEF Surfaced
  <2>3. Typed' /\ ChainsSeen'
    BY <2>1 DEF Inv, Typed, LowerOnly, ChainsSeen
  <2>4. ViewsOK' /\ MasksExactlyBases'
    BY <2>1, <2>2 DEF Inv, ViewsOK, Archive, MasksExactlyBases
  <2>5. ChainKept' /\ UnfoldedSurface'
    BY <2>1, <2>2, SpecStays DEF Inv, ChainKept, UnfoldedSurface
  <2>6. ChainMade'
    <3>1. \A i : MadeOf(ChainTop(i))' = MadeOf(ChainTop(i)) /\ Folded(i)' = Folded(i)
      BY <2>1, <2>2, SpecStays DEF MadeOf
    <3> QED BY <2>1, <2>2, <3>1 DEF Inv, ChainMade
  <2>7. OverlaysApart'
    <3>1. \A i, j : Follows(i, j)' = Follows(i, j) /\ BuiltOverOwnTarget(j)' = BuiltOverOwnTarget(j)
      BY <2>1, SpecStays
    <3>2. \A i : StackedOver(i)' = StackedOver(i)
      BY <2>1, <3>1 DEF StackedOver
    <3> QED BY <2>1, <3>2 DEF Inv, OverlaysApart
  <2> QED BY <2>3, <2>4, <2>5, <2>6, <2>7 DEF Inv
<1> QED BY <1>1, <1>2, <1>3 DEF Next

\* The invariant always holds.
LEMMA InvAlways == Spec => []Inv
BY InvInit, InvNext, PTL DEF Spec

\* The invariant types the state.
LEMMA TypeFollows == Inv => TypeOK
<1> SUFFICES ASSUME Inv PROVE TypeOK
  OBVIOUS
<1>1. Typed /\ gi \in 1 .. (Len(spec) + 1) /\ Len(spec) \in Nat /\ DOMAIN spec = 1 .. Len(spec)
  BY SpecFields DEF Inv, Typed
<1>2. ASSUME NEW t \in Targets, view[t] # 0
      PROVE  Archive(view[t]) /\ view[t] = Max(behindAt[t])
  <2>1. Archive(view[t]) /\ behindAt[t] = {view[t]} \cup MadeOf(view[t])
    BY <1>2 DEF Inv, ViewsOK
  <2>2. view[t] \in 1 .. Len(spec) /\ LowerOnly(Len(spec), bases) /\ spec \in Specs
    <3>1. view[t] \in 0 .. (gi - 1)
      BY <1>1 DEF Typed
    <3> QED BY <1>1, <1>2, <3>1 DEF Typed
  <2>3. MadeOf(view[t]) \subseteq 1 .. (view[t] - 1)
    BY <1>1, <2>2, MadeOfIsClosure, ClosureIsBelow
  <2>4. behindAt[t] \subseteq 1 .. Len(spec) /\ behindAt[t] # {}
    BY <1>1, <2>1, <2>2, <2>3
  <2>5. Max(behindAt[t]) \in behindAt[t] /\ \A y \in behindAt[t] : y <= Max(behindAt[t])
    BY <1>1, <2>4, GreatestLayer
  <2>6. \A y \in behindAt[t] : y <= view[t]
    BY <1>1, <2>1, <2>2, <2>3
  <2>7. ASSUME NEW m, m = Max(behindAt[t]) PROVE m = view[t]
    <3>1. m \in 1 .. Len(spec) /\ m <= view[t] /\ view[t] <= m
      BY <2>1, <2>4, <2>5, <2>6, <2>7
    <3> QED BY <1>1, <2>2, <3>1
  <2> QED BY <2>1, <2>7
<1>3. ToSet(layers) \subseteq [spec : 1 .. (gi - 1), target : Targets, maskedUnder : SUBSET Targets]
  <2>1. layers \in Seq(StackLayer(gi - 1))
    BY <1>1 DEF Typed
  <2>2. \A n \in DOMAIN layers : layers[n] \in StackLayer(gi - 1)
    BY <2>1
  <2> QED BY <2>2 DEF ToSet, StackLayer
<1>4. \A i \in DOMAIN spec : bases[i] \subseteq 1 .. (i - 1)
  BY <1>1 DEF Typed, LowerOnly
<1> QED BY <1>1, <1>2, <1>3, <1>4 DEF TypeOK, Typed

\* The tables of Init are well typed, and what a target's archive stands for
\* has the archive itself as its newest layer (overlay.cpp:174-178).
THEOREM TypeCorrect == Spec => []TypeOK
BY InvAlways, TypeFollows, PTL

\* A delta hides exactly what it was composed from, for any stack of layers
\* (overlay.cpp:214-227).
THEOREM MasksCorrect == Spec => []MasksExactlyBases
<1>1. Inv => MasksExactlyBases
  BY DEF Inv
<1> QED BY <1>1, InvAlways, PTL

\* It says that no layer is lost.
LEMMA NothingLost == Inv => NoLayerLost
<1> SUFFICES ASSUME Inv, gi > Len(spec), NEW i \in DOMAIN spec, i \notin Surfaced \cup skipped,
                    ChainTop(i) \notin skipped
             PROVE  \E d \in Surfaced : i \in MadeOf(d)
  BY DEF NoLayerLost
<1>1. /\ spec \in Specs /\ gi = Len(spec) + 1 /\ Len(spec) \in Nat /\ DOMAIN spec = 1 .. Len(spec)
      /\ i \in 1 .. (gi - 1)
  BY SpecFields DEF Inv, Typed
<1>2. Folded(i)
  BY <1>1 DEF Inv, UnfoldedSurface
<1>3. /\ ChainTop(i) \in DOMAIN spec /\ ChainTop(i) \in 1 .. (gi - 1) /\ ChainTop(i) < gi
      /\ Extends(i, ChainTop(i)) /\ i < ChainTop(i)
  <2>1. ChainTop(i) # 0 /\ ChainTop(i) # i
    BY <1>2 DEF Folded
  <2>2. ChainTop(i) \in 0 .. Len(spec) /\ Extends(i, ChainTop(i)) /\ ChainTop(i) >= i
    BY <1>1, <2>1, ChainTopIs
  <2> QED BY <1>1, <2>1, <2>2
<1>4. i \in MadeOf(ChainTop(i))
  BY <1>1, <1>2, <1>3 DEF Inv, ChainMade
<1>5. ~Folded(ChainTop(i))
  <2>1. Archive(ChainTop(i)) /\ spec[ChainTop(i)].target = spec[i].target
    BY <1>3 DEF Extends
  <2>2. ChainTop(ChainTop(i)) = ChainTop(i)
    BY <1>1, <1>3, <2>1, ChainGoesUp
  <2> QED BY <2>2 DEF Folded
<1>6. ChainTop(i) \in Surfaced
  BY <1>3, <1>5 DEF Inv, UnfoldedSurface
<1> QED BY <1>4, <1>6

\* No layer of any spec is dropped silently (overlay.cpp:170).
THEOREM NoLossCorrect == Spec => []NoLayerLost
BY InvAlways, NothingLost, PTL

\* It says that overlays stay out.
LEMMA OverlaysFollow == Inv => OverlaysStayOut
<1> SUFFICES ASSUME Inv, NEW i \in 1 .. (gi - 1), StackedOver(i)
             PROVE  i \in Surfaced /\ \A d \in DOMAIN spec : i \notin bases[d]
  BY DEF OverlaysStayOut, StackedOver
<1>1. spec \in Specs /\ i \in DOMAIN spec
  BY SpecFields DEF Inv, Typed
<1>2. ChainTop(i) = 0
  BY <1>1, StackedOverIsApart DEF StackedOver
<1>3. i \in Surfaced
  BY <1>2 DEF Inv, UnfoldedSurface, Folded, StackedOver
<1> QED BY <1>3 DEF Inv, OverlaysApart

\* A zip stacked over a chain stays an overlay, whatever lies above and below
\* it (overlay.cpp:176).
THEOREM OverlaysCorrect == Spec => []OverlaysStayOut
BY InvAlways, OverlaysFollow, PTL

(***************************************************************************)
(* Paths in any case.                                                      *)
(***************************************************************************)
\* The paths that are in sight: what layers spell, and structural directories.
InSight == (UNION {Spells(n) : n \in DOMAIN layers}) \cup ImplicitDirs

\* They are paths.
LEMMA InSightAre == Typed => InSight \subseteq Seq(DOMAIN LowerOf)
<1> SUFFICES ASSUME Typed, NEW v \in InSight PROVE v \in Seq(DOMAIN LowerOf)
  OBVIOUS
<1>1. ASSUME NEW n \in DOMAIN layers
      PROVE  Presence(n) \in Seq(DOMAIN LowerOf) /\ spec[layers[n].spec].names \subseteq Seq(DOMAIN LowerOf)
  <2>1. layers[n] \in StackLayer(gi - 1) /\ spec \in Seq(LayerSpec) /\ gi - 1 \in 0 .. Len(spec)
    BY <1>1, SpecFields DEF Typed
  <2>2. layers[n].target \in Targets /\ layers[n].spec \in DOMAIN spec
    BY <2>1 DEF StackLayer
  <2>3. spec[layers[n].spec] \in LayerSpec
    BY <2>1, <2>2
  <2>4. spec[layers[n].spec].names \subseteq Seq(DOMAIN LowerOf)
    BY <2>3 DEF LayerSpec
  <2> QED BY <2>2, <2>4, StackAssumption DEF Presence
<1>2. CASE v \in ImplicitDirs
  <2>1. PICK n \in DOMAIN layers :
               \E k \in 1 .. (Len(Presence(n)) - 1) : v = SubSeq(Presence(n), 1, k)
    BY <1>2 DEF ImplicitDirs
  <2>2. PICK k \in 1 .. (Len(Presence(n)) - 1) : v = SubSeq(Presence(n), 1, k)
    BY <2>1
  <2> QED BY <1>1, <2>1, <2>2
<1>3. CASE v \in UNION {Spells(n) : n \in DOMAIN layers}
  <2>1. PICK n \in DOMAIN layers : v \in Spells(n)
    BY <1>3
  <2>2. v = Presence(n) \/ \E r \in spec[layers[n].spec].names : v = Presence(n) \o r
    BY <2>1 DEF Spells, Mounted
  <2>3. Presence(n) \in Seq(DOMAIN LowerOf) /\ spec[layers[n].spec].names \subseteq Seq(DOMAIN LowerOf)
    BY <1>1
  <2>4. ASSUME NEW r \in spec[layers[n].spec].names PROVE Presence(n) \o r \in Seq(DOMAIN LowerOf)
    <3>1. r \in Seq(DOMAIN LowerOf)
      BY <2>3
    <3> QED BY <2>3, <3>1
  <2> QED BY <2>2, <2>3, <2>4
<1> QED BY <1>2, <1>3 DEF InSight

\* Min is the lowest of a set of layers.
LEMMA LeastLayer ==
  ASSUME NEW T, T \subseteq Nat, T # {}
  PROVE  Min(T) \in T
<1>1. \E x \in T : \A y \in T : x <= y
  BY LowestLayer
<1> QED BY <1>1 DEF Min

\* The table knows every path in sight, and nothing else, as one of its spellings.
LEMMA CanonIs ==
  ASSUME Typed
  PROVE  /\ DOMAIN CanonCase = {FoldCase(v) : v \in InSight}
         /\ \A f \in DOMAIN CanonCase : CanonCase[f] \in InSight /\ FoldCase(CanonCase[f]) = f
<1> DEFINE spelled(n) == {FoldCase(v) : v \in Spells(n)}
           dirs == {FoldCase(d) : d \in ImplicitDirs}
           lowest(f) == Min({n \in DOMAIN layers : f \in spelled(n)})
           from(f) == IF \E n \in DOMAIN layers : f \in spelled(n) THEN Spells(lowest(f)) ELSE ImplicitDirs
           D == (UNION {spelled(n) : n \in DOMAIN layers}) \cup dirs
<1>1. CanonCase = [f \in D |-> CHOOSE v \in from(f) : FoldCase(v) = f]
  BY DEF CanonCase
<1>2. DOMAIN layers \subseteq Nat
  BY DEF Typed
<1>3. D = {FoldCase(v) : v \in InSight}
  BY DEF InSight
<1>4. ASSUME NEW f \in D PROVE from(f) \subseteq InSight /\ \E v \in from(f) : FoldCase(v) = f
  <2>1. CASE \E n \in DOMAIN layers : f \in spelled(n)
    <3> DEFINE T == {n \in DOMAIN layers : f \in spelled(n)}
    <3>1. T \subseteq Nat /\ T # {}
      BY <1>2, <2>1
    <3>2. Min(T) \in T
      BY <3>1, LeastLayer
    <3> QED BY <2>1, <3>2 DEF InSight
  <2>2. CASE ~\E n \in DOMAIN layers : f \in spelled(n)
    <3>1. f \in dirs
      BY <2>2
    <3> QED BY <2>2, <3>1 DEF InSight
  <2> QED BY <2>1, <2>2
<1> HIDE DEF D, from
<1>5. \A f \in D : (CHOOSE v \in from(f) : FoldCase(v) = f) \in InSight
                   /\ FoldCase(CHOOSE v \in from(f) : FoldCase(v) = f) = f
  <2> TAKE f \in D
  <2>1. \E v \in from(f) : FoldCase(v) = f
    BY <1>4
  <2>2. PICK u : u = CHOOSE v \in from(f) : FoldCase(v) = f
    OBVIOUS
  <2>3. u \in from(f) /\ FoldCase(u) = f
    BY <2>1, <2>2
  <2> QED BY <1>4, <2>2, <2>3
<1> QED BY <1>1, <1>3, <1>5

\* A path whose folded form the table has is replaced by what it has for it; so
\* is the directory of a name that the table does not have.
LEMMA CanonicalIs ==
  ASSUME NEW canon, NEW v \in Seq(DOMAIN LowerOf), NEW w \in Seq(DOMAIN LowerOf),
         Len(w) = Len(v), FoldCase(w) = FoldCase(v), FoldCase(v) \in DOMAIN canon, canon[FoldCase(v)] = v
  PROVE  /\ CanonicalCase(canon, w) = v
         /\ \A new \in DOMAIN LowerOf :
              FoldCase(Append(v, new)) \notin DOMAIN canon =>
                CanonicalCase(canon, Append(w, new)) = Append(v, new)
<1>0. Len(v) \in Nat /\ DOMAIN v = 1 .. Len(v) /\ DOMAIN w = 1 .. Len(v)
  OBVIOUS
<1>1. ASSUME NEW u \in Seq(DOMAIN LowerOf), Len(u) >= Len(v), SubSeq(u, 1, Len(v)) = w,
             \A k \in DOMAIN u : k > Len(v) => FoldCase(SubSeq(u, 1, k)) \notin DOMAIN canon
      PROVE  CanonicalCase(canon, u) = v \o SubSeq(u, Len(v) + 1, Len(u))
  <2> DEFINE known == {k \in DOMAIN u : FoldCase(SubSeq(u, 1, k)) \in DOMAIN canon}
  <2>1. DOMAIN u = 1 .. Len(u) /\ Len(u) \in Nat
    OBVIOUS
  <2>2. CASE Len(v) = 0
    <3>1. v = << >> /\ known = {}
      BY <1>1, <2>1, <2>2
    <3>2. SubSeq(u, 1, Len(u)) = u
      BY <2>1
    <3>3. v \o SubSeq(u, Len(v) + 1, Len(u)) = u
      BY <2>2, <3>1, <3>2
    <3> QED BY <3>1, <3>3 DEF CanonicalCase
  <2>3. CASE Len(v) # 0
    <3>1. Len(v) \in known
      <4>1. Len(v) \in DOMAIN u
        BY <1>0, <1>1, <2>1, <2>3
      <4> QED BY <1>1, <4>1
    <3>2. \A k \in known : k <= Len(v)
      BY <1>0, <1>1, <2>1
    <3>3. known \subseteq 1 .. Len(u) /\ known # {}
      BY <2>1, <3>1
    <3> HIDE DEF known
    <3>4. Max(known) \in known /\ \A y \in known : y <= Max(known)
      BY <2>1, <3>3, GreatestLayer
    <3>5. Max(known) = Len(v)
      <4>1. PICK m : m = Max(known)
        OBVIOUS
      <4>2. m \in known /\ Len(v) <= m
        BY <3>1, <3>4, <4>1
      <4>3. m \in Nat /\ m <= Len(v)
        BY <2>1, <3>2, <3>3, <4>2
      <4> QED BY <1>0, <4>1, <4>2, <4>3
    <3>6. CanonicalCase(canon, u) =
            canon[FoldCase(SubSeq(u, 1, Max(known)))] \o SubSeq(u, Max(known) + 1, Len(u))
      BY <3>3 DEF CanonicalCase, known
    <3> QED BY <1>1, <3>5, <3>6
  <2> QED BY <2>2, <2>3
<1>2. CanonicalCase(canon, w) = v
  <2>1. SubSeq(w, 1, Len(v)) = w /\ SubSeq(w, Len(v) + 1, Len(w)) = << >>
    BY <1>0
  <2>2. CanonicalCase(canon, w) = v \o SubSeq(w, Len(v) + 1, Len(w))
    BY <1>0, <1>1, <2>1
  <2> QED BY <2>1, <2>2
<1>3. ASSUME NEW new \in DOMAIN LowerOf, FoldCase(Append(v, new)) \notin DOMAIN canon
      PROVE  CanonicalCase(canon, Append(w, new)) = Append(v, new)
  <2> DEFINE u == Append(w, new)
  <2>1. /\ u \in Seq(DOMAIN LowerOf) /\ Len(u) = Len(v) + 1 /\ DOMAIN u = 1 .. (Len(v) + 1)
        /\ SubSeq(u, 1, Len(v)) = w /\ SubSeq(u, 1, Len(u)) = u
        /\ SubSeq(u, Len(v) + 1, Len(u)) = <<new>>
    <3>1. u \in Seq(DOMAIN LowerOf) /\ Len(u) = Len(v) + 1 /\ DOMAIN u = 1 .. (Len(v) + 1)
      BY <1>0
    <3>2. u[Len(v) + 1] = new /\ \A k \in 1 .. Len(v) : u[k] = w[k]
      BY <1>0
    <3> HIDE DEF u
    <3>3. SubSeq(u, 1, Len(v)) = w
      BY <1>0, <3>1, <3>2
    <3>4. SubSeq(u, 1, Len(u)) = u
      BY <1>0, <3>1
    <3>5. SubSeq(u, Len(v) + 1, Len(u)) = <<new>>
      <4>1. PICK n \in Nat : n = Len(u) /\ n = Len(v) + 1
        BY <1>0, <3>1
      <4>2. SubSeq(u, n, n) = <<u[n]>>
        <5>1. PICK e : e = SubSeq(u, n, n)
          OBVIOUS
        <5>2. \A i \in n .. n : u[i] \in DOMAIN LowerOf
          BY <3>1, <4>1
        <5>3. n \in Int
          BY <4>1
        <5>4. e \in Seq(DOMAIN LowerOf) /\ Len(e) = (IF n <= n THEN n - n + 1 ELSE 0)
              /\ \A i \in 1 .. (n - n + 1) : e[i] = u[n + i - 1]
          BY <5>1, <5>2, <5>3, SubSeqProperties
        <5>5. Len(e) = 1 /\ e[1] = u[n]
          BY <4>1, <5>4
        <5>6. e = <<u[n]>>
          BY <5>4, <5>5
        <5> QED BY <5>1, <5>6
      <4> QED BY <3>2, <4>1, <4>2
    <3> QED BY <3>1, <3>3, <3>4, <3>5
  <2>2. FoldCase(u) = FoldCase(Append(v, new))
    <3>1. \A k \in 1 .. Len(v) : LowerOf[w[k]] = LowerOf[v[k]]
      <4> TAKE k \in 1 .. Len(v)
      <4>1. FoldCase(w)[k] = LowerOf[w[k]] /\ FoldCase(v)[k] = LowerOf[v[k]]
        BY <1>0 DEF FoldCase
      <4> QED BY <4>1
    <3>2. \A k \in 1 .. (Len(v) + 1) : LowerOf[Append(w, new)[k]] = LowerOf[Append(v, new)[k]]
      BY <1>0, <3>1
    <3>3. DOMAIN Append(v, new) = 1 .. (Len(v) + 1)
      BY <1>0
    <3> QED BY <2>1, <3>2, <3>3 DEF FoldCase
  <2>3. \A k \in DOMAIN u : k > Len(v) => k = Len(u)
    BY <1>0, <2>1
  <2> HIDE DEF u
  <2>4. CanonicalCase(canon, u) = v \o <<new>>
    <3>1. Len(u) >= Len(v)
      BY <1>0, <2>1
    <3>2. \A k \in DOMAIN u : k > Len(v) => FoldCase(SubSeq(u, 1, k)) \notin DOMAIN canon
      BY <1>3, <2>1, <2>2, <2>3
    <3>3. CanonicalCase(canon, u) = v \o SubSeq(u, Len(v) + 1, Len(u))
      BY <1>1, <2>1, <3>1, <3>2
    <3> QED BY <2>1, <3>3
  <2>5. v \o <<new>> = Append(v, new)
    OBVIOUS
  <2> QED BY <2>4, <2>5 DEF u
<1> QED BY <1>2, <1>3

\* The invariant's types are enough: the table is built once, after the stack.
LEMMA CaseFollows == Inv => FoundInAnyCase
<1> SUFFICES ASSUME Inv, NEW v \in InSight, \A u \in InSight : FoldCase(u) = FoldCase(v) => u = v,
                    NEW typed \in [DOMAIN v -> DOMAIN LowerOf], FoldCase(typed) = FoldCase(v)
             PROVE  /\ CanonicalCase(CanonCase, typed) = v
                    /\ \A new \in DOMAIN LowerOf :
                         FoldCase(Append(v, new)) \notin DOMAIN CanonCase =>
                           CanonicalCase(CanonCase, Append(typed, new)) = Append(v, new)
  BY DEF FoundInAnyCase, InSight, Spells
<1>1. Typed
  BY DEF Inv
<1>2. v \in Seq(DOMAIN LowerOf)
  BY <1>1, InSightAre
<1>3. typed \in Seq(DOMAIN LowerOf) /\ Len(typed) = Len(v)
  <2>1. DOMAIN v = 1 .. Len(v) /\ Len(v) \in Nat
    BY <1>2
  <2> QED BY <2>1
<1>4. FoldCase(v) \in DOMAIN CanonCase /\ CanonCase[FoldCase(v)] = v
  <2>1. FoldCase(v) \in DOMAIN CanonCase
    BY <1>1, CanonIs
  <2> QED BY <1>1, <2>1, CanonIs
<1> QED BY <1>2, <1>3, <1>4, CanonicalIs

\* On a mount that ignores case what is in sight is found in any case, and a
\* new name goes to the directory as the layers spell it, whatever the bases
\* that deltas hide call them (overlay.cpp:228-257, 453-463).
THEOREM CaseCorrect == Spec => []FoundInAnyCase
BY InvAlways, CaseFollows, PTL
===============================================================================
