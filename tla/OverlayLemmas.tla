---------------------------- MODULE OverlayLemmas ----------------------------
(***************************************************************************)
(* The lemmas that the proofs of OverlayProofs and OverlayViewProofs rest  *)
(* on, for any tree of paths and any layers: first what holds of the       *)
(* virtual paths and the layer stack of LayerView, then what the helpers   *)
(* of Overlay do to the stores.                                            *)
(***************************************************************************)
EXTENDS Overlay, SequenceTheorems, WellFoundedInduction, TLAPS

(***************************************************************************)
(* Paths.                                                                  *)
(***************************************************************************)
VPath == Seq(STRING)

\* A prefix of a path is a path, name by name.
LEMMA PrefixIs ==
  ASSUME NEW v \in VPath, NEW n \in 0 .. Len(v)
  PROVE  /\ SubSeq(v, 1, n) \in VPath /\ Len(SubSeq(v, 1, n)) = n
         /\ \A i \in 1 .. n : SubSeq(v, 1, n)[i] = v[i]
<1>1. Len(v) \in Nat /\ \A i \in 1 .. Len(v) : v[i] \in STRING
  BY LenProperties, ElementOfSeq DEF VPath
<1>2. \A i \in 1 .. n : v[i] \in STRING
  BY <1>1
<1> QED BY <1>1, <1>2, SubSeqProperties DEF VPath

\* "At or below", name by name.
LEMMA WithinIs ==
  ASSUME NEW v \in VPath, NEW w \in VPath
  PROVE  Within(v, w) <=> Len(w) <= Len(v) /\ \A i \in 1 .. Len(w) : v[i] = w[i]
<1>1. Len(v) \in Nat /\ Len(w) \in Nat
  BY LenProperties DEF VPath
<1>2. CASE Len(w) <= Len(v)
  <2>1. SubSeq(v, 1, Len(w)) \in VPath /\ Len(SubSeq(v, 1, Len(w))) = Len(w)
        /\ \A i \in 1 .. Len(w) : SubSeq(v, 1, Len(w))[i] = v[i]
    BY <1>1, <1>2, PrefixIs
  <2>2. SubSeq(v, 1, Len(w)) = w <=> \A i \in 1 .. Len(w) : SubSeq(v, 1, Len(w))[i] = w[i]
    BY <2>1, SeqEqual DEF VPath
  <2> QED BY <1>2, <2>1, <2>2 DEF Within
<1>3. CASE ~(Len(w) <= Len(v))
  BY <1>3 DEF Within
<1> QED BY <1>2, <1>3

\* "At or below" is a partial order, and what is above one path is a chain.
LEMMA WithinReflexive ==
  ASSUME NEW v \in VPath
  PROVE  Within(v, v)
<1> QED BY WithinIs, LenProperties DEF VPath

\* Being within is an order: transitive,
LEMMA WithinTransitive ==
  ASSUME NEW u \in VPath, NEW v \in VPath, NEW w \in VPath, Within(u, v), Within(v, w)
  PROVE  Within(u, w)
<1>1. Len(u) \in Nat /\ Len(v) \in Nat /\ Len(w) \in Nat
  BY LenProperties DEF VPath
<1> QED BY <1>1, WithinIs

\* antisymmetric,
LEMMA WithinAntisymmetric ==
  ASSUME NEW v \in VPath, NEW w \in VPath, Within(v, w), Within(w, v)
  PROVE  v = w
<1>1. Len(v) \in Nat /\ Len(w) \in Nat
  BY LenProperties DEF VPath
<1>2. Len(v) = Len(w) /\ \A i \in 1 .. Len(v) : v[i] = w[i]
  BY <1>1, WithinIs
<1> QED BY <1>2, SeqEqual DEF VPath

\* and a chain above every path.
LEMMA WithinChain ==
  ASSUME NEW v \in VPath, NEW a \in VPath, NEW b \in VPath, Within(v, a), Within(v, b)
  PROVE  Within(a, b) \/ Within(b, a)
<1>1. Len(v) \in Nat /\ Len(a) \in Nat /\ Len(b) \in Nat
  BY LenProperties DEF VPath
<1>2. /\ Len(a) <= Len(v) /\ \A i \in 1 .. Len(a) : v[i] = a[i]
      /\ Len(b) <= Len(v) /\ \A i \in 1 .. Len(b) : v[i] = b[i]
  BY WithinIs
<1>3. CASE Len(a) <= Len(b)
  <2>1. \A i \in 1 .. Len(a) : b[i] = a[i]
    BY <1>1, <1>2, <1>3
  <2> QED BY <1>3, <2>1, WithinIs
<1>4. CASE Len(b) <= Len(a)
  <2>1. \A i \in 1 .. Len(b) : a[i] = b[i]
    BY <1>1, <1>2, <1>4
  <2> QED BY <1>4, <2>1, WithinIs
<1> QED BY <1>1, <1>3, <1>4

\* The root is above all.
LEMMA WithinRoot ==
  ASSUME NEW v \in VPath
  PROVE  /\ Root \in VPath /\ Within(v, Root)
         /\ Within(Root, v) => v = Root
         /\ v # Root => Len(v) > 0
<1>1. Root \in VPath /\ Len(Root) = 0 /\ (v # Root => Len(v) \in Nat \ {0}) /\ Len(v) \in Nat
  BY EmptySeq, LenProperties DEF Root, VPath
<1>2. Within(v, Root)
  BY <1>1, WithinIs
<1> QED BY <1>1, <1>2, WithinAntisymmetric

\* The directories above v are what v lies strictly below.
LEMMA AncestorsAre ==
  ASSUME NEW v \in VPath, NEW a \in VPath
  PROVE  a \in Ancestors(v) <=> Within(v, a) /\ a # v
<1>1. Len(v) \in Nat /\ Len(a) \in Nat
  BY LenProperties DEF VPath
<1>2. ASSUME a \in Ancestors(v) PROVE Within(v, a) /\ a # v
  <2>1. PICK n \in 0 .. (Len(v) - 1) : a = SubSeq(v, 1, n)
    BY <1>2 DEF Ancestors
  <2>2. n \in 0 .. Len(v) /\ n < Len(v)
    BY <1>1
  <2>3. Len(a) = n /\ \A i \in 1 .. n : a[i] = v[i]
    BY <2>1, <2>2, PrefixIs
  <2>4. Len(a) <= Len(v) /\ \A i \in 1 .. Len(a) : v[i] = a[i]
    BY <1>1, <2>2, <2>3
  <2> QED BY <2>2, <2>3, <2>4, WithinIs
<1>3. ASSUME Within(v, a), a # v PROVE a \in Ancestors(v)
  <2>1. Len(a) <= Len(v) /\ a = SubSeq(v, 1, Len(a))
    BY <1>3 DEF Within
  <2>2. Len(a) # Len(v)
    BY <1>3, <2>1, WithinIs, SeqEqual DEF VPath
  <2>3. Len(a) \in 0 .. (Len(v) - 1)
    BY <1>1, <2>1, <2>2
  <2> QED BY <2>1, <2>3 DEF Ancestors
<1> QED BY <1>2, <1>3

\* The prefixes of a path are paths.
LEMMA AncestorsArePaths ==
  ASSUME NEW v \in VPath
  PROVE  Ancestors(v) \subseteq VPath
<1> SUFFICES ASSUME NEW a \in Ancestors(v) PROVE a \in VPath
  OBVIOUS
<1>1. Len(v) \in Nat
  BY LenProperties DEF VPath
<1>2. PICK n \in 0 .. (Len(v) - 1) : a = SubSeq(v, 1, n)
  BY DEF Ancestors
<1> QED BY <1>1, <1>2, PrefixIs

\* The parent is the nearest of them.
LEMMA ParentIs ==
  ASSUME NEW v \in VPath, v # Root
  PROVE  /\ ParentVRel(v) \in VPath /\ ParentVRel(v) \in Ancestors(v)
         /\ Within(v, ParentVRel(v)) /\ ParentVRel(v) # v /\ Len(ParentVRel(v)) = Len(v) - 1
         /\ \A a \in VPath : Within(v, a) /\ a # v <=> Within(ParentVRel(v), a)
<1> DEFINE p == ParentVRel(v)
<1>1. Len(v) \in Nat /\ Len(v) > 0
  BY LenProperties, WithinRoot DEF VPath
<1>2. p \in VPath /\ Len(p) = Len(v) - 1 /\ \A i \in 1 .. Len(v) - 1 : p[i] = v[i]
  <2>1. Len(v) - 1 \in 0 .. Len(v)
    BY <1>1
  <2> QED BY <2>1, PrefixIs DEF ParentVRel
<1>3. Within(v, p) /\ p # v
  BY <1>1, <1>2, WithinIs
<1>4. p \in Ancestors(v)
  BY <1>2, <1>3, AncestorsAre
<1>5. ASSUME NEW a \in VPath, Within(v, a), a # v PROVE Within(p, a)
  <2>1. Len(a) \in Nat
    BY LenProperties DEF VPath
  <2>2. Len(a) <= Len(v) /\ \A i \in 1 .. Len(a) : v[i] = a[i]
    BY <1>5, WithinIs
  <2>3. Len(a) # Len(v)
    BY <1>5, <2>2, SeqEqual DEF VPath
  <2>4. Len(a) <= Len(p) /\ \A i \in 1 .. Len(a) : p[i] = a[i]
    BY <1>1, <1>2, <2>1, <2>2, <2>3
  <2> QED BY <1>2, <2>4, WithinIs
<1>6. ASSUME NEW a \in VPath, Within(p, a) PROVE Within(v, a) /\ a # v
  BY <1>2, <1>3, <1>6, WithinTransitive, WithinAntisymmetric
<1> QED BY <1>2, <1>3, <1>4, <1>5, <1>6

(***************************************************************************)
(* A path moved along with the directory it lies in.                       *)
(***************************************************************************)
LEMMA RebaseIs ==
  ASSUME NEW p \in VPath, NEW old \in VPath, NEW new \in VPath, Within(p, old)
  PROVE  LET r == Rebase(p, old, new)
         IN  /\ r \in VPath /\ Len(r) = Len(new) + Len(p) - Len(old)
             /\ \A i \in 1 .. Len(new) : r[i] = new[i]
             /\ \A i \in Len(new) + 1 .. Len(r) : r[i] = p[i - Len(new) + Len(old)]
<1> DEFINE r == Rebase(p, old, new)
           tail == SubSeq(p, Len(old) + 1, Len(p))
<1>1. Len(p) \in Nat /\ Len(old) \in Nat /\ Len(new) \in Nat /\ Len(old) <= Len(p)
  BY LenProperties, WithinIs DEF VPath
<1>2. \A i \in Len(old) + 1 .. Len(p) : p[i] \in STRING
  BY <1>1, ElementOfSeq DEF VPath
<1>3. /\ tail \in VPath /\ Len(tail) = Len(p) - Len(old)
      /\ \A i \in 1 .. Len(p) - Len(old) : tail[i] = p[Len(old) + i]
  <2>1. Len(old) + 1 \in Int /\ Len(p) \in Int
    BY <1>1
  <2>2. /\ tail \in VPath
        /\ Len(tail) = IF Len(old) + 1 <= Len(p) THEN Len(p) - (Len(old) + 1) + 1 ELSE 0
        /\ \A i \in 1 .. Len(p) - (Len(old) + 1) + 1 : tail[i] = p[Len(old) + 1 + i - 1]
    BY <1>2, <2>1, SubSeqProperties DEF VPath
  <2> HIDE DEF tail
  <2> QED BY <1>1, <2>2
<1> HIDE DEF tail
<1>4. /\ r \in VPath /\ Len(r) = Len(new) + Len(tail)
      /\ \A i \in 1 .. Len(new) + Len(tail) : r[i] = IF i <= Len(new) THEN new[i] ELSE tail[i - Len(new)]
  <2>1. r = new \o tail
    BY DEF tail, Rebase
  <2>2. /\ new \o tail \in Seq(STRING) /\ Len(new \o tail) = Len(new) + Len(tail)
        /\ \A i \in 1 .. Len(new) + Len(tail) :
             (new \o tail)[i] = IF i <= Len(new) THEN new[i] ELSE tail[i - Len(new)]
    BY <1>3, ConcatProperties, Zenon DEF VPath
  <2> HIDE DEF r
  <2> QED BY <2>1, <2>2 DEF VPath
<1> HIDE DEF r
<1>5. \A i \in 1 .. Len(new) : r[i] = new[i]
  <2> TAKE i \in 1 .. Len(new)
  <2>1. i \in 1 .. Len(new) + Len(tail) /\ i <= Len(new)
    BY <1>1, <1>3
  <2> QED BY <1>4, <2>1
<1>6. \A i \in Len(new) + 1 .. Len(r) : r[i] = p[i - Len(new) + Len(old)]
  <2> TAKE i \in Len(new) + 1 .. Len(r)
  <2>1. r[i] = tail[i - Len(new)] /\ i - Len(new) \in 1 .. Len(p) - Len(old)
    BY <1>1, <1>3, <1>4
  <2>2. tail[i - Len(new)] = p[Len(old) + (i - Len(new))]
    BY <1>3, <2>1
  <2>3. Len(old) + (i - Len(new)) = i - Len(new) + Len(old)
    BY <1>1, <1>4
  <2> QED BY <2>1, <2>2, <2>3
<1> QED BY <1>1, <1>3, <1>4, <1>5, <1>6 DEF r

\* Moving is a renaming of the tree: what lies in what stays as it was.
LEMMA RebaseOrder ==
  ASSUME NEW p \in VPath, NEW q \in VPath, NEW old \in VPath, NEW new \in VPath,
         Within(p, old), Within(q, old)
  PROVE  Within(Rebase(p, old, new), Rebase(q, old, new)) <=> Within(p, q)
<1> DEFINE r == Rebase(p, old, new)
           t == Rebase(q, old, new)
<1>1. /\ Len(p) \in Nat /\ Len(q) \in Nat /\ Len(old) \in Nat /\ Len(new) \in Nat
      /\ Len(old) <= Len(p) /\ Len(old) <= Len(q)
      /\ \A i \in 1 .. Len(old) : p[i] = old[i] /\ q[i] = old[i]
  <2>1. Len(p) \in Nat /\ Len(q) \in Nat /\ Len(old) \in Nat /\ Len(new) \in Nat
    BY LenProperties DEF VPath
  <2>2. /\ Len(old) <= Len(p) /\ \A i \in 1 .. Len(old) : p[i] = old[i]
        /\ Len(old) <= Len(q) /\ \A i \in 1 .. Len(old) : q[i] = old[i]
    BY WithinIs
  <2> QED BY <2>1, <2>2
<1>2. /\ r \in VPath /\ Len(r) = Len(new) + Len(p) - Len(old)
      /\ \A i \in 1 .. Len(new) : r[i] = new[i]
      /\ \A i \in Len(new) + 1 .. Len(r) : r[i] = p[i - Len(new) + Len(old)]
  BY RebaseIs
<1>3. /\ t \in VPath /\ Len(t) = Len(new) + Len(q) - Len(old)
      /\ \A i \in 1 .. Len(new) : t[i] = new[i]
      /\ \A i \in Len(new) + 1 .. Len(t) : t[i] = q[i - Len(new) + Len(old)]
  BY RebaseIs
<1> HIDE DEF r, t
<1>4. ASSUME Within(p, q) PROVE Within(r, t)
  <2>1. Len(q) <= Len(p) /\ \A i \in 1 .. Len(q) : p[i] = q[i]
    BY <1>4, WithinIs
  <2>2. \A i \in 1 .. Len(t) : r[i] = t[i]
    <3> TAKE i \in 1 .. Len(t)
    <3>1. CASE i <= Len(new)
      BY <1>1, <1>2, <1>3, <3>1
    <3>2. CASE i > Len(new)
      <4>1. i - Len(new) + Len(old) \in 1 .. Len(q) /\ i \in Len(new) + 1 .. Len(r)
            /\ i \in Len(new) + 1 .. Len(t)
        BY <1>1, <1>2, <1>3, <2>1, <3>2
      <4> QED BY <1>2, <1>3, <2>1, <4>1
    <3> QED BY <1>1, <1>3, <3>1, <3>2
  <2>3. Len(t) <= Len(r)
    BY <1>1, <1>2, <1>3, <2>1
  <2> QED BY <1>2, <1>3, <2>2, <2>3, WithinIs
<1>5. ASSUME Within(r, t) PROVE Within(p, q)
  <2>1. Len(t) <= Len(r) /\ \A i \in 1 .. Len(t) : r[i] = t[i]
    BY <1>2, <1>3, <1>5, WithinIs
  <2>2. \A i \in 1 .. Len(q) : p[i] = q[i]
    <3> TAKE i \in 1 .. Len(q)
    <3>1. CASE i <= Len(old)
      BY <1>1, <3>1
    <3>2. CASE i > Len(old)
      <4> DEFINE j == i - Len(old) + Len(new)
      <4>1. j \in Len(new) + 1 .. Len(r) /\ j \in Len(new) + 1 .. Len(t) /\ j \in 1 .. Len(t)
            /\ j - Len(new) + Len(old) = i
        BY <1>1, <1>2, <1>3, <2>1, <3>2
      <4> HIDE DEF j
      <4> QED BY <1>2, <1>3, <2>1, <4>1
    <3> QED BY <1>1, <3>1, <3>2
  <2>3. Len(q) <= Len(p)
    BY <1>1, <1>2, <1>3, <2>1
  <2> QED BY <2>2, <2>3, WithinIs
<1> QED BY <1>4, <1>5 DEF r, t

\* The directory itself moves to its new name, what is below it below that
\* name, and back.
LEMMA RebaseBack ==
  ASSUME NEW p \in VPath, NEW old \in VPath, NEW new \in VPath, Within(p, old)
  PROVE  /\ Rebase(p, old, new) \in VPath /\ Within(Rebase(p, old, new), new)
         /\ Rebase(Rebase(p, old, new), new, old) = p
         /\ Rebase(old, old, new) = new
<1> DEFINE r == Rebase(p, old, new)
           b == Rebase(r, new, old)
<1>1. /\ Len(p) \in Nat /\ Len(old) \in Nat /\ Len(new) \in Nat /\ Len(old) <= Len(p)
      /\ \A i \in 1 .. Len(old) : p[i] = old[i]
  <2>1. Len(p) \in Nat /\ Len(old) \in Nat /\ Len(new) \in Nat
    BY LenProperties DEF VPath
  <2> QED BY <2>1, WithinIs
<1>2. /\ r \in VPath /\ Len(r) = Len(new) + Len(p) - Len(old)
      /\ \A i \in 1 .. Len(new) : r[i] = new[i]
      /\ \A i \in Len(new) + 1 .. Len(r) : r[i] = p[i - Len(new) + Len(old)]
  BY RebaseIs
<1> HIDE DEF r
<1>3. Within(r, new)
  <2>1. Len(new) <= Len(r)
    BY <1>1, <1>2
  <2> QED BY <1>2, <2>1, WithinIs
<1>4. /\ b \in VPath /\ Len(b) = Len(old) + Len(r) - Len(new)
      /\ \A i \in 1 .. Len(old) : b[i] = old[i]
      /\ \A i \in Len(old) + 1 .. Len(b) : b[i] = r[i - Len(old) + Len(new)]
  BY <1>2, <1>3, RebaseIs
<1> HIDE DEF b
<1>5. b = p
  <2>1. Len(b) = Len(p)
    BY <1>1, <1>2, <1>4
  <2>2. \A i \in 1 .. Len(b) : b[i] = p[i]
    <3> TAKE i \in 1 .. Len(b)
    <3>1. CASE i <= Len(old)
      BY <1>1, <1>4, <2>1, <3>1
    <3>2. CASE i > Len(old)
      <4> DEFINE j == i - Len(old) + Len(new)
      <4>1. i \in Len(old) + 1 .. Len(b) /\ j \in Len(new) + 1 .. Len(r)
            /\ j - Len(new) + Len(old) = i
        BY <1>1, <1>2, <2>1, <3>2
      <4>2. b[i] = r[j]
        BY <1>4, <4>1
      <4> HIDE DEF j
      <4> QED BY <1>2, <4>1, <4>2
    <3> QED BY <1>1, <2>1, <3>1, <3>2
  <2> QED BY <1>4, <2>1, <2>2, SeqEqual DEF VPath
<1>6. Rebase(old, old, new) = new
  <2> DEFINE n == Rebase(old, old, new)
  <2>1. /\ n \in VPath /\ Len(n) = Len(new) + Len(old) - Len(old)
        /\ \A i \in 1 .. Len(new) : n[i] = new[i]
    BY WithinReflexive, RebaseIs
  <2> HIDE DEF n
  <2>2. Len(n) = Len(new)
    BY <1>1, <2>1
  <2>3. n = new
    BY <2>1, <2>2, SeqEqual DEF VPath
  <2> QED BY <2>3 DEF n
<1> QED BY <1>2, <1>3, <1>5, <1>6 DEF r, b

\* Different paths move to different paths, the parent to the parent.
LEMMA RebaseInjective ==
  ASSUME NEW p \in VPath, NEW q \in VPath, NEW old \in VPath, NEW new \in VPath,
         Within(p, old), Within(q, old), Rebase(p, old, new) = Rebase(q, old, new)
  PROVE  p = q
<1> QED BY RebaseBack

\* A directory moves along with what is in it.
LEMMA RebaseParent ==
  ASSUME NEW p \in VPath, NEW old \in VPath, NEW new \in VPath, Within(p, old), p # old
  PROVE  /\ Rebase(p, old, new) # new /\ p # Root /\ Rebase(p, old, new) # Root
         /\ Within(ParentVRel(p), old)
         /\ ParentVRel(Rebase(p, old, new)) = Rebase(ParentVRel(p), old, new)
<1> DEFINE r == Rebase(p, old, new)
           pp == ParentVRel(p)
           m == Rebase(pp, old, new)
<1>1. p # Root
  BY WithinRoot
<1>2. /\ pp \in VPath /\ Within(p, pp) /\ pp # p /\ Within(pp, old)
  BY <1>1, ParentIs
<1>3. /\ r \in VPath /\ Within(r, new) /\ r # new
  BY RebaseBack, RebaseInjective, WithinReflexive
<1>4. r # Root
  BY <1>3, WithinRoot
<1>5. /\ m \in VPath /\ Within(m, new) /\ Within(r, m) /\ r # m
  BY <1>2, RebaseBack, RebaseOrder, RebaseInjective
<1>6. /\ ParentVRel(r) \in VPath /\ Len(ParentVRel(r)) = Len(r) - 1 /\ Within(ParentVRel(r), m)
  BY <1>3, <1>4, <1>5, ParentIs
<1>7. Len(m) = Len(r) - 1
  <2>1. Len(pp) = Len(p) - 1
    BY <1>1, ParentIs
  <2>2. Len(p) \in Nat /\ Len(old) \in Nat /\ Len(new) \in Nat
    BY LenProperties DEF VPath
  <2>3. Len(r) = Len(new) + Len(p) - Len(old) /\ Len(m) = Len(new) + Len(pp) - Len(old)
    BY <1>2, RebaseIs
  <2> QED BY <2>1, <2>2, <2>3
<1>8. ParentVRel(r) = m
  <2>1. Len(m) = Len(ParentVRel(r)) /\ \A i \in 1 .. Len(m) : ParentVRel(r)[i] = m[i]
    BY <1>5, <1>6, <1>7, WithinIs
  <2> QED BY <1>5, <1>6, <2>1, SeqEqual DEF VPath
<1> QED BY <1>1, <1>2, <1>3, <1>4, <1>8

(***************************************************************************)
(* The tree of paths.                                                      *)
(***************************************************************************)
LEMMA PathsAre ==
  /\ Paths \subseteq VPath /\ Root \in Paths
  /\ \A v \in Paths : Ancestors(v) \subseteq Paths
  /\ \A v \in Paths \ {Root} : ParentVRel(v) \in Paths
<1>1. Paths \subseteq VPath /\ Root \in Paths /\ \A v \in Paths : Ancestors(v) \subseteq Paths
  BY PathsAssumption DEF VPath
<1>2. \A v \in Paths \ {Root} : ParentVRel(v) \in Paths
  BY <1>1, ParentIs
<1> QED BY <1>1, <1>2

\* What is above a path of the instance is a path of the instance.
LEMMA UpwardClosed ==
  ASSUME NEW v \in Paths, NEW a \in VPath, Within(v, a)
  PROVE  a \in Paths
<1> QED BY PathsAre, AncestorsAre

(***************************************************************************)
(* Kept folders.                                                           *)
(***************************************************************************)
LEMMA KeptAre ==
  ASSUME NEW k \in Kept
  PROVE  /\ k \in DOMAIN Layers /\ k \in Nat /\ k # Wl
         /\ KeptRoot[k] \in Paths
         /\ \A v : LayerCovers(Layers[k], v) <=> Within(v, KeptRoot[k])
<1>1. k \in DOMAIN Layers /\ Layers[k].rw
  BY DEF Kept
<1>2. Layers[k].type = "Dir" /\ Layers[k].target \in Paths
  BY <1>1, LayersAssumption
<1>3. KeptRoot[k] = Layers[k].target
  BY DEF KeptRoot
<1>4. k \in Nat /\ k # 0
  BY <1>1, LayersAssumption
<1> QED BY <1>1, <1>2, <1>3, <1>4 DEF LayerCovers, Wl

\* The layers that answer for a path are layers, and none is a kept folder.
LEMMA HitsAre ==
  ASSUME NEW v \in Paths
  PROVE  /\ Hits[v] \subseteq DOMAIN Layers /\ Hits[v] \subseteq Nat \ {0}
         /\ Hits[v] \cap Kept = {}
<1>1. Hits[v] = {i \in DOMAIN Layers : LayerHas(Layers[i], v)}
  BY DEF Hits
<1>2. \A i \in DOMAIN Layers : i \in Nat /\ i # 0
  BY LayersAssumption
<1> QED BY <1>1, <1>2 DEF LayerHas, Kept

\* The greatest layer of a set of them is well defined.
LEMMA GreatestIs ==
  ASSUME NEW T, T \subseteq Int, NEW k \in T, \A j \in T : j <= k
  PROVE  (CHOOSE i \in T : \A j \in T : j <= i) = k
<1>1. \E i \in T : \A j \in T : j <= i
  OBVIOUS
<1>2. \A i \in T : (\A j \in T : j <= i) => i <= k /\ k <= i
  OBVIOUS
<1>3. \A i \in T : (\A j \in T : j <= i) => i = k
  BY <1>2
<1> QED BY <1>1, <1>3

\* With the kept folders on top, the store a path is written to is the one
\* kept folder over it, and no layer above that folder answers.
LEMMA HomeIs ==
  ASSUME KeptOnTop, NEW v \in Paths
  PROVE  /\ Home[v] \in {Wl} \cup Kept
         /\ \A k \in Kept : Home[v] = k <=> Within(v, KeptRoot[k])
         /\ KeptOver[v] = IF Home[v] = Wl THEN {} ELSE {Home[v]}
         /\ Home[v] # Wl => \A i \in Hits[v] : i < Home[v]
<1>1. KeptOver[v] = {k \in Kept : LayerCovers(Layers[k], v)}
  BY DEF KeptOver
<1>2. \A k \in Kept : k \in KeptOver[v] <=> Within(v, KeptRoot[k])
  BY <1>1, KeptAre
<1>3. CASE KeptOver[v] = {}
  <2>1. Home[v] = Wl
    BY <1>3 DEF Home
  <2> QED BY <1>2, <1>3, <2>1, KeptAre
<1>4. CASE KeptOver[v] # {}
  <2>1. PICK k \in Kept : k \in KeptOver[v]
    BY <1>1, <1>4
  <2>2. KeptOver[v] = {k} /\ \A i \in Hits[v] : i < k
    BY <1>1, <2>1 DEF KeptOnTop
  <2>3. Home[v] = CHOOSE i \in KeptOver[v] : \A j \in KeptOver[v] : j <= i
    BY <1>4 DEF Home
  <2>4. k \in Nat /\ k # Wl
    BY KeptAre
  <2>5. Home[v] = k
    <3>1. (CHOOSE i \in {k} : \A j \in {k} : j <= i) = k
      BY <2>4, GreatestIs
    <3> QED BY <2>2, <2>3, <3>1
  <2> QED BY <1>2, <2>2, <2>4, <2>5
<1> QED BY <1>3, <1>4

\* What lies below a path of a kept folder is written to that folder too.
LEMMA HomeBelow ==
  ASSUME KeptOnTop, NEW v \in Paths, NEW w \in Paths, Within(w, v), Home[v] # Wl
  PROVE  Home[w] = Home[v]
<1>1. Home[v] \in Kept /\ Within(v, KeptRoot[Home[v]])
  BY HomeIs
<1>2. KeptRoot[Home[v]] \in Paths
  BY <1>1, KeptAre
<1>3. Within(w, KeptRoot[Home[v]])
  BY <1>1, <1>2, PathsAre, WithinTransitive
<1> QED BY <1>1, <1>3, HomeIs

\* Kept folders do not lie in one another.
LEMMA KeptApart ==
  ASSUME KeptOnTop, NEW k \in Kept
  PROVE  /\ Home[KeptRoot[k]] = k
         /\ \A v \in Paths : Within(KeptRoot[k], v) /\ Home[v] # Wl => v = KeptRoot[k]
<1>1. KeptRoot[k] \in Paths /\ k # Wl
  BY KeptAre
<1>2. Home[KeptRoot[k]] = k
  BY <1>1, PathsAre, WithinReflexive, HomeIs
<1>3. ASSUME NEW v \in Paths, Within(KeptRoot[k], v), Home[v] # Wl PROVE v = KeptRoot[k]
  <2>1. Home[v] = k
    BY <1>1, <1>2, <1>3, HomeBelow
  <2>2. Within(v, KeptRoot[k])
    BY <2>1, HomeIs
  <2> QED BY <1>1, <1>3, <2>2, PathsAre, WithinAntisymmetric
<1> QED BY <1>2, <1>3

\* A layer's entry is a directory, a content or what cannot be read.
LEMMA LayerEntryIs ==
  ASSUME NEW v \in Paths, NEW i \in Hits[v]
  PROVE  LayerEntry[i][v] \in Contents \cup {Dir, Packed}
<1>1. i \in DOMAIN Layers /\ LayerHas(Layers[i], v)
  BY DEF Hits
<1>2. LayerEntry[i][v] = Layers[i].tree[SourceRel(Layers[i], v)]
  BY <1>1 DEF LayerEntry
<1>3. SourceRel(Layers[i], v) \in DOMAIN Layers[i].tree
  BY <1>1 DEF LayerHas
<1>4. \A p \in DOMAIN Layers[i].tree : Layers[i].tree[p] \in Contents \cup {Dir, Packed}
  BY <1>1, LayersAssumption
<1> QED BY <1>2, <1>3, <1>4

\* There is a greatest layer in every set of them that is not empty.
LEMMA GreatestExists ==
  ASSUME NEW T, T \subseteq DOMAIN Layers, T # {}
  PROVE  \E x \in T : \A y \in T : y <= x
<1> DEFINE n == Len(Layers)
<1>1. T \subseteq 1 .. n /\ n \in Nat
  BY LayersAssumption
<1> DEFINE U == {n - x : x \in T}
<1>2. U \subseteq Nat /\ U # {}
  BY <1>1
<1>3. \E R : IsWellFoundedOn(R, Nat) /\ \A x, y \in Nat : y < x => <<y, x>> \in R
  <2>1. \A x, y \in Nat : y < x => <<y, x>> \in OpToRel(<, Nat)
    BY DEF OpToRel
  <2> QED BY <2>1, NatLessThanWellFounded, Zenon
<1>4. PICK R : IsWellFoundedOn(R, Nat) /\ \A x, y \in Nat : y < x => <<y, x>> \in R
  BY <1>3
<1> HIDE DEF U, n
<1>5. PICK u \in U : \A y \in U : <<y, u>> \notin R
  BY <1>2, <1>4, WFMin, Zenon
<1>6. \A y \in U : ~(y < u)
  BY <1>2, <1>4, <1>5
<1>7. PICK x \in T : u = n - x
  BY <1>5 DEF U
<1>8. \A y \in T : y <= x
  <2> TAKE y \in T
  <2>1. n - y \in U /\ ~(n - y < n - x)
    BY <1>6, <1>7 DEF U
  <2> QED BY <1>1, <2>1
<1> QED BY <1>8

\* On the way from a path up to v lies one child of v.
LEMMA ChildTowards ==
  ASSUME NEW p \in VPath, NEW v \in VPath, Within(p, v), p # v
  PROVE  \E c \in VPath : Within(p, c) /\ c # Root /\ ParentVRel(c) = v
<1> DEFINE n == Len(v) + 1
           c == SubSeq(p, 1, n)
<1>1. Len(p) \in Nat /\ Len(v) \in Nat /\ Len(v) <= Len(p) /\ \A i \in 1 .. Len(v) : p[i] = v[i]
  BY LenProperties, WithinIs DEF VPath
<1>2. Len(p) # Len(v)
  BY <1>1, SeqEqual DEF VPath
<1>3. n \in 0 .. Len(p) /\ n \in Nat /\ n > 0
  BY <1>1, <1>2
<1>4. c \in VPath /\ Len(c) = n /\ \A i \in 1 .. n : c[i] = p[i]
  BY <1>3, PrefixIs
<1> HIDE DEF c
<1>5. Within(p, c)
  BY <1>3, <1>4, WithinIs
<1>6. Within(c, v) /\ c # v /\ c # Root
  <2>1. Len(v) <= Len(c) /\ \A i \in 1 .. Len(v) : c[i] = v[i]
    BY <1>1, <1>4
  <2>2. Within(c, v)
    BY <1>4, <2>1, WithinIs
  <2>3. c # v
    BY <1>1, <1>4
  <2> QED BY <1>4, <2>2, <2>3, WithinRoot
<1>7. ParentVRel(c) \in VPath /\ Len(ParentVRel(c)) = Len(v) /\ Within(ParentVRel(c), v)
  <2>1. ParentVRel(c) \in VPath /\ Len(ParentVRel(c)) = Len(c) - 1 /\ Within(ParentVRel(c), v)
    BY <1>4, <1>6, ParentIs
  <2> QED BY <1>1, <1>4, <2>1
<1>8. ParentVRel(c) = v
  <2>1. \A i \in 1 .. Len(v) : ParentVRel(c)[i] = v[i]
    BY <1>7, WithinIs
  <2> QED BY <1>7, <2>1, SeqEqual DEF VPath
<1> QED BY <1>4, <1>5, <1>6, <1>8

\* Of paths with a property there is a shortest.
LEMMA ShortestPath ==
  ASSUME NEW T, T \subseteq VPath, T # {}
  PROVE  \E v \in T : \A w \in T : Len(v) <= Len(w)
<1> DEFINE U == {Len(v) : v \in T}
<1>1. U \subseteq Nat /\ U # {}
  BY LenProperties DEF VPath
<1>2. \E R : IsWellFoundedOn(R, Nat) /\ \A x, y \in Nat : y < x => <<y, x>> \in R
  <2>1. \A x, y \in Nat : y < x => <<y, x>> \in OpToRel(<, Nat)
    BY DEF OpToRel
  <2> QED BY <2>1, NatLessThanWellFounded, Zenon
<1>3. PICK R : IsWellFoundedOn(R, Nat) /\ \A x, y \in Nat : y < x => <<y, x>> \in R
  BY <1>2
<1> HIDE DEF U
<1>4. PICK u \in U : \A y \in U : <<y, u>> \notin R
  BY <1>1, <1>3, WFMin, Zenon
<1>5. \A y \in U : ~(y < u)
  BY <1>1, <1>3, <1>4
<1>6. PICK v \in T : u = Len(v)
  BY <1>4 DEF U
<1>7. \A w \in T : Len(v) <= Len(w)
  <2> TAKE w \in T
  <2>1. Len(w) \in U /\ Len(w) \in Nat /\ Len(v) \in Nat
    BY <1>1, <1>6 DEF U
  <2> QED BY <1>5, <1>6, <2>1
<1> QED BY <1>7

(***************************************************************************)
(* Archives.                                                               *)
(***************************************************************************)
\* Whatever its entries are, what an archive lists in a directory is what it
\* serves there: BuildZipIndex, RegisterParents and the lookup of links
\* (ziplayer.cpp), and the listing's test for dead links (vfsops.cpp:85).
THEOREM ArchivesAgree ==
  ASSUME NEW A, Names(A) \subseteq VPath
  PROVE  SourceAgrees(ZipTree(A), ZipLists(A))
<1> DEFINE all == Names(A) \cup UNION {Ancestors(v) \ {Root} : v \in Names(A)}
           own == {v \in Names(A) : \E i \in DOMAIN A : A[i].name = v /\ A[i].kind = "dir"}
           dirs == {ParentVRel(v) : v \in all} \cup own
           served == {w \in Names(A) \cup dirs : ~DeadLink(A, w)}
<1>1. DirChildren(A) = [d \in dirs |-> {v \in all : ParentVRel(v) = d}]
  BY DEF DirChildren
<1>2. DOMAIN ZipTree(A) = served
  BY <1>1 DEF ZipTree
<1>3. ZipLists(A) = [d \in dirs |-> {c \in all : ParentVRel(c) = d /\ ~DeadLink(A, c)}]
  BY <1>1 DEF ZipLists
<1>4. Root \notin all /\ all \subseteq VPath
  BY AncestorsArePaths DEF Names
\* A directory on the way is one of all.
<1>5. ASSUME NEW v \in all, ParentVRel(v) # Root PROVE ParentVRel(v) \in all
  <2> DEFINE p == ParentVRel(v)
  <2>1. v \in VPath /\ p \in VPath /\ Within(v, p) /\ p # v
    BY <1>4, ParentIs
  <2>2. PICK u \in Names(A) : u = v \/ v \in Ancestors(u)
    OBVIOUS
  <2>3. Within(u, p) /\ p # u
    BY <2>1, <2>2, AncestorsAre, WithinTransitive, WithinAntisymmetric
  <2>4. p \in Ancestors(u)
    BY <2>1, <2>3, AncestorsAre
  <2> QED BY <1>5, <2>4
\* Every name but the root is a directory that is registered, or an entry.
<1>6. all \subseteq Names(A) \cup dirs
  <2> SUFFICES ASSUME NEW v \in all, v \notin Names(A) PROVE v \in dirs
    OBVIOUS
  <2>1. PICK u \in Names(A) : v \in Ancestors(u)
    OBVIOUS
  <2>2. u \in VPath /\ v \in VPath /\ Within(u, v) /\ v # u
    BY <1>4, <2>1, AncestorsAre
  <2>3. PICK c \in VPath : Within(u, c) /\ c # Root /\ ParentVRel(c) = v
    BY <2>2, ChildTowards
  <2>4. c \in all
    BY <2>2, <2>3, AncestorsAre
  <2> QED BY <2>3, <2>4
<1>7. served \ {Root} = {c \in all : ~DeadLink(A, c)}
  <2>1. (Names(A) \cup dirs) \ {Root} = all
    BY <1>4, <1>5, <1>6
  <2> QED BY <2>1
<1>8. \A p \in served \ {Root} : ParentVRel(p) \in dirs
  BY <1>7
<1> HIDE DEF all, dirs, served
<1>9. \A d \in DOMAIN ZipLists(A) :
        ZipLists(A)[d] = {p \in served \ {Root} : ParentVRel(p) = d}
  BY <1>3, <1>7
<1>10. DOMAIN ZipLists(A) = dirs
  BY <1>3
<1> QED BY <1>2, <1>8, <1>9, <1>10 DEF SourceAgrees

-----------------------------------------------------------------------------
(***************************************************************************)
(* The inductive invariant.                                                *)
(***************************************************************************)
\* HostTreeOK of any state of the stores.
HostTree(s) ==
  \A h \in Stores :
    /\ s[h].tree[StoreRoot(h)] = Dir
    /\ \A v \in Paths \ {StoreRoot(h)} :
         s[h].tree[v] # Absent \/ v \in s[h].wh =>
           Holds(h, v) /\ s[h].tree[ParentVRel(v)] = Dir
    /\ \A v \in s[h].opq : s[h].tree[v] = Dir

\* The writelayer has nothing where a kept folder is written, but for its own
\* root and the whiteout of the kept folder itself, and no store's root is
\* hidden in it.
Apart(s) ==
  /\ \A h \in Stores : StoreRoot(h) \notin s[h].wh \cup s[h].deleted
  /\ \A v \in Paths \ {Root} : \A k \in Kept : Within(v, KeptRoot[k]) =>
       /\ s[Wl].tree[v] = Absent
       /\ v \notin s[Wl].opq \cup s[Wl].opaque
       /\ v \in s[Wl].wh \cup s[Wl].deleted => v = KeptRoot[k]

Good(s) == s \in VfsState /\ HostTree(s) /\ Apart(s)

\* Every marker is masked, and the other way round when markers can be written.
Masked(s) ==
  \A h \in Stores :
    /\ s[h].wh \subseteq s[h].deleted /\ s[h].opq \subseteq s[h].opaque
    /\ "marker" \notin HostFaults => s[h].deleted = s[h].wh /\ s[h].opaque = s[h].opq

\* Nothing of the writelayer lies at or below a name with a marker.
Bare(s) ==
  \A v \in s[Wl].wh : \A p \in Paths : Within(p, v) => s[Wl].tree[p] = Absent

(***************************************************************************)
(* Stores.                                                                 *)
(***************************************************************************)
\* v may have an entry or a marker in store h.
Belongs(h, v) ==
  /\ h \in Stores /\ v \in Paths /\ Holds(h, v)
  /\ h = Wl => \A k \in Kept : Within(v, KeptRoot[k]) => v = KeptRoot[k]

\* No file is above v in store h.
Clear(s, h, v) == \A a \in Above[h][v] : s[h].tree[a] \in {Dir, Absent}

\* The marks of the model are told apart.
LEMMA Distinct ==
  /\ Dir # Absent /\ Dir \notin Inodes /\ Absent \notin Inodes
  /\ Dir \notin Contents /\ Absent \notin Contents /\ Packed \notin Contents
  /\ Packed # Dir /\ Packed # Absent
  /\ Packed \notin Inodes /\ \A c \in Contents : c \notin Inodes
  /\ Empty \in Contents /\ LinkTarget \in Contents /\ Payloads \subseteq Contents
<1> QED BY ContentsAssumption, OverlayAssumption DEF Dir, Absent

\* Every store is the writelayer or a kept folder, each with a root of its own.
LEMMA StoresAre ==
  /\ Wl \in Stores
  /\ \A h \in Stores : StoreRoot(h) \in Paths /\ StoreRoot(h) \in VPath
  /\ \A k \in Kept : k \in Stores /\ k # Wl /\ StoreRoot(k) = KeptRoot[k]
  /\ StoreRoot(Wl) = Root
  /\ \A h \in Stores : h = Wl \/ h \in Kept
<1> QED BY PathsAre, KeptAre DEF Stores, StoreRoot

\* The fields of a store that is well typed.
LEMMA FieldsAre ==
  ASSUME NEW s \in VfsState, NEW h \in Stores
  PROVE  /\ s[h].tree \in [Paths -> Inodes \cup {Dir, Absent}]
         /\ s[h].wh \subseteq Paths /\ s[h].opq \subseteq Paths
         /\ s[h].deleted \subseteq Paths /\ s[h].opaque \subseteq Paths
         /\ DOMAIN s = Stores
<1> QED BY DEF VfsState

\* A state of the stores is well typed when each of its fields is.
LEMMA FieldsTyped ==
  ASSUME NEW s,
         s = [h \in Stores |-> [tree |-> s[h].tree, wh |-> s[h].wh, opq |-> s[h].opq,
                                deleted |-> s[h].deleted, opaque |-> s[h].opaque]],
         \A h \in Stores :
           /\ s[h].tree \in [Paths -> Inodes \cup {Dir, Absent}]
           /\ s[h].wh \subseteq Paths /\ s[h].opq \subseteq Paths
           /\ s[h].deleted \subseteq Paths /\ s[h].opaque \subseteq Paths
  PROVE  s \in VfsState
<1> QED BY DEF VfsState

\* The directories above a path, from the nearest to the store's root.
LEMMA AboveAre ==
  ASSUME NEW h \in Stores, NEW v \in Paths
  PROVE  /\ \A a \in VPath : a \in Above[h][v] <=> Within(v, a) /\ a # v /\ Within(a, StoreRoot(h))
         /\ Above[h][v] \subseteq Paths
         /\ \A a \in Above[h][v] : Within(v, a) /\ a # v /\ Within(a, StoreRoot(h)) /\ v # Root
         /\ v # StoreRoot(h) /\ Holds(h, v) =>
              /\ v # Root /\ ParentVRel(v) \in Above[h][v] /\ Holds(h, ParentVRel(v))
              /\ Above[h][v] = Above[h][ParentVRel(v)] \cup {ParentVRel(v)}
         /\ Above[h][StoreRoot(h)] = {}
<1>1. \A w \in Paths : Above[h][w] = {a \in Ancestors(w) : Within(a, StoreRoot(h))}
  BY DEF Above, Holds
<1>2. /\ v \in VPath /\ StoreRoot(h) \in VPath /\ StoreRoot(h) \in Paths
      /\ Ancestors(v) \subseteq Paths /\ Paths \subseteq VPath
  BY PathsAre, StoresAre
<1>3. \A w \in Paths : \A a \in VPath :
        a \in Above[h][w] <=> Within(w, a) /\ a # w /\ Within(a, StoreRoot(h))
  BY <1>1, <1>2, AncestorsAre
<1>4. \A w \in Paths : Above[h][w] \subseteq Paths
  BY <1>1, PathsAre
<1>5. \A a \in Above[h][v] : Within(v, a) /\ a # v /\ Within(a, StoreRoot(h)) /\ v # Root
  BY <1>2, <1>3, <1>4, WithinRoot
<1>6. ASSUME v # StoreRoot(h), Holds(h, v)
      PROVE  /\ v # Root /\ ParentVRel(v) \in Above[h][v] /\ Holds(h, ParentVRel(v))
             /\ Above[h][v] = Above[h][ParentVRel(v)] \cup {ParentVRel(v)}
  <2>1. v # Root
    BY <1>2, <1>6, WithinRoot DEF Holds
  <2>2. /\ ParentVRel(v) \in VPath /\ ParentVRel(v) # v /\ Within(v, ParentVRel(v))
        /\ \A a \in VPath : Within(v, a) /\ a # v <=> Within(ParentVRel(v), a)
        /\ ParentVRel(v) \in Paths
    BY <1>2, <2>1, ParentIs, PathsAre
  <2>3. Within(ParentVRel(v), StoreRoot(h))
    BY <1>2, <1>6, <2>2 DEF Holds
  <2>4. ParentVRel(v) \in Above[h][v]
    BY <1>3, <2>2, <2>3
  <2>5. \A a \in VPath : a \in Above[h][v] <=> a \in Above[h][ParentVRel(v)] \/ a = ParentVRel(v)
    <3> TAKE a \in VPath
    <3>1. a = ParentVRel(v) => a \in Above[h][v]
      BY <2>4
    <3>2. a # ParentVRel(v) => (a \in Above[h][v] <=> a \in Above[h][ParentVRel(v)])
      BY <1>3, <2>2
    <3>3. a \in Above[h][ParentVRel(v)] => a # ParentVRel(v)
      BY <1>3, <2>2
    <3> QED BY <3>1, <3>2, <3>3
  <2>6. Above[h][v] = Above[h][ParentVRel(v)] \cup {ParentVRel(v)}
    BY <1>2, <1>4, <2>2, <2>5
  <2> QED BY <2>1, <2>3, <2>4, <2>6 DEF Holds
<1>7. Above[h][StoreRoot(h)] = {}
  BY <1>2, <1>3, <1>4, WithinAntisymmetric
<1> QED BY <1>2, <1>3, <1>4, <1>5, <1>6, <1>7

\* Home is a store that the path belongs to; so is the writelayer for the
\* whiteout of a kept folder.
LEMMA HomeBelongs ==
  ASSUME KeptOnTop, NEW v \in Paths
  PROVE  /\ Home[v] \in Stores /\ Belongs(Home[v], v)
         /\ Home[v] = Wl \/ v = StoreRoot(Home[v]) => Belongs(Wl, v)
         /\ \A k \in Kept : Holds(k, v) <=> Home[v] = k
         /\ Holds(Wl, v)
<1>1. /\ Home[v] \in {Wl} \cup Kept /\ \A k \in Kept : Home[v] = k <=> Within(v, KeptRoot[k])
  BY HomeIs
<1>2. Holds(Wl, v)
  BY PathsAre, WithinRoot, StoresAre DEF Holds
<1>3. \A k \in Kept : Holds(k, v) <=> Within(v, KeptRoot[k])
  BY StoresAre DEF Holds
<1>4. \A k \in Kept : k # Wl
  BY StoresAre
<1>5. Home[v] \in Stores
  BY <1>1 DEF Stores
<1>6. CASE Home[v] = Wl
  BY <1>1, <1>2, <1>3, <1>4, <1>5, <1>6 DEF Belongs
<1>7. CASE Home[v] \in Kept
  <2>1. \A k \in Kept : Within(v, KeptRoot[k]) => k = Home[v]
    BY <1>1
  <2>2. Belongs(Home[v], v)
    BY <1>1, <1>3, <1>4, <1>5, <1>7 DEF Belongs
  <2>3. v = StoreRoot(Home[v]) => Belongs(Wl, v)
    BY <1>2, <1>7, <2>1, StoresAre DEF Belongs
  <2> QED BY <1>1, <1>2, <1>3, <1>4, <1>5, <1>7, <2>2, <2>3
<1> QED BY <1>1, <1>6, <1>7

(***************************************************************************)
(* The helpers, field by field.                                            *)
(***************************************************************************)
LEMMA EnsureParentIs ==
  ASSUME NEW s \in VfsState, NEW h \in Stores, NEW v \in Paths
  PROVE  LET e == EnsureParent(s, h, v)
         IN  /\ e \in VfsState
             /\ \A g \in Stores : /\ g # h => e[g] = s[g]
                                  /\ e[g].wh = s[g].wh /\ e[g].opq = s[g].opq
                                  /\ e[g].deleted = s[g].deleted /\ e[g].opaque = s[g].opaque
             /\ \A p \in Paths :
                  e[h].tree[p] = IF p \in Above[h][v] /\ s[h].tree[p] = Absent THEN Dir
                                 ELSE s[h].tree[p]
<1> DEFINE t == [p \in Paths |-> IF p \in Above[h][v] /\ s[h].tree[p] = Absent THEN Dir
                               ELSE s[h].tree[p]]
           e == EnsureParent(s, h, v)
<1>1. s[h].tree \in [Paths -> Inodes \cup {Dir, Absent}]
  BY FieldsAre
<1>2. t \in [Paths -> Inodes \cup {Dir, Absent}]
  BY <1>1
<1>3. \A p \in Paths : t[p] = IF p \in Above[h][v] /\ s[h].tree[p] = Absent THEN Dir
                                                                   ELSE s[h].tree[p]
  OBVIOUS
<1>5. e = [s EXCEPT ![h].tree = t]
  BY DEF EnsureParent
<1> HIDE DEF t, e
<1>6. e \in VfsState /\ e[h].tree = t
  BY <1>2, <1>5 DEF VfsState
<1>7. \A g \in Stores : /\ g # h => e[g] = s[g]
                        /\ e[g].wh = s[g].wh /\ e[g].opq = s[g].opq
                        /\ e[g].deleted = s[g].deleted /\ e[g].opaque = s[g].opaque
  BY <1>5 DEF VfsState
<1> QED BY <1>3, <1>6, <1>7 DEF e

\* Making the directory that v is in keeps a good state good, and v's
\* directories are there then.
LEMMA EnsureParentGood ==
  ASSUME NEW s, Good(s), NEW h, NEW v, Belongs(h, v), Clear(s, h, v)
  PROVE  LET e == EnsureParent(s, h, v)
         IN  /\ Good(e)
             /\ Masked(s) => Masked(e)
             /\ \A a \in Above[h][v] : e[h].tree[a] = Dir
             /\ v # StoreRoot(h) => e[h].tree[ParentVRel(v)] = Dir
             /\ \A p \in Paths : ~Within(v, p) \/ p = v => e[h].tree[p] = s[h].tree[p]
             /\ \A p \in Paths : s[h].tree[p] # Absent => e[h].tree[p] = s[h].tree[p]
<1> DEFINE e == EnsureParent(s, h, v)
<1>1. h \in Stores /\ v \in Paths /\ s \in VfsState
  BY DEF Belongs, Good
<1>2. /\ e \in VfsState
      /\ \A g \in Stores : /\ g # h => e[g] = s[g]
                           /\ e[g].wh = s[g].wh /\ e[g].opq = s[g].opq
                           /\ e[g].deleted = s[g].deleted /\ e[g].opaque = s[g].opaque
      /\ \A p \in Paths :
           e[h].tree[p] = IF p \in Above[h][v] /\ s[h].tree[p] = Absent THEN Dir
                          ELSE s[h].tree[p]
  BY <1>1, EnsureParentIs
<1> HIDE DEF e
<1>3. Above[h][v] \subseteq Paths /\ \A a \in Above[h][v] : Within(v, a) /\ a # v /\ Holds(h, a)
  BY <1>1, AboveAre DEF Holds
<1>4. \A a \in Above[h][v] : e[h].tree[a] = Dir
  BY <1>2, <1>3 DEF Clear
<1>5. ASSUME v # StoreRoot(h) PROVE e[h].tree[ParentVRel(v)] = Dir
  BY <1>1, <1>4, <1>5, AboveAre DEF Belongs
<1>6. HostTree(e)
  <2>1. e[h].tree[StoreRoot(h)] = Dir
    BY <1>1, <1>2, StoresAre, Distinct DEF Good, HostTree
  <2>2. ASSUME NEW p \in Paths \ {StoreRoot(h)}, e[h].tree[p] # Absent \/ p \in e[h].wh
        PROVE  Holds(h, p) /\ e[h].tree[ParentVRel(p)] = Dir
    <3>1. CASE p \in Above[h][v]
      <4>1. Holds(h, p) /\ ParentVRel(p) \in Above[h][p] /\ Above[h][p] \subseteq Paths
        BY <1>1, <1>3, <3>1, AboveAre
      <4>2. Within(v, p) /\ Within(p, ParentVRel(p)) /\ ParentVRel(p) # p
            /\ Within(ParentVRel(p), StoreRoot(h)) /\ ParentVRel(p) \in VPath
        BY <1>1, <1>3, <3>1, <4>1, AboveAre, PathsAre
      <4>3. Within(v, ParentVRel(p)) /\ ParentVRel(p) # v
        BY <1>1, <1>3, <3>1, <4>2, PathsAre, WithinTransitive, WithinAntisymmetric
      <4>4. ParentVRel(p) \in Above[h][v]
        BY <1>1, <4>2, <4>3, AboveAre
      <4> QED BY <1>4, <4>1, <4>4
    <3>2. CASE p \notin Above[h][v]
      <4>1. s[h].tree[p] # Absent \/ p \in s[h].wh
        BY <1>1, <1>2, <2>2, <3>2
      <4>2. Holds(h, p) /\ s[h].tree[ParentVRel(p)] = Dir
        BY <1>1, <4>1 DEF Good, HostTree
      <4>3. ParentVRel(p) \in Paths
        BY <1>1, <4>2, AboveAre
      <4> QED BY <1>2, <4>2, <4>3, Distinct
    <3> QED BY <3>1, <3>2
  <2>3. \A p \in e[h].opq : e[h].tree[p] = Dir
    BY <1>1, <1>2, FieldsAre, Distinct DEF Good, HostTree
  <2>4. \A g \in Stores \ {h} : e[g] = s[g]
    BY <1>2
  <2> QED BY <1>1, <2>1, <2>2, <2>3, <2>4 DEF Good, HostTree
<1>7. Apart(e)
  <2>1. \A p \in Paths \ {Root} : \A k \in Kept : Within(p, KeptRoot[k]) => e[Wl].tree[p] = Absent
    <3> TAKE p \in Paths \ {Root}
    <3> TAKE k \in Kept
    <3> HAVE Within(p, KeptRoot[k])
    <3>1. s[Wl].tree[p] = Absent
      BY DEF Good, Apart
    <3>2. CASE h # Wl
      BY <1>2, <3>1, <3>2, StoresAre
    <3>3. CASE h = Wl
      <4>1. SUFFICES ASSUME p \in Above[h][v] PROVE FALSE
        BY <1>2, <3>1, <3>3
      <4>2. Within(v, p) /\ p # v
        BY <1>3, <4>1
      <4>3. KeptRoot[k] \in VPath
        BY KeptAre, PathsAre
      <4>4. Within(v, KeptRoot[k])
        BY <1>1, <4>2, <4>3, PathsAre, WithinTransitive
      <4>5. v = KeptRoot[k]
        BY <3>3, <4>4 DEF Belongs
      <4> QED BY <1>1, <4>2, <4>5, PathsAre, WithinAntisymmetric
    <3> QED BY <3>2, <3>3
  <2> QED BY <1>2, <2>1, StoresAre DEF Good, Apart
<1>8. Masked(s) => Masked(e)
  BY <1>2 DEF Masked
<1>9. \A p \in Paths : ~Within(v, p) \/ p = v => e[h].tree[p] = s[h].tree[p]
  BY <1>2, <1>3
<1>10. \A p \in Paths : s[h].tree[p] # Absent => e[h].tree[p] = s[h].tree[p]
  BY <1>2
<1> QED BY <1>2, <1>4, <1>5, <1>6, <1>7, <1>8, <1>9, <1>10 DEF Good, e

\* No directory above v has a whiteout in the writelayer.
Unhidden(s, v) == \A a \in Paths : Within(v, a) /\ a # v => a \notin s[Wl].wh

\* Making the directory that v is in puts nothing below a marker.
LEMMA EnsureParentBare ==
  ASSUME NEW s, Good(s), NEW h \in Stores, NEW v \in Paths, Bare(s), Unhidden(s, v)
  PROVE  Bare(EnsureParent(s, h, v)) /\ Unhidden(EnsureParent(s, h, v), v)
<1> DEFINE e == EnsureParent(s, h, v)
<1>1. s \in VfsState
  BY DEF Good
<1>2. /\ \A g \in Stores : (g # h => e[g] = s[g]) /\ e[g].wh = s[g].wh
      /\ \A p \in Paths :
           e[h].tree[p] = IF p \in Above[h][v] /\ s[h].tree[p] = Absent THEN Dir
                          ELSE s[h].tree[p]
  BY <1>1, EnsureParentIs
<1> HIDE DEF e
<1>3. ASSUME NEW w \in e[Wl].wh, NEW p \in Paths, Within(p, w) PROVE e[Wl].tree[p] = Absent
  <2>1. w \in s[Wl].wh /\ w \in Paths
    BY <1>1, <1>2, StoresAre, FieldsAre
  <2>2. s[Wl].tree[p] = Absent
    BY <1>3, <2>1 DEF Bare
  <2>3. CASE h # Wl
    BY <1>2, <2>2, <2>3, StoresAre
  <2>4. CASE h = Wl
    <3>1. SUFFICES ASSUME p \in Above[h][v] PROVE FALSE
      BY <1>2, <2>2, <2>4
    <3>2. Within(v, p) /\ p # v
      BY <3>1, AboveAre
    <3>3. Within(v, w) /\ w # v
      BY <1>3, <2>1, <3>2, PathsAre, WithinTransitive, WithinAntisymmetric
    <3> QED BY <2>1, <3>3 DEF Unhidden
  <2> QED BY <2>3, <2>4
<1>4. Unhidden(e, v)
  BY <1>2, StoresAre DEF Unhidden
<1> QED BY <1>3, <1>4 DEF Bare, e

\* Taking markers and masks away keeps a good state good.
LEMMA RemovalGood ==
  ASSUME NEW s, Good(s), NEW e \in VfsState,
         \A g \in Stores : /\ e[g].tree = s[g].tree
                           /\ e[g].wh \subseteq s[g].wh /\ e[g].opq \subseteq s[g].opq
                           /\ e[g].deleted \subseteq s[g].deleted
                           /\ e[g].opaque \subseteq s[g].opaque
  PROVE  Good(e) /\ (Bare(s) => Bare(e)) /\ \A v : Unhidden(s, v) => Unhidden(e, v)
<1>1. HostTree(e)
  BY DEF Good, HostTree
<1>2. Apart(e)
  BY StoresAre DEF Good, Apart
<1>3. Bare(s) => Bare(e)
  BY StoresAre DEF Bare
<1>4. \A v : Unhidden(s, v) => Unhidden(e, v)
  BY StoresAre DEF Unhidden
<1> QED BY <1>1, <1>2, <1>3, <1>4 DEF Good

\* A whiteout goes, with its mask.
LEMMA RemoveWhiteoutGood ==
  ASSUME NEW s, Good(s), NEW v \in Paths
  PROVE  LET e == RemoveWhiteout(s, v)
         IN  /\ Good(e) /\ (Masked(s) => Masked(e)) /\ (Bare(s) => Bare(e))
             /\ v \notin e[Wl].wh /\ v \notin e[Wl].deleted
             /\ e[Wl].wh = s[Wl].wh \ {v} /\ e[Wl].deleted = s[Wl].deleted \ {v}
             /\ \A g \in Stores : /\ e[g].tree = s[g].tree /\ (g # Wl => e[g] = s[g])
                                  /\ e[g].opq = s[g].opq /\ e[g].opaque = s[g].opaque
             /\ \A w : Unhidden(s, w) => Unhidden(e, w)
<1> DEFINE e == RemoveWhiteout(s, v)
<1>1. s \in VfsState
  BY DEF Good
<1>2. /\ e \in VfsState
      /\ e[Wl].wh = s[Wl].wh \ {v} /\ e[Wl].deleted = s[Wl].deleted \ {v}
      /\ \A g \in Stores : /\ e[g].tree = s[g].tree /\ (g # Wl => e[g] = s[g])
                           /\ e[g].opq = s[g].opq /\ e[g].opaque = s[g].opaque
  BY <1>1, StoresAre DEF VfsState, RemoveWhiteout
<1> HIDE DEF e
<1>3. \A g \in Stores : e[g].wh \subseteq s[g].wh /\ e[g].deleted \subseteq s[g].deleted
  BY <1>2
<1>4. Good(e) /\ (Bare(s) => Bare(e)) /\ \A w : Unhidden(s, w) => Unhidden(e, w)
  BY <1>2, <1>3, RemovalGood
<1>5. Masked(s) => Masked(e)
  <2> SUFFICES ASSUME Masked(s), NEW h \in Stores
               PROVE  /\ e[h].wh \subseteq e[h].deleted /\ e[h].opq \subseteq e[h].opaque
                      /\ "marker" \notin HostFaults => e[h].deleted = e[h].wh /\ e[h].opaque = e[h].opq
    BY DEF Masked
  <2>1. CASE h = Wl
    BY <1>2, <2>1 DEF Masked
  <2>2. CASE h # Wl
    BY <1>2, <2>2 DEF Masked
  <2> QED BY <2>1, <2>2
<1> QED BY <1>2, <1>4, <1>5 DEF e

\* An entry is put where its directory is: a file, or a directory.
LEMMA PutGood ==
  ASSUME NEW s, Good(s), NEW h, NEW v, NEW entry \in Inodes \cup {Dir},
         h \in Stores, v \in Paths, v # StoreRoot(h), Holds(h, v),
         h = Wl => \A k \in Kept : ~Within(v, KeptRoot[k]),
         s[h].tree[ParentVRel(v)] = Dir, entry # Dir => s[h].tree[v] # Dir
  PROVE  LET e == Put(s, h, v, entry)
         IN  /\ Good(e) /\ (Masked(s) => Masked(e))
             /\ e[h].tree[v] = entry
             /\ \A g \in Stores : /\ \A p \in Paths : g # h \/ p # v => e[g].tree[p] = s[g].tree[p]
                                  /\ e[g].wh = s[g].wh /\ e[g].opq = s[g].opq
                                  /\ e[g].deleted = s[g].deleted /\ e[g].opaque = s[g].opaque
             /\ Bare(s) /\ (h = Wl => Unhidden(s, v) /\ v \notin s[Wl].wh) => Bare(e)
             /\ \A w : Unhidden(s, w) => Unhidden(e, w)
<1> DEFINE e == Put(s, h, v, entry)
<1>1. s \in VfsState /\ HostTree(s) /\ Apart(s)
  BY DEF Good
<1>2. /\ e \in VfsState /\ e[h].tree[v] = entry
      /\ \A g \in Stores : /\ \A p \in Paths : g # h \/ p # v => e[g].tree[p] = s[g].tree[p]
                           /\ e[g].wh = s[g].wh /\ e[g].opq = s[g].opq
                           /\ e[g].deleted = s[g].deleted /\ e[g].opaque = s[g].opaque
  BY <1>1 DEF VfsState, Put
<1> HIDE DEF e
<1>3. HostTree(e)
  <2> SUFFICES ASSUME NEW g \in Stores
               PROVE  /\ e[g].tree[StoreRoot(g)] = Dir
                      /\ \A p \in Paths \ {StoreRoot(g)} :
                           e[g].tree[p] # Absent \/ p \in e[g].wh =>
                             Holds(g, p) /\ e[g].tree[ParentVRel(p)] = Dir
                      /\ \A p \in e[g].opq : e[g].tree[p] = Dir
    BY DEF HostTree
  <2>1. CASE g # h
    <3>1. \A p \in Paths \ {StoreRoot(g)} : Holds(g, p) => ParentVRel(p) \in Paths
      BY StoresAre, AboveAre
    <3> QED BY <1>1, <1>2, <2>1, <3>1, StoresAre, FieldsAre DEF HostTree
  <2>2. CASE g = h
    <3>1. e[h].tree[StoreRoot(h)] = Dir
      BY <1>1, <1>2, StoresAre DEF HostTree
    <3>2. ASSUME NEW p \in Paths \ {StoreRoot(h)}, e[h].tree[p] # Absent \/ p \in e[h].wh
          PROVE  Holds(h, p) /\ e[h].tree[ParentVRel(p)] = Dir
      <4>1. Holds(h, p) /\ s[h].tree[ParentVRel(p)] = Dir
        BY <1>1, <1>2, <3>2 DEF HostTree
      <4>2. ParentVRel(p) \in Paths
        BY <4>1, AboveAre
      <4> QED BY <1>2, <4>1, <4>2
    <3>3. \A p \in e[h].opq : e[h].tree[p] = Dir
      BY <1>1, <1>2, FieldsAre DEF HostTree
    <3> QED BY <2>2, <3>1, <3>2, <3>3
  <2> QED BY <2>1, <2>2
<1>4. Apart(e)
  BY <1>1, <1>2, StoresAre DEF Apart
<1>5. Masked(s) => Masked(e)
  BY <1>2 DEF Masked
<1>6. ASSUME Bare(s), h = Wl => Unhidden(s, v) /\ v \notin s[Wl].wh PROVE Bare(e)
  <2> SUFFICES ASSUME NEW w \in e[Wl].wh, NEW p \in Paths, Within(p, w) PROVE e[Wl].tree[p] = Absent
    BY DEF Bare
  <2>1. w \in s[Wl].wh /\ w \in Paths /\ s[Wl].tree[p] = Absent
    BY <1>1, <1>2, <1>6, StoresAre, FieldsAre DEF Bare
  <2>2. h # Wl \/ p # v
    BY <1>6, <2>1 DEF Unhidden
  <2> QED BY <1>2, <2>1, <2>2, StoresAre
<1>7. \A w : Unhidden(s, w) => Unhidden(e, w)
  BY <1>2, StoresAre DEF Unhidden
<1> QED BY <1>2, <1>3, <1>4, <1>5, <1>6, <1>7 DEF Good, e

\* An entry that holds nothing is taken away.
LEMMA TakeGood ==
  ASSUME NEW s, Good(s), NEW h \in Stores, NEW v \in Paths, v # StoreRoot(h),
         \A c \in Children(v) : s[h].tree[c] = Absent /\ c \notin s[h].wh,
         v \notin s[h].opq
  PROVE  LET e == Put(s, h, v, Absent)
         IN  /\ Good(e) /\ (Masked(s) => Masked(e)) /\ (Bare(s) => Bare(e))
             /\ e[h].tree[v] = Absent
             /\ \A g \in Stores : /\ \A p \in Paths : g # h \/ p # v => e[g].tree[p] = s[g].tree[p]
                                  /\ e[g].wh = s[g].wh /\ e[g].opq = s[g].opq
                                  /\ e[g].deleted = s[g].deleted /\ e[g].opaque = s[g].opaque
             /\ \A w : Unhidden(s, w) => Unhidden(e, w)
<1> DEFINE e == Put(s, h, v, Absent)
<1>1. s \in VfsState /\ HostTree(s) /\ Apart(s)
  BY DEF Good
<1>2. /\ e \in VfsState /\ e[h].tree[v] = Absent
      /\ \A g \in Stores : /\ \A p \in Paths : g # h \/ p # v => e[g].tree[p] = s[g].tree[p]
                           /\ e[g].wh = s[g].wh /\ e[g].opq = s[g].opq
                           /\ e[g].deleted = s[g].deleted /\ e[g].opaque = s[g].opaque
  BY <1>1 DEF VfsState, Put
<1> HIDE DEF e
<1>3. HostTree(e)
  <2> SUFFICES ASSUME NEW g \in Stores
               PROVE  /\ e[g].tree[StoreRoot(g)] = Dir
                      /\ \A p \in Paths \ {StoreRoot(g)} :
                           e[g].tree[p] # Absent \/ p \in e[g].wh =>
                             Holds(g, p) /\ e[g].tree[ParentVRel(p)] = Dir
                      /\ \A p \in e[g].opq : e[g].tree[p] = Dir
    BY DEF HostTree
  <2>1. e[g].tree[StoreRoot(g)] = Dir
    BY <1>1, <1>2, StoresAre DEF HostTree
  <2>2. ASSUME NEW p \in Paths \ {StoreRoot(g)}, e[g].tree[p] # Absent \/ p \in e[g].wh
        PROVE  Holds(g, p) /\ e[g].tree[ParentVRel(p)] = Dir
    <3>1. s[g].tree[p] # Absent \/ p \in s[g].wh
      BY <1>2, <2>2
    <3>2. Holds(g, p) /\ s[g].tree[ParentVRel(p)] = Dir
      BY <1>1, <3>1 DEF HostTree
    <3>3. ParentVRel(p) \in Paths /\ p # Root
      BY <3>2, AboveAre
    <3>4. g # h \/ ParentVRel(p) # v
      BY <3>1, <3>3 DEF Children
    <3> QED BY <1>2, <3>2, <3>3, <3>4
  <2>3. \A p \in e[g].opq : e[g].tree[p] = Dir
    BY <1>1, <1>2, FieldsAre DEF HostTree
  <2> QED BY <2>1, <2>2, <2>3
<1>4. Apart(e)
  BY <1>1, <1>2, StoresAre DEF Apart
<1>5. Masked(s) => Masked(e)
  BY <1>2 DEF Masked
<1>6. Bare(s) => Bare(e)
  BY <1>2, StoresAre DEF Bare
<1>7. \A w : Unhidden(s, w) => Unhidden(e, w)
  BY <1>2, StoresAre DEF Unhidden
<1> QED BY <1>2, <1>3, <1>4, <1>5, <1>6, <1>7 DEF Good, e

\* A whiteout, and an opaque marker, put in store h.
Whiteout(s, h, v, written) ==
  [s EXCEPT ![h].wh = IF written THEN @ \cup {v} ELSE @, ![h].deleted = @ \cup {v}]

OpaqueMark(s, h, v, written) ==
  [s EXCEPT ![h].opq = IF written THEN @ \cup {v} ELSE @, ![h].opaque = @ \cup {v}]

\* A whiteout is written where its directory is, and masked.
LEMMA WhiteoutGood ==
  ASSUME NEW s, Good(s), NEW h, NEW v, NEW written \in BOOLEAN, Belongs(h, v), v # StoreRoot(h),
         s[h].tree[ParentVRel(v)] = Dir, "marker" \notin HostFaults => written
  PROVE  LET e == Whiteout(s, h, v, written)
         IN  /\ Good(e) /\ (Masked(s) => Masked(e))
             /\ Bare(s) /\ (h = Wl => \A p \in Paths : Within(p, v) => s[Wl].tree[p] = Absent)
                  => Bare(e)
             /\ \A g \in Stores : /\ e[g].tree = s[g].tree
                                  /\ e[g].opq = s[g].opq /\ e[g].opaque = s[g].opaque
                                  /\ g # h => e[g] = s[g]
             /\ v \in e[h].deleted /\ s[h].deleted \subseteq e[h].deleted
<1> DEFINE e == Whiteout(s, h, v, written)
<1>1. s \in VfsState /\ HostTree(s) /\ Apart(s) /\ h \in Stores /\ v \in Paths /\ Holds(h, v)
  BY DEF Good, Belongs
<1>2. /\ e \in VfsState
      /\ e[h].wh = (IF written THEN s[h].wh \cup {v} ELSE s[h].wh)
      /\ e[h].deleted = s[h].deleted \cup {v}
      /\ \A g \in Stores : /\ e[g].tree = s[g].tree
                           /\ e[g].opq = s[g].opq /\ e[g].opaque = s[g].opaque
                           /\ g # h => e[g] = s[g]
  BY <1>1 DEF VfsState, Whiteout
<1> HIDE DEF e
<1>3. HostTree(e)
  BY <1>1, <1>2 DEF HostTree
<1>4. Apart(e)
  <2>1. \A g \in Stores : StoreRoot(g) \notin e[g].wh \cup e[g].deleted
    BY <1>1, <1>2 DEF Apart
  <2>2. ASSUME NEW p \in Paths \ {Root}, NEW k \in Kept, Within(p, KeptRoot[k])
        PROVE  /\ e[Wl].tree[p] = Absent
               /\ p \notin e[Wl].opq \cup e[Wl].opaque
               /\ p \in e[Wl].wh \cup e[Wl].deleted => p = KeptRoot[k]
    <3>1. CASE h = Wl
      BY <1>1, <1>2, <2>2, <3>1 DEF Apart, Belongs
    <3>2. CASE h # Wl
      BY <1>1, <1>2, <2>2, <3>2, StoresAre DEF Apart
    <3> QED BY <3>1, <3>2
  <2> QED BY <2>1, <2>2 DEF Apart
<1>5. Masked(s) => Masked(e)
  <2> SUFFICES ASSUME Masked(s), NEW g \in Stores
               PROVE  /\ e[g].wh \subseteq e[g].deleted /\ e[g].opq \subseteq e[g].opaque
                      /\ "marker" \notin HostFaults => e[g].deleted = e[g].wh /\ e[g].opaque = e[g].opq
    BY DEF Masked
  <2>1. CASE g = h
    BY <1>2, <2>1 DEF Masked
  <2>2. CASE g # h
    BY <1>2, <2>2 DEF Masked
  <2> QED BY <2>1, <2>2
<1>6. Bare(s) /\ (h = Wl => \A p \in Paths : Within(p, v) => s[Wl].tree[p] = Absent) => Bare(e)
  BY <1>2, StoresAre DEF Bare
<1> QED BY <1>2, <1>3, <1>4, <1>5, <1>6 DEF Good, e

\* A directory is marked opaque, and masked.
LEMMA OpaqueMarkGood ==
  ASSUME NEW s, Good(s), NEW h \in Stores, NEW v \in Paths, NEW written \in BOOLEAN,
         h = Wl => \A k \in Kept : ~Within(v, KeptRoot[k]),
         s[h].tree[v] = Dir, "marker" \notin HostFaults => written
  PROVE  LET e == OpaqueMark(s, h, v, written)
         IN  /\ Good(e) /\ (Masked(s) => Masked(e)) /\ (Bare(s) => Bare(e))
             /\ \A g \in Stores : /\ e[g].tree = s[g].tree
                                  /\ e[g].wh = s[g].wh /\ e[g].deleted = s[g].deleted
                                  /\ g # h => e[g] = s[g]
             /\ \A w : Unhidden(s, w) => Unhidden(e, w)
<1> DEFINE e == OpaqueMark(s, h, v, written)
<1>1. s \in VfsState /\ HostTree(s) /\ Apart(s)
  BY DEF Good
<1>2. /\ e \in VfsState
      /\ e[h].opq = (IF written THEN s[h].opq \cup {v} ELSE s[h].opq)
      /\ e[h].opaque = s[h].opaque \cup {v}
      /\ \A g \in Stores : /\ e[g].tree = s[g].tree
                           /\ e[g].wh = s[g].wh /\ e[g].deleted = s[g].deleted
                           /\ g # h => e[g] = s[g]
  BY <1>1 DEF VfsState, OpaqueMark
<1> HIDE DEF e
<1>3. HostTree(e)
  BY <1>1, <1>2 DEF HostTree
<1>4. Apart(e)
  <2>1. ASSUME NEW p \in Paths \ {Root}, NEW k \in Kept, Within(p, KeptRoot[k])
        PROVE  p \notin e[Wl].opq \cup e[Wl].opaque
    <3>1. CASE h = Wl
      BY <1>1, <1>2, <2>1, <3>1 DEF Apart
    <3>2. CASE h # Wl
      BY <1>1, <1>2, <2>1, <3>2, StoresAre DEF Apart
    <3> QED BY <3>1, <3>2
  <2> QED BY <1>1, <1>2, <2>1, StoresAre DEF Apart
<1>5. Masked(s) => Masked(e)
  <2> SUFFICES ASSUME Masked(s), NEW g \in Stores
               PROVE  /\ e[g].wh \subseteq e[g].deleted /\ e[g].opq \subseteq e[g].opaque
                      /\ "marker" \notin HostFaults => e[g].deleted = e[g].wh /\ e[g].opaque = e[g].opq
    BY DEF Masked
  <2>1. CASE g = h
    BY <1>2, <2>1 DEF Masked
  <2>2. CASE g # h
    BY <1>2, <2>2 DEF Masked
  <2> QED BY <2>1, <2>2
<1>6. (Bare(s) => Bare(e)) /\ \A w : Unhidden(s, w) => Unhidden(e, w)
  BY <1>2, StoresAre DEF Bare, Unhidden
<1> QED BY <1>2, <1>3, <1>4, <1>5, <1>6 DEF Good, e

\* A marker that could not be written is an injected fault.
LEMMA MarkerWrittenIs ==
  \A w \in MarkerWritten : w \in BOOLEAN /\ ("marker" \notin HostFaults => w)
<1> QED BY DEF MarkerWritten

(***************************************************************************)
(* Hiding, showing again, and masking a directory.                         *)
(***************************************************************************)
\* The stores that HideLower may write v's marker to.
HidesIn(v) == IF Home[v] = Wl \/ v = StoreRoot(Home[v]) THEN Wl ELSE Home[v]

\* A name may have its marker there.
LEMMA HidesInBelongs ==
  ASSUME KeptOnTop, NEW v \in Paths, v # Root
  PROVE  Belongs(HidesIn(v), v) /\ v # StoreRoot(HidesIn(v)) /\ HidesIn(v) \in Stores
<1> QED BY HomeBelongs, StoresAre DEF HidesIn

\* HideLower, whether or not the marker can be written.
LEMMA HideLowerGood ==
  ASSUME KeptOnTop, NEW s, Good(s), NEW v \in Paths, v # Root, Clear(s, HidesIn(v), v),
         NEW r \in HideLower(s, v)
  PROVE  /\ Good(r.s) /\ (Masked(s) => Masked(r.s)) /\ r.code \in Codes
         /\ Bare(s) /\ Unhidden(s, v) /\ (\A p \in Paths : Within(p, v) => s[Wl].tree[p] = Absent)
              => Bare(r.s)
<1> DEFINE h == HidesIn(v)
           e == EnsureParent(s, h, v)
<1>1. Belongs(h, v) /\ v # StoreRoot(h) /\ h \in Stores
  BY HidesInBelongs
<1>2. s \in VfsState
  BY DEF Good
<1>3. /\ Good(e) /\ (Masked(s) => Masked(e)) /\ e[h].tree[ParentVRel(v)] = Dir
      /\ \A p \in Paths : ~Within(v, p) \/ p = v => e[h].tree[p] = s[h].tree[p]
  BY <1>1, EnsureParentGood
<1>4. /\ Bare(s) /\ Unhidden(s, v) => Bare(e)
      /\ \A g \in Stores : g # h => e[g] = s[g]
  BY <1>1, <1>2, EnsureParentBare, EnsureParentIs
<1>5. (\A p \in Paths : Within(p, v) => s[Wl].tree[p] = Absent)
        => (h = Wl => \A p \in Paths : Within(p, v) => e[Wl].tree[p] = Absent)
  <2> SUFFICES ASSUME \A p \in Paths : Within(p, v) => s[Wl].tree[p] = Absent, h = Wl,
                      NEW p \in Paths, Within(p, v)
               PROVE  e[Wl].tree[p] = Absent
    OBVIOUS
  <2>1. ~Within(v, p) \/ p = v
    BY PathsAre, WithinAntisymmetric
  <2> QED BY <1>3, <2>1
<1>6. \E written \in BOOLEAN :
        /\ "marker" \notin HostFaults => written
        /\ r = Outcome(Whiteout(e, h, v, written), "ok") \/ r = Outcome(e, EIO)
  <2>1. CASE h = Wl /\ (Home[v] = Wl \/ v = StoreRoot(Home[v]))
    <3>1. PICK w \in MarkerWritten : r = Outcome(CreateWhiteout(s, v, w), "ok")
      BY <2>1 DEF HideLower
    <3>2. CreateWhiteout(s, v, w) = Whiteout(e, h, v, w)
      BY <2>1 DEF CreateWhiteout, Whiteout
    <3> QED BY <3>1, <3>2, MarkerWrittenIs
  <2>2. CASE ~(Home[v] = Wl \/ v = StoreRoot(Home[v]))
    <3>1. h = Home[v]
      BY <2>2 DEF HidesIn
    <3>2. \/ r = Outcome(KeptHide(s, h, v), "ok")
          \/ r = Outcome(e, EIO)
      BY <2>2, <3>1 DEF HideLower
    <3>3. KeptHide(s, h, v) = Whiteout(e, h, v, TRUE)
      BY DEF KeptHide, Whiteout
    <3> QED BY <3>2, <3>3
  <2> QED BY <2>1, <2>2 DEF HidesIn
<1> HIDE DEF e, h
<1>7. PICK written \in BOOLEAN :
        /\ "marker" \notin HostFaults => written
        /\ r = Outcome(Whiteout(e, h, v, written), "ok") \/ r = Outcome(e, EIO)
  BY <1>6
<1>8. CASE r = Outcome(e, EIO)
  BY <1>3, <1>4, <1>8 DEF Outcome, EIO, Codes
<1>9. CASE r = Outcome(Whiteout(e, h, v, written), "ok")
  <2>1. r.s = Whiteout(e, h, v, written) /\ r.code \in Codes
    BY <1>9 DEF Outcome, Codes
  <2> QED BY <1>1, <1>3, <1>4, <1>5, <1>7, <2>1, WhiteoutGood
<1> QED BY <1>7, <1>8, <1>9

\* UnhideLower, whether or not the marker can be removed.
LEMMA UnhideLowerGood ==
  ASSUME KeptOnTop, NEW s, Good(s), NEW v \in Paths, NEW e \in UnhideLower(s, v)
  PROVE  /\ Good(e) /\ (Masked(s) => Masked(e)) /\ (Bare(s) => Bare(e))
         /\ \A g \in Stores : e[g].tree = s[g].tree
         /\ \A w : Unhidden(s, w) => Unhidden(e, w)
<1> DEFINE k == Home[v]
           t == [s EXCEPT ![k].wh = @ \ {v}, ![k].deleted = @ \ {v}]
<1>1. k \in Stores /\ s \in VfsState
  BY HomeBelongs DEF Good
<1>2. CASE e = s
  BY <1>2
<1>3. CASE e = RemoveWhiteout(s, v)
  BY <1>3, RemoveWhiteoutGood
<1>4. CASE k # Wl /\ e = RemoveWhiteout(t, v)
  <2>1. /\ t \in VfsState
        /\ t[k].wh = s[k].wh \ {v} /\ t[k].deleted = s[k].deleted \ {v}
        /\ \A g \in Stores : /\ t[g].tree = s[g].tree /\ (g # k => t[g] = s[g])
                             /\ t[g].opq = s[g].opq /\ t[g].opaque = s[g].opaque
    BY <1>1 DEF VfsState
  <2> HIDE DEF t
  <2>2. \A g \in Stores : t[g].wh \subseteq s[g].wh /\ t[g].deleted \subseteq s[g].deleted
    BY <2>1
  <2>3. Good(t) /\ (Bare(s) => Bare(t)) /\ \A w : Unhidden(s, w) => Unhidden(t, w)
    BY <2>1, <2>2, RemovalGood
  <2>4. Masked(s) => Masked(t)
    <3> SUFFICES ASSUME Masked(s), NEW g \in Stores
                 PROVE  /\ t[g].wh \subseteq t[g].deleted /\ t[g].opq \subseteq t[g].opaque
                        /\ "marker" \notin HostFaults => t[g].deleted = t[g].wh /\ t[g].opaque = t[g].opq
      BY DEF Masked
    <3>1. CASE g = k
      BY <2>1, <3>1 DEF Masked
    <3>2. CASE g # k
      BY <2>1, <3>2 DEF Masked
    <3> QED BY <3>1, <3>2
  <2> QED BY <1>4, <2>1, <2>3, <2>4, RemoveWhiteoutGood
<1> QED BY <1>2, <1>3, <1>4 DEF UnhideLower

\* The name is there: what waited for it goes.
LEMMA SettleGood ==
  ASSUME KeptOnTop, NEW s, Good(s), NEW v \in Paths, NEW e \in Settle(s, v)
  PROVE  /\ Good(e) /\ (Masked(s) => Masked(e)) /\ (Bare(s) => Bare(e))
         /\ \A g \in Stores : e[g].tree = s[g].tree
         /\ \A w : Unhidden(s, w) => Unhidden(e, w)
<1>1. CASE e = s
  BY <1>1
<1>2. CASE e \in UnhideLower(s, v)
  BY <1>2, UnhideLowerGood
<1> QED BY <1>1, <1>2 DEF Settle

\* MarkOpaque and KeptMarkOpaque.
LEMMA OpaqueGood ==
  ASSUME KeptOnTop, NEW s, Good(s), NEW v \in Paths, s[Home[v]].tree[v] = Dir,
         NEW r \in Opaque(s, v)
  PROVE  /\ Good(r.s) /\ (Masked(s) => Masked(r.s)) /\ (Bare(s) => Bare(r.s)) /\ r.code \in Codes
         /\ r.code # "ok" => Home[v] # Wl
         /\ \A g \in Stores : r.s[g].tree = s[g].tree /\ r.s[g].wh = s[g].wh
                              /\ r.s[g].deleted = s[g].deleted
         /\ \A w : Unhidden(s, w) => Unhidden(r.s, w)
<1> DEFINE h == Home[v]
<1>1. h \in Stores /\ (h = Wl => \A k \in Kept : ~Within(v, KeptRoot[k]))
  BY HomeIs, HomeBelongs, KeptAre
<1>2. \/ \E written \in BOOLEAN : /\ "marker" \notin HostFaults => written
                                  /\ r = Outcome(OpaqueMark(s, h, v, written), "ok")
      \/ r = Outcome(s, EIO) /\ h # Wl
  <2>1. CASE h = Wl
    <3>1. PICK w \in MarkerWritten : r = Outcome(MarkOpaque(s, v, w), "ok")
      BY <2>1 DEF Opaque
    <3>2. MarkOpaque(s, v, w) = OpaqueMark(s, h, v, w)
      BY <2>1 DEF MarkOpaque, OpaqueMark
    <3> QED BY <3>1, <3>2, MarkerWrittenIs
  <2>2. CASE h # Wl
    <3>1. r = Outcome(KeptMarkOpaque(s, h, v), "ok") \/ r = Outcome(s, EIO)
      BY <2>2 DEF Opaque
    <3>2. KeptMarkOpaque(s, h, v) = OpaqueMark(s, h, v, TRUE)
      BY DEF KeptMarkOpaque, OpaqueMark
    <3> QED BY <2>2, <3>1, <3>2
  <2> QED BY <2>1, <2>2
<1> HIDE DEF h
<1>3. CASE r = Outcome(s, EIO) /\ h # Wl
  BY <1>3 DEF Outcome, EIO, Codes, h
<1>4. ASSUME NEW written \in BOOLEAN, "marker" \notin HostFaults => written,
             r = Outcome(OpaqueMark(s, h, v, written), "ok")
      PROVE  /\ Good(r.s) /\ (Masked(s) => Masked(r.s)) /\ (Bare(s) => Bare(r.s)) /\ r.code \in Codes
             /\ r.code = "ok"
             /\ \A g \in Stores : r.s[g].tree = s[g].tree /\ r.s[g].wh = s[g].wh
                              /\ r.s[g].deleted = s[g].deleted
             /\ \A w : Unhidden(s, w) => Unhidden(r.s, w)
  <2>1. r.s = OpaqueMark(s, h, v, written) /\ r.code = "ok"
    BY <1>4 DEF Outcome
  <2>2. s[h].tree[v] = Dir
    BY DEF h
  <2> QED BY <1>1, <1>4, <2>1, <2>2, OpaqueMarkGood DEF Codes
<1> QED BY <1>2, <1>3, <1>4

\* Before a name is made: its directory is there, and outside kept folders its
\* whiteout is gone.
LEMMA PrepareGood ==
  ASSUME KeptOnTop, NEW s, Good(s), NEW v \in Paths, Clear(s, Home[v], v)
  PROVE  LET e == Prepare(s, v)
         IN  /\ Good(e) /\ (Masked(s) => Masked(e))
             /\ v # StoreRoot(Home[v]) => e[Home[v]].tree[ParentVRel(v)] = Dir
             /\ \A g \in Stores : \A p \in Paths :
                  e[g].tree[p] = s[g].tree[p] \/ (s[g].tree[p] = Absent /\ e[g].tree[p] = Dir)
             /\ \A g \in Stores : \A p \in Paths :
                  g # Home[v] \/ ~Within(v, p) \/ p = v \/ s[g].tree[p] # Absent
                    => e[g].tree[p] = s[g].tree[p]
             /\ \A g \in Stores : /\ e[g].opq = s[g].opq /\ e[g].opaque = s[g].opaque
                                  /\ e[g].wh = IF g = Wl /\ Home[v] = Wl THEN s[g].wh \ {v} ELSE s[g].wh
                                  /\ e[g].deleted = IF g = Wl /\ Home[v] = Wl
                                                    THEN s[g].deleted \ {v} ELSE s[g].deleted
             /\ Bare(s) /\ Unhidden(s, v) => Bare(e) /\ Unhidden(e, v)
<1> DEFINE h == Home[v]
           t == IF h = Wl THEN RemoveWhiteout(s, v) ELSE s
           e == Prepare(s, v)
<1>1. h \in Stores /\ Belongs(h, v)
  BY HomeBelongs
<1>2. /\ Good(t) /\ (Masked(s) => Masked(t)) /\ (Bare(s) => Bare(t))
      /\ \A g \in Stores : /\ t[g].tree = s[g].tree /\ t[g].opq = s[g].opq /\ t[g].opaque = s[g].opaque
                           /\ t[g].wh = IF g = Wl /\ h = Wl THEN s[g].wh \ {v} ELSE s[g].wh
                           /\ t[g].deleted = IF g = Wl /\ h = Wl THEN s[g].deleted \ {v} ELSE s[g].deleted
      /\ \A w : Unhidden(s, w) => Unhidden(t, w)
  <2>1. (h = Wl => t = RemoveWhiteout(s, v)) /\ (h # Wl => t = s)
    OBVIOUS
  <2> HIDE DEF t
  <2>2. CASE h = Wl
    <3>1. t = RemoveWhiteout(s, v)
      BY <2>1, <2>2
    <3>2. t[Wl].wh = s[Wl].wh \ {v} /\ t[Wl].deleted = s[Wl].deleted \ {v}
      BY <3>1, RemoveWhiteoutGood
    <3>3. \A g \in Stores : g # Wl => t[g] = s[g]
      BY <3>1, RemoveWhiteoutGood
    <3>4. /\ Good(t) /\ (Masked(s) => Masked(t)) /\ (Bare(s) => Bare(t))
          /\ \A g \in Stores : t[g].tree = s[g].tree /\ t[g].opq = s[g].opq /\ t[g].opaque = s[g].opaque
          /\ \A w : Unhidden(s, w) => Unhidden(t, w)
      BY <3>1, RemoveWhiteoutGood
    <3> QED BY <2>2, <3>2, <3>3, <3>4
  <2>3. CASE h # Wl
    BY <2>1, <2>3
  <2> QED BY <2>2, <2>3
<1>3. e = EnsureParent(t, h, v)
  BY DEF Prepare
<1> HIDE DEF t, e, h
<1>4. Clear(t, h, v) /\ t \in VfsState
  BY <1>1, <1>2 DEF Clear, Good, h
<1>5. /\ Good(e) /\ (Masked(t) => Masked(e))
      /\ v # StoreRoot(h) => e[h].tree[ParentVRel(v)] = Dir
      /\ \A p \in Paths : ~Within(v, p) \/ p = v => e[h].tree[p] = t[h].tree[p]
      /\ \A p \in Paths : t[h].tree[p] # Absent => e[h].tree[p] = t[h].tree[p]
  BY <1>1, <1>2, <1>3, <1>4, EnsureParentGood DEF h
<1>6. \A g \in Stores : /\ g # h => e[g] = t[g]
                        /\ e[g].wh = t[g].wh /\ e[g].opq = t[g].opq
                        /\ e[g].deleted = t[g].deleted /\ e[g].opaque = t[g].opaque
  BY <1>1, <1>3, <1>4, EnsureParentIs
<1>7. Bare(t) /\ Unhidden(t, v) => Bare(e) /\ Unhidden(e, v)
  BY <1>1, <1>2, <1>3, EnsureParentBare
<1>9. \A g \in Stores : \A p \in Paths :
        e[g].tree[p] = s[g].tree[p] \/ (s[g].tree[p] = Absent /\ e[g].tree[p] = Dir)
  <2> TAKE g \in Stores
  <2> TAKE p \in Paths
  <2>1. t[g].tree = s[g].tree
    BY <1>2
  <2>2. CASE g # h
    BY <1>6, <2>1, <2>2
  <2>3. CASE g = h
    BY <1>1, <1>3, <1>4, <2>1, <2>3, EnsureParentIs
  <2> QED BY <2>2, <2>3
<1>8. \A g \in Stores : \A p \in Paths :
        g # h \/ ~Within(v, p) \/ p = v \/ s[g].tree[p] # Absent => e[g].tree[p] = s[g].tree[p]
  <2> TAKE g \in Stores
  <2> TAKE p \in Paths
  <2>1. t[g].tree = s[g].tree
    BY <1>2
  <2>2. CASE g # h
    BY <1>6, <2>1, <2>2
  <2>3. CASE g = h
    BY <1>5, <2>1, <2>3
  <2> QED BY <2>2, <2>3
<1> QED BY <1>2, <1>5, <1>6, <1>7, <1>8, <1>9 DEF e, h

(***************************************************************************)
(* The shape of a store.                                                   *)
(***************************************************************************)
\* All directories above an entry are there, not just the nearest.
LEMMA AboveAreDirs ==
  ASSUME NEW s, Good(s), NEW h \in Stores
  PROVE  \A v \in Paths : s[h].tree[v] # Absent => \A a \in Above[h][v] : s[h].tree[a] = Dir
<1> DEFINE T == {v \in Paths : s[h].tree[v] # Absent /\ \E a \in Above[h][v] : s[h].tree[a] # Dir}
<1>1. SUFFICES ASSUME T # {} PROVE FALSE
  OBVIOUS
<1>2. T \subseteq VPath
  BY PathsAre
<1>3. PICK v \in T : \A w \in T : Len(v) <= Len(w)
  BY <1>1, <1>2, ShortestPath
<1>4. v \in Paths /\ v \in VPath /\ s[h].tree[v] # Absent
      /\ \E a \in Above[h][v] : s[h].tree[a] # Dir
  BY <1>2, <1>3
<1>5. v # StoreRoot(h)
  BY <1>4, AboveAre
<1>6. Holds(h, v) /\ s[h].tree[ParentVRel(v)] = Dir
  BY <1>4, <1>5 DEF Good, HostTree
<1>7. v # Root /\ Above[h][v] = Above[h][ParentVRel(v)] \cup {ParentVRel(v)}
  BY <1>4, <1>5, <1>6, AboveAre
<1>8. ParentVRel(v) \in T
  <2>1. ParentVRel(v) \in Paths
    BY <1>4, <1>7, PathsAre
  <2> QED BY <1>4, <1>6, <1>7, <2>1, Distinct
<1>9. Len(ParentVRel(v)) = Len(v) - 1 /\ Len(v) \in Nat
  BY <1>4, <1>7, ParentIs, LenProperties DEF VPath
<1> QED BY <1>3, <1>8, <1>9

\* Below what is not a directory there is nothing.
LEMMA EmptyBelow ==
  ASSUME NEW s, Good(s), NEW h \in Stores, NEW v \in Paths, Holds(h, v), s[h].tree[v] # Dir,
         NEW p \in Paths, Within(p, v), p # v
  PROVE  s[h].tree[p] = Absent /\ p \notin s[h].wh /\ p \notin s[h].opq
<1>1. v \in Above[h][p] /\ v \in VPath /\ p \in VPath
  BY AboveAre, PathsAre DEF Holds
<1>2. s[h].tree[p] = Absent
  BY <1>1, AboveAreDirs
<1>3. p # StoreRoot(h)
  BY <1>1, AboveAre
<1>4. ASSUME p \in s[h].wh PROVE FALSE
  <2>1. Holds(h, p) /\ s[h].tree[ParentVRel(p)] = Dir
    BY <1>3, <1>4 DEF Good, HostTree
  <2>2. ParentVRel(p) \in Paths /\ (v = ParentVRel(p) \/ v \in Above[h][ParentVRel(p)])
    BY <1>1, <1>3, <2>1, AboveAre
  <2> QED BY <2>1, <2>2, AboveAreDirs, Distinct
<1>5. p \notin s[h].opq
  BY <1>2, Distinct DEF Good, HostTree
<1> QED BY <1>2, <1>4, <1>5

\* Below a directory without children there is nothing.
LEMMA NothingInside ==
  ASSUME NEW s, Good(s), NEW h \in Stores, NEW v \in Paths, Holds(h, v),
         \A c \in Children(v) : s[h].tree[c] = Absent /\ c \notin s[h].wh,
         NEW p \in Paths, Within(p, v), p # v
  PROVE  s[h].tree[p] = Absent /\ p \notin s[h].wh /\ p \notin s[h].opq
<1>1. p \in VPath /\ v \in VPath
  BY PathsAre
<1>2. PICK c \in VPath : Within(p, c) /\ c # Root /\ ParentVRel(c) = v
  BY <1>1, ChildTowards
<1>3. c \in Paths /\ c \in Children(v)
  BY <1>2, UpwardClosed DEF Children
<1>4. s[h].tree[c] = Absent /\ c \notin s[h].wh
  BY <1>3
<1>5. Holds(h, c)
  <2>1. Within(c, v)
    BY <1>2, ParentIs
  <2> QED BY <1>1, <1>2, <2>1, WithinTransitive, StoresAre DEF Holds
<1>6. CASE p = c
  BY <1>4, <1>6, Distinct DEF Good, HostTree
<1>7. CASE p # c
  BY <1>2, <1>3, <1>4, <1>5, <1>7, EmptyBelow, Distinct
<1> QED BY <1>6, <1>7

\* A mount seeds the masks with every marker on disk.
LEMMA SeedMasksIs ==
  ASSUME NEW s, Good(s)
  PROVE  LET e == SeedMasks(s)
         IN  /\ Good(e) /\ Masked(e) /\ (Bare(s) => Bare(e))
             /\ \A h \in Stores : /\ e[h].tree = s[h].tree
                                  /\ e[h].wh = s[h].wh /\ e[h].opq = s[h].opq
                                  /\ e[h].deleted = s[h].wh /\ e[h].opaque = s[h].opq
<1> DEFINE e == SeedMasks(s)
           del(h) == {v \in s[h].wh : v # Root /\ WalkReaches(s, h, ParentVRel(v))}
           opa(h) == {v \in s[h].opq : WalkReaches(s, h, v)}
<1>1. s \in VfsState
  BY DEF Good
<1>2. ASSUME NEW h \in Stores, NEW v \in s[h].wh PROVE v # Root /\ WalkReaches(s, h, ParentVRel(v))
  <2>1. v \in Paths /\ v # StoreRoot(h)
    BY <1>1, FieldsAre DEF Good, Apart
  <2>2. Holds(h, v) /\ s[h].tree[ParentVRel(v)] = Dir
    BY <2>1 DEF Good, HostTree
  <2>3. v # Root /\ Holds(h, ParentVRel(v)) /\ ParentVRel(v) \in Paths
    BY <2>1, <2>2, AboveAre
  <2> QED BY <2>2, <2>3, AboveAreDirs, Distinct DEF WalkReaches
<1>3. ASSUME NEW h \in Stores, NEW v \in s[h].opq PROVE WalkReaches(s, h, v)
  <2>1. v \in Paths /\ s[h].tree[v] = Dir
    BY <1>1, FieldsAre DEF Good, HostTree
  <2>2. Holds(h, v)
    <3>1. v = StoreRoot(h) => Holds(h, v)
      BY StoresAre, WithinReflexive DEF Holds
    <3> QED BY <2>1, <3>1, Distinct DEF Good, HostTree
  <2> QED BY <2>1, <2>2, AboveAreDirs, Distinct DEF WalkReaches
<1>4. \A h \in Stores : del(h) = s[h].wh /\ opa(h) = s[h].opq
  BY <1>2, <1>3
<1>5. e = [h \in Stores |-> [s[h] EXCEPT !.deleted = del(h), !.opaque = opa(h)]]
  BY DEF SeedMasks
<1>6. \A h \in Stores : e[h] = [s[h] EXCEPT !.deleted = s[h].wh, !.opaque = s[h].opq]
  BY <1>4, <1>5
<1>7. DOMAIN e = Stores /\ e = [h \in Stores |-> e[h]]
  BY <1>5
<1> HIDE DEF e, del, opa
<1>8. ASSUME NEW h \in Stores
      PROVE  /\ e[h].tree = s[h].tree
             /\ e[h].wh = s[h].wh /\ e[h].opq = s[h].opq
             /\ e[h].deleted = s[h].wh /\ e[h].opaque = s[h].opq
             /\ e[h] \in [tree : [Paths -> Inodes \cup {Dir, Absent}],
                          wh : SUBSET Paths, opq : SUBSET Paths,
                          deleted : SUBSET Paths, opaque : SUBSET Paths]
  <2>1. s[h] \in [tree : [Paths -> Inodes \cup {Dir, Absent}],
                 wh : SUBSET Paths, opq : SUBSET Paths,
                 deleted : SUBSET Paths, opaque : SUBSET Paths]
    BY <1>1 DEF VfsState
  <2>2. e[h] = [s[h] EXCEPT !.deleted = s[h].wh, !.opaque = s[h].opq]
    BY <1>6
  <2> QED BY <2>1, <2>2
<1>9. e \in VfsState
  BY <1>7, <1>8 DEF VfsState
<1>10. HostTree(e)
  BY <1>8 DEF Good, HostTree
<1>11. Apart(e)
  BY <1>8, StoresAre DEF Good, Apart
<1>12. Masked(e)
  BY <1>8 DEF Masked
<1>13. Bare(s) => Bare(e)
  BY <1>8, StoresAre DEF Bare
<1> QED BY <1>8, <1>9, <1>10, <1>11, <1>12, <1>13 DEF Good, e

(***************************************************************************)
(* Lookup.                                                                 *)
(***************************************************************************)
\* Below the writelayer: a kept folder's own entry is what is served there,
\* and a layer's entry is served where the kept folder neither has one nor
\* hides it.
LEMMA ResolveLayersIs ==
  ASSUME KeptOnTop, NEW s, Good(s), NEW v \in Paths
  PROVE  LET r == ResolveLayers(s, v)
             h == Home[v]
         IN  \/ r = None /\ (h # Wl => s[h].tree[v] = Absent)
             \/ h # Wl /\ r = [kind |-> "Kept", at |-> h, entry |-> s[h].tree[v]] /\ s[h].tree[v] # Absent
             \/ /\ \E i \in DOMAIN Layers \cup {Wl} : \E x \in Contents \cup {Dir, Packed} :
                     r = [kind |-> "Lower", at |-> i, entry |-> x]
                /\ h # Wl => s[h].tree[v] = Absent /\ ~KeptMasked(s, h, v)
<1> DEFINE r == ResolveLayers(s, v)
           h == Home[v]
           own == {k \in KeptOver[v] : s[k].tree[v] # Absent \/ KeptMasked(s, k, v)}
           hits == Hits[v] \cup own
<1>1. r = HighestAnswer(s, v, hits)
  BY DEF ResolveLayers
<1>2. /\ Hits[v] \subseteq DOMAIN Layers /\ Hits[v] \subseteq Nat \ {0} /\ Hits[v] \cap Kept = {}
  BY HitsAre
<1>3. /\ h \in {Wl} \cup Kept
      /\ KeptOver[v] = IF h = Wl THEN {} ELSE {h}
      /\ h # Wl => \A i \in Hits[v] : i < h
  BY HomeIs
<1>4. \A k \in Kept : k \in Nat /\ k # Wl /\ k \in DOMAIN Layers
  BY KeptAre
<1>5. own \subseteq (IF h = Wl THEN {} ELSE {h})
  BY <1>3
<1>6. h # Wl /\ (s[h].tree[v] # Absent \/ KeptMasked(s, h, v)) => own = {h}
  BY <1>3
<1>7. own # {} => h # Wl /\ (s[h].tree[v] # Absent \/ KeptMasked(s, h, v))
  BY <1>3
<1> HIDE DEF r, own, h
<1>8. CASE own # {}
  <2>1. h \in Kept /\ h # Wl /\ own = {h} /\ hits \subseteq Int /\ h \in hits /\ \A j \in hits : j <= h
    BY <1>2, <1>3, <1>4, <1>6, <1>7, <1>8
  <2>2. Topmost(hits) = h
    BY <2>1, GreatestIs DEF Topmost
  <2>3. r = Answer(s, h, v)
    BY <1>1, <2>1, <2>2 DEF HighestAnswer
  <2>4. CASE s[h].tree[v] = Absent
    BY <2>1, <2>3, <2>4 DEF Answer, r, h
  <2>5. CASE s[h].tree[v] # Absent
    BY <2>1, <2>3, <2>5 DEF Answer, r, h
  <2> QED BY <2>4, <2>5
<1>9. CASE own = {} /\ Hits[v] # {}
  <2>1. PICK i \in Hits[v] : \A j \in Hits[v] : j <= i
    BY <1>2, <1>9, GreatestExists
  <2>2. Topmost(hits) = i
    BY <1>2, <1>9, <2>1, GreatestIs DEF Topmost
  <2>3. r = [kind |-> "Lower", at |-> i, entry |-> LayerEntry[i][v]]
    BY <1>1, <1>2, <1>9, <2>1, <2>2 DEF HighestAnswer, Answer
  <2>4. LayerEntry[i][v] \in Contents \cup {Dir, Packed} /\ i \in DOMAIN Layers
    BY <1>2, <2>1, LayerEntryIs
  <2>5. h # Wl => s[h].tree[v] = Absent /\ ~KeptMasked(s, h, v)
    BY <1>6, <1>9
  <2> QED BY <2>3, <2>4, <2>5 DEF r, h
<1>10. CASE own = {} /\ Hits[v] = {}
  <2>1. h # Wl => s[h].tree[v] = Absent /\ ~KeptMasked(s, h, v)
    BY <1>6, <1>10
  <2>2. r = [kind |-> "Lower", at |-> Wl, entry |-> Dir] \/ r = None
    BY <1>1, <1>10 DEF HighestAnswer
  <2> QED BY <2>1, <2>2 DEF r, h
<1> QED BY <1>8, <1>9, <1>10

\* The entry of the store that v is written to is what is served at v, unless
\* v is hidden; a layer serves v only where that store has nothing.
LEMMA LookupIs ==
  ASSUME KeptOnTop, NEW s, Good(s), NEW v \in Paths
  PROVE  LET r == Resolve(s, v)
             h == Home[v]
         IN  /\ r.kind \in {"None", "WriteLayer", "Kept", "Lower"}
             /\ r.kind = "None" => r.entry = Absent
             /\ r.kind \in {"WriteLayer", "Kept"} => r.entry = s[h].tree[v] /\ s[h].tree[v] # Absent
             /\ r.kind = "Lower" => /\ s[h].tree[v] = Absent /\ r.entry \in Contents \cup {Dir, Packed}
                                    /\ h # Wl => ~KeptMasked(s, h, v)
             /\ r.kind # "None" => ~IsDeleted(s, Wl, v)
             /\ v # Root => (r.kind = "Kept" <=> (r.kind # "None" /\ h # Wl /\ s[h].tree[v] # Absent))
             /\ HostOf(r, v) = h
<1> DEFINE r == Resolve(s, v)
           h == Home[v]
<1>1. h # Wl => s[Wl].tree[v] = Absent \/ (v = Root /\ s[Wl].tree[v] = Dir /\ s[h].tree[v] = Dir)
  <2> SUFFICES ASSUME h # Wl
               PROVE  s[Wl].tree[v] = Absent \/ (v = Root /\ s[Wl].tree[v] = Dir /\ s[h].tree[v] = Dir)
    OBVIOUS
  <2>1. h \in Kept /\ Within(v, KeptRoot[h])
    BY HomeIs
  <2>2. CASE v # Root
    BY <2>1, <2>2 DEF Good, Apart
  <2>3. CASE v = Root
    <3>1. KeptRoot[h] = Root
      BY <2>1, <2>3, KeptAre, PathsAre, WithinRoot
    <3> QED BY <2>1, <2>3, <3>1, StoresAre DEF Good, HostTree
  <2> QED BY <2>2, <2>3
<1>2. CASE r = None
  BY <1>2 DEF None, HostOf
<1>3. CASE s[Wl].tree[v] # Absent /\ ~IsDeleted(s, Wl, v)
  <2>1. /\ r = [kind |-> "WriteLayer", at |-> Wl, entry |-> s[Wl].tree[v]]
        /\ s[h].tree[v] = s[Wl].tree[v] /\ (v = Root \/ h = Wl)
    BY <1>1, <1>3 DEF Resolve
  <2> QED BY <1>3, <2>1 DEF HostOf
<1>4. CASE s[Wl].tree[v] = Absent /\ ~IsDeleted(s, Wl, v) /\ r = ResolveLayers(s, v) /\ r # None
  <2>1. CASE h # Wl /\ r = [kind |-> "Kept", at |-> h, entry |-> s[h].tree[v]] /\ s[h].tree[v] # Absent
    BY <1>4, <2>1 DEF HostOf
  <2>2. ASSUME NEW i \in DOMAIN Layers \cup {Wl}, NEW x \in Contents \cup {Dir, Packed},
               r = [kind |-> "Lower", at |-> i, entry |-> x],
               h # Wl => s[h].tree[v] = Absent /\ ~KeptMasked(s, h, v)
        PROVE  /\ r.kind = "Lower" /\ s[h].tree[v] = Absent /\ r.entry = x
               /\ h # Wl => ~KeptMasked(s, h, v)
               /\ HostOf(r, v) = h
    BY <1>4, <2>2 DEF HostOf
  <2>3. \/ h # Wl /\ r = [kind |-> "Kept", at |-> h, entry |-> s[h].tree[v]] /\ s[h].tree[v] # Absent
        \/ /\ \E i \in DOMAIN Layers \cup {Wl} : \E x \in Contents \cup {Dir, Packed} :
                r = [kind |-> "Lower", at |-> i, entry |-> x]
           /\ h # Wl => s[h].tree[v] = Absent /\ ~KeptMasked(s, h, v)
    BY <1>4, ResolveLayersIs
  <2> HIDE DEF r, h
  <2> QED BY <1>4, <2>1, <2>2, <2>3 DEF r, h
<1>5. \/ r = None
      \/ s[Wl].tree[v] # Absent /\ ~IsDeleted(s, Wl, v)
      \/ s[Wl].tree[v] = Absent /\ ~IsDeleted(s, Wl, v) /\ r = ResolveLayers(s, v) /\ r # None
  BY DEF Resolve
<1> HIDE DEF r, h
<1> QED BY <1>2, <1>3, <1>4, <1>5 DEF r, h

\* What follows for a directory, and for what is there and is none.
LEMMA DirectoryIs ==
  ASSUME KeptOnTop, NEW s, Good(s), NEW v \in Paths
  PROVE  /\ IsDirectory(s, v) => s[Home[v]].tree[v] \in {Dir, Absent} /\ Exists(s, v)
                                 /\ ~IsDeleted(s, Wl, v)
         /\ Exists(s, v) /\ ~IsDirectory(s, v) => s[Home[v]].tree[v] # Dir
         /\ Exists(s, v) => ~IsDeleted(s, Wl, v)
<1> QED BY LookupIs, Distinct DEF IsDirectory, Exists

\* The kernel reached v: in every store that v belongs to no file is above it,
\* and no directory above it has a whiteout.
LEMMA ReachableClear ==
  ASSUME KeptOnTop, NEW s, Good(s), NEW v \in Paths, Reachable(s, v)
  PROVE  /\ \A h : Belongs(h, v) => Clear(s, h, v)
         /\ Masked(s) => Unhidden(s, v)
         /\ \A a \in Paths : Within(v, a) /\ a # v => IsDirectory(s, a)
<1>1. \A a \in Paths : Within(v, a) /\ a # v => IsDirectory(s, a)
  <2> TAKE a \in Paths
  <2> HAVE Within(v, a) /\ a # v
  <2>1. a \in Above[Wl][v]
    BY AboveAre, PathsAre, WithinRoot, StoresAre
  <2> QED BY <2>1 DEF Reachable
<1>2. ASSUME NEW h, Belongs(h, v), NEW a \in Above[h][v] PROVE s[h].tree[a] \in {Dir, Absent}
  <2>1. h \in Stores /\ a \in Paths /\ Within(v, a) /\ a # v /\ Holds(h, a)
    BY <1>2, AboveAre DEF Belongs, Holds
  <2>2. s[Home[a]].tree[a] \in {Dir, Absent}
    BY <1>1, <2>1, DirectoryIs
  <2>3. Home[a] = h
    <3>1. CASE h # Wl
      BY <2>1, <3>1, HomeBelongs, StoresAre
    <3>2. CASE h = Wl
      <4>1. SUFFICES ASSUME Home[a] # Wl PROVE FALSE
        BY <3>2
      <4>2. Home[a] \in Kept /\ Within(a, KeptRoot[Home[a]]) /\ KeptRoot[Home[a]] \in Paths
        BY <2>1, <4>1, HomeIs, KeptAre
      <4>3. Within(v, KeptRoot[Home[a]])
        BY <2>1, <4>2, PathsAre, WithinTransitive
      <4>4. v = KeptRoot[Home[a]]
        BY <1>2, <3>2, <4>2, <4>3 DEF Belongs
      <4> QED BY <2>1, <4>2, <4>4, PathsAre, WithinAntisymmetric
    <3> QED BY <3>1, <3>2
  <2> QED BY <2>2, <2>3
<1>3. ASSUME Masked(s) PROVE Unhidden(s, v)
  <2> SUFFICES ASSUME NEW a \in Paths, Within(v, a), a # v, a \in s[Wl].wh PROVE FALSE
    BY DEF Unhidden
  <2>1. ~IsDeleted(s, Wl, a)
    BY <1>1, DirectoryIs
  <2>2. a \in s[Wl].deleted /\ a # StoreRoot(Wl)
    BY <1>3, StoresAre DEF Masked, Good, Apart
  <2> QED BY <2>1, <2>2 DEF IsDeleted
<1> QED BY <1>1, <1>2, <1>3 DEF Clear

(***************************************************************************)
(* Copy-up.                                                                *)
(***************************************************************************)
\* A copy-up only adds to the stores: files that a layer serves and that the
\* store they are written to does not have yet, and directories.
LEMMA CopyUpIs ==
  ASSUME KeptOnTop, NEW s, Good(s), NEW P, P \subseteq Paths, \A p \in P : Reachable(s, p),
         NEW ino, ino \in [NewFiles(s, P) -> Inodes]
  PROVE  LET e == CopyUp(s, P, ino)
         IN  /\ e \in VfsState
             /\ \A h \in Stores : /\ e[h].wh = s[h].wh /\ e[h].opq = s[h].opq
                                  /\ e[h].deleted = s[h].deleted /\ e[h].opaque = s[h].opaque
             /\ \A h \in Stores : \A p \in Paths :
                  \/ e[h].tree[p] = s[h].tree[p]
                  \/ /\ s[h].tree[p] = Absent /\ Home[p] = h /\ p \in DOMAIN ino
                     /\ e[h].tree[p] = ino[p]
                  \/ s[h].tree[p] = Absent /\ e[h].tree[p] = Dir /\ IsDirectory(s, p)
             /\ \A h \in Stores : \A p \in Paths : e[h].tree[p] # s[h].tree[p] =>
                  \E q \in P : /\ Home[q] = h /\ Resolve(s, q).kind = "Lower"
                               /\ p = q \/ p \in Above[h][q]
             /\ \A q \in P : Resolve(s, q).kind = "Lower" =>
                  e[Home[q]].tree[q] # Absent /\ \A a \in Above[Home[q]][q] : e[Home[q]].tree[a] # Absent
<1> DEFINE e == CopyUp(s, P, ino)
           lower(h) == {p \in P : Home[p] = h /\ Resolve(s, p).kind = "Lower"}
           dirs(h) == UNION {Above[h][l] : l \in lower(h)}
           copied(h) == Copied(s[h].tree, h, lower(h), ino)
<1>1. s \in VfsState
  BY DEF Good
<1>2. e = [h \in Stores |-> [s[h] EXCEPT !.tree = copied(h)]]
  BY DEF CopyUp
<1>3. \A h \in Stores : dirs(h) \subseteq Paths /\ lower(h) \subseteq Paths
  BY AboveAre
<1>4. DOMAIN ino = NewFiles(s, P) /\ \A p \in DOMAIN ino : ino[p] \in Inodes
  OBVIOUS
<1>5. \A h \in Stores : \A p \in dirs(h) : IsDirectory(s, p)
  <2> SUFFICES ASSUME NEW h \in Stores, NEW q \in lower(h), NEW p \in Above[h][q]
               PROVE  IsDirectory(s, p)
    OBVIOUS
  <2>1. p \in Paths /\ Within(q, p) /\ p # q /\ q \in Paths /\ Reachable(s, q)
    BY AboveAre
  <2> QED BY <2>1, ReachableClear
<1>6. ASSUME NEW h \in Stores, NEW p \in Paths
      PROVE  copied(h)[p] = IF s[h].tree[p] # Absent \/ p \notin lower(h) \cup dirs(h) THEN s[h].tree[p]
                            ELSE IF p \in lower(h) \cap DOMAIN ino THEN ino[p] ELSE Dir
  BY <1>6 DEF Copied
<1>7. \A h \in Stores : copied(h) \in [Paths -> Inodes \cup {Dir, Absent}]
  <2> TAKE h \in Stores
  <2>1. copied(h) = [p \in Paths |-> copied(h)[p]]
    BY DEF Copied
  <2>2. \A p \in Paths : s[h].tree[p] \in Inodes \cup {Dir, Absent}
    BY <1>1, FieldsAre
  <2>3. \A p \in Paths : copied(h)[p] \in Inodes \cup {Dir, Absent}
    BY <1>4, <1>6, <2>2
  <2> HIDE DEF copied
  <2> QED BY <2>1, <2>3
<1>8. ASSUME NEW h \in Stores, NEW p \in Paths
      PROVE  /\ copied(h)[p] # s[h].tree[p] => p \in lower(h) \cup dirs(h)
             /\ \/ copied(h)[p] = s[h].tree[p]
                \/ s[h].tree[p] = Absent /\ Home[p] = h /\ p \in DOMAIN ino /\ copied(h)[p] = ino[p]
                \/ s[h].tree[p] = Absent /\ copied(h)[p] = Dir /\ IsDirectory(s, p)
             /\ p \in lower(h) \cup dirs(h) => copied(h)[p] # Absent
  <2>1. p \in lower(h) /\ s[h].tree[p] = Absent /\ p \notin DOMAIN ino => IsDirectory(s, p)
    <3> HAVE p \in lower(h) /\ s[h].tree[p] = Absent /\ p \notin DOMAIN ino
    <3>1. p \in P /\ Home[p] = h /\ Resolve(s, p).kind = "Lower" /\ ~LowerFile(Resolve(s, p))
      BY <1>4 DEF NewFiles
    <3> QED BY <3>1 DEF LowerFile, IsDirectory
  <2>2. p \in lower(h) => Home[p] = h
    OBVIOUS
  <2>3. p \in dirs(h) => IsDirectory(s, p)
    BY <1>5
  <2>4. copied(h)[p] = IF s[h].tree[p] # Absent \/ p \notin lower(h) \cup dirs(h) THEN s[h].tree[p]
                       ELSE IF p \in lower(h) \cap DOMAIN ino THEN ino[p] ELSE Dir
    BY <1>6
  <2> HIDE DEF copied, lower, dirs
  <2> QED BY <1>4, <2>1, <2>2, <2>3, <2>4, Distinct
<1>9. ASSUME NEW h \in Stores, NEW p \in lower(h) \cup dirs(h)
      PROVE  \E q \in P : /\ Home[q] = h /\ Resolve(s, q).kind = "Lower"
                          /\ p = q \/ p \in Above[h][q]
  BY <1>9
<1>10. ASSUME NEW q \in P, Resolve(s, q).kind = "Lower"
       PROVE  /\ Home[q] \in Stores /\ q \in Paths /\ q \in lower(Home[q])
              /\ Above[Home[q]][q] \subseteq dirs(Home[q])
  BY <1>10, HomeBelongs
<1> HIDE DEF lower, dirs, copied, e
<1>11. ASSUME NEW h \in Stores
       PROVE  /\ e[h].tree = copied(h)
              /\ e[h].wh = s[h].wh /\ e[h].opq = s[h].opq
              /\ e[h].deleted = s[h].deleted /\ e[h].opaque = s[h].opaque
              /\ e[h] \in [tree : [Paths -> Inodes \cup {Dir, Absent}],
                           wh : SUBSET Paths, opq : SUBSET Paths,
                           deleted : SUBSET Paths, opaque : SUBSET Paths]
  <2>1. s[h] \in [tree : [Paths -> Inodes \cup {Dir, Absent}],
                  wh : SUBSET Paths, opq : SUBSET Paths,
                  deleted : SUBSET Paths, opaque : SUBSET Paths]
    BY <1>1 DEF VfsState
  <2>2. e[h] = [s[h] EXCEPT !.tree = copied(h)]
    BY <1>2
  <2> QED BY <1>7, <2>1, <2>2
<1>12. e \in VfsState
  <2>1. DOMAIN e = Stores /\ e = [h \in Stores |-> e[h]]
    BY <1>2
  <2> QED BY <1>11, <2>1 DEF VfsState
<1>13. \A q \in P : Resolve(s, q).kind = "Lower" =>
         e[Home[q]].tree[q] # Absent /\ \A a \in Above[Home[q]][q] : e[Home[q]].tree[a] # Absent
  <2> TAKE q \in P
  <2> HAVE Resolve(s, q).kind = "Lower"
  <2>1. /\ Home[q] \in Stores /\ q \in Paths /\ q \in lower(Home[q])
        /\ Above[Home[q]][q] \subseteq dirs(Home[q]) /\ Above[Home[q]][q] \subseteq Paths
    BY <1>3, <1>10
  <2> QED BY <1>8, <1>11, <2>1
<1>14. \A h \in Stores : \A p \in Paths : e[h].tree[p] # s[h].tree[p] =>
         \E q \in P : /\ Home[q] = h /\ Resolve(s, q).kind = "Lower"
                      /\ p = q \/ p \in Above[h][q]
  BY <1>8, <1>9, <1>11
<1>15. \A h \in Stores : \A p \in Paths :
         \/ e[h].tree[p] = s[h].tree[p]
         \/ s[h].tree[p] = Absent /\ Home[p] = h /\ p \in DOMAIN ino /\ e[h].tree[p] = ino[p]
         \/ s[h].tree[p] = Absent /\ e[h].tree[p] = Dir /\ IsDirectory(s, p)
  BY <1>8, <1>11
<1> QED BY <1>11, <1>12, <1>13, <1>14, <1>15 DEF e

\* So it keeps a good state good: no file is made above another one.
LEMMA CopyUpGood ==
  ASSUME KeptOnTop, NEW s, Good(s), NEW P, P \subseteq Paths, \A p \in P : Reachable(s, p),
         NEW ino, ino \in [NewFiles(s, P) -> Inodes]
  PROVE  LET e == CopyUp(s, P, ino)
         IN  /\ Good(e) /\ (Masked(s) => Masked(e))
             /\ Masked(s) /\ Bare(s) => Bare(e)
             /\ \A v \in Paths : Unhidden(s, v) => Unhidden(e, v)
             /\ \A v \in Paths : Reachable(s, v) => \A h : Belongs(h, v) => Clear(e, h, v)
             /\ \A v \in Paths : /\ IsDirectory(s, v) => e[Home[v]].tree[v] \in {Dir, Absent}
                                 /\ Exists(s, v) /\ ~IsDirectory(s, v) => e[Home[v]].tree[v] # Dir
                                 /\ e[Home[v]].tree[v] \in Inodes /\ ~Exists(s, v)
                                      => s[Home[v]].tree[v] \in Inodes
<1> DEFINE e == CopyUp(s, P, ino)
<1>1. s \in VfsState /\ HostTree(s) /\ Apart(s)
  BY DEF Good
<1>2. /\ e \in VfsState
      /\ \A h \in Stores : /\ e[h].wh = s[h].wh /\ e[h].opq = s[h].opq
                           /\ e[h].deleted = s[h].deleted /\ e[h].opaque = s[h].opaque
      /\ \A h \in Stores : \A p \in Paths :
           \/ e[h].tree[p] = s[h].tree[p]
           \/ s[h].tree[p] = Absent /\ Home[p] = h /\ p \in DOMAIN ino /\ e[h].tree[p] = ino[p]
           \/ s[h].tree[p] = Absent /\ e[h].tree[p] = Dir /\ IsDirectory(s, p)
      /\ \A h \in Stores : \A p \in Paths : e[h].tree[p] # s[h].tree[p] =>
           \E q \in P : /\ Home[q] = h /\ Resolve(s, q).kind = "Lower"
                        /\ p = q \/ p \in Above[h][q]
      /\ \A q \in P : Resolve(s, q).kind = "Lower" =>
           e[Home[q]].tree[q] # Absent /\ \A a \in Above[Home[q]][q] : e[Home[q]].tree[a] # Absent
  BY CopyUpIs
<1> HIDE DEF e
<1>3. \A p \in DOMAIN ino : /\ ino[p] \in Inodes /\ p \in P /\ p \in Paths
                            /\ ~IsDirectory(s, p) /\ Exists(s, p)
  BY DEF NewFiles, LowerFile, IsDirectory, Exists
<1>4. \A v \in Paths : Reachable(s, v) => \A h : Belongs(h, v) => Clear(e, h, v)
  <2> SUFFICES ASSUME NEW v \in Paths, Reachable(s, v), NEW h, Belongs(h, v), NEW a \in Above[h][v]
               PROVE  e[h].tree[a] \in {Dir, Absent}
    BY DEF Clear
  <2>1. h \in Stores /\ a \in Paths /\ Within(v, a) /\ a # v
    BY AboveAre DEF Belongs
  <2>2. s[h].tree[a] \in {Dir, Absent} /\ IsDirectory(s, a)
    BY <2>1, ReachableClear DEF Clear
  <2> QED BY <1>2, <1>3, <2>1, <2>2
<1>5. HostTree(e)
  <2> SUFFICES ASSUME NEW h \in Stores
               PROVE  /\ e[h].tree[StoreRoot(h)] = Dir
                      /\ \A p \in Paths \ {StoreRoot(h)} :
                           e[h].tree[p] # Absent \/ p \in e[h].wh =>
                             Holds(h, p) /\ e[h].tree[ParentVRel(p)] = Dir
                      /\ \A p \in e[h].opq : e[h].tree[p] = Dir
    BY DEF HostTree
  <2>1. e[h].tree[StoreRoot(h)] = Dir
    BY <1>1, <1>2, StoresAre, Distinct DEF HostTree
  <2>2. ASSUME NEW p \in Paths \ {StoreRoot(h)}, e[h].tree[p] # Absent \/ p \in e[h].wh
        PROVE  Holds(h, p) /\ e[h].tree[ParentVRel(p)] = Dir
    <3>1. CASE s[h].tree[p] # Absent \/ p \in s[h].wh
      <4>1. Holds(h, p) /\ s[h].tree[ParentVRel(p)] = Dir
        BY <1>1, <3>1 DEF HostTree
      <4>2. ParentVRel(p) \in Paths
        BY <4>1, AboveAre
      <4> QED BY <1>2, <4>1, <4>2, Distinct
    <3>2. CASE e[h].tree[p] # s[h].tree[p]
      <4>1. PICK q \in P : /\ Home[q] = h /\ Resolve(s, q).kind = "Lower"
                           /\ p = q \/ p \in Above[h][q]
        BY <1>2, <3>2
      <4>2. q \in Paths /\ Belongs(h, q) /\ Reachable(s, q)
        BY <4>1, HomeBelongs
      <4>3. Holds(h, p)
        BY <4>1, <4>2, AboveAre DEF Belongs, Holds
      <4>4. ParentVRel(p) \in Above[h][p] /\ ParentVRel(p) \in Paths
        BY <4>3, AboveAre
      <4>5. ParentVRel(p) \in Above[h][q]
        <5>1. CASE p = q
          BY <4>4, <5>1
        <5>2. CASE p \in Above[h][q]
          <6>1. Within(q, p) /\ p # q /\ Within(p, ParentVRel(p)) /\ ParentVRel(p) # p
                /\ Within(ParentVRel(p), StoreRoot(h))
            BY <4>2, <4>4, <5>2, AboveAre
          <6>2. Within(q, ParentVRel(p)) /\ ParentVRel(p) # q
            BY <4>2, <4>4, <6>1, PathsAre, WithinTransitive, WithinAntisymmetric
          <6> QED BY <4>2, <4>4, <6>1, <6>2, AboveAre, PathsAre
        <5> QED BY <4>1, <5>1, <5>2
      <4>6. e[h].tree[ParentVRel(p)] # Absent
        BY <1>2, <4>1, <4>5
      <4>7. Clear(e, h, q)
        BY <1>4, <4>2
      <4> QED BY <4>3, <4>5, <4>6, <4>7 DEF Clear
    <3>3. (s[h].tree[p] # Absent \/ p \in s[h].wh) \/ e[h].tree[p] # s[h].tree[p]
      BY <1>2, <2>2
    <3> QED BY <3>1, <3>2, <3>3
  <2>3. \A p \in e[h].opq : e[h].tree[p] = Dir
    BY <1>1, <1>2, FieldsAre, Distinct DEF HostTree
  <2> QED BY <2>1, <2>2, <2>3
<1>6. ASSUME NEW p \in Paths \ {Root}, NEW k \in Kept, Within(p, KeptRoot[k]) PROVE e[Wl].tree[p] = Absent
  <2>1. s[Wl].tree[p] = Absent /\ Home[p] = k /\ k # Wl
    BY <1>1, <1>6, HomeIs, KeptAre DEF Apart
  <2>2. SUFFICES ASSUME e[Wl].tree[p] # s[Wl].tree[p] PROVE FALSE
    BY <2>1
  <2>3. PICK q \in P : Home[q] = Wl /\ (p = q \/ p \in Above[Wl][q])
    BY <1>2, <2>2, StoresAre
  <2>4. Within(q, p) /\ q \in Paths
    BY <2>3, AboveAre, StoresAre, PathsAre, WithinReflexive
  <2>5. Home[q] = Home[p]
    BY <2>1, <2>4, HomeBelow
  <2> QED BY <2>1, <2>3, <2>5
<1>7. Apart(e)
  BY <1>1, <1>2, <1>6, StoresAre DEF Apart
<1>8. Masked(s) => Masked(e)
  BY <1>2 DEF Masked
<1>9. ASSUME Masked(s), Bare(s) PROVE Bare(e)
  <2> SUFFICES ASSUME NEW w \in e[Wl].wh, NEW p \in Paths, Within(p, w) PROVE e[Wl].tree[p] = Absent
    BY DEF Bare
  <2>1. w \in s[Wl].wh /\ w \in Paths /\ s[Wl].tree[p] = Absent
    BY <1>1, <1>2, <1>9, StoresAre, FieldsAre DEF Bare
  <2>2. SUFFICES ASSUME e[Wl].tree[p] # s[Wl].tree[p] PROVE FALSE
    BY <2>1
  <2>3. PICK q \in P : Resolve(s, q).kind = "Lower" /\ (p = q \/ p \in Above[Wl][q])
    BY <1>2, <2>2, StoresAre
  <2>4. q \in Paths /\ Unhidden(s, q)
    BY <1>9, <2>3, ReachableClear
  <2>5. Within(q, p)
    BY <2>3, <2>4, AboveAre, StoresAre, PathsAre, WithinReflexive
  <2>6. Within(q, w)
    BY <2>1, <2>4, <2>5, PathsAre, WithinTransitive
  <2>7. w = q
    BY <2>1, <2>4, <2>6 DEF Unhidden
  <2>8. ~IsDeleted(s, Wl, q)
    BY <2>3, <2>4, LookupIs
  <2> QED BY <1>1, <1>9, <2>1, <2>7, <2>8, StoresAre DEF IsDeleted, Masked, Apart
<1>10. \A v \in Paths : Unhidden(s, v) => Unhidden(e, v)
  BY <1>2, StoresAre DEF Unhidden
<1>11. ASSUME NEW v \in Paths
       PROVE  /\ IsDirectory(s, v) => e[Home[v]].tree[v] \in {Dir, Absent}
              /\ Exists(s, v) /\ ~IsDirectory(s, v) => e[Home[v]].tree[v] # Dir
              /\ e[Home[v]].tree[v] \in Inodes /\ ~Exists(s, v) => s[Home[v]].tree[v] \in Inodes
  <2>1. Home[v] \in Stores
    BY HomeBelongs
  <2>2. \/ e[Home[v]].tree[v] = s[Home[v]].tree[v]
        \/ v \in DOMAIN ino /\ e[Home[v]].tree[v] = ino[v]
        \/ e[Home[v]].tree[v] = Dir /\ IsDirectory(s, v)
    BY <1>2, <2>1
  <2> QED BY <1>3, <2>2, DirectoryIs, Distinct
<1> QED BY <1>2, <1>4, <1>5, <1>7, <1>8, <1>9, <1>10, <1>11 DEF Good, e

\* The walk of a directory that the kernel reached stays on paths it can reach.
LEMMA DeepWalkReachable ==
  ASSUME NEW s, NEW v \in Paths, Reachable(s, v), NEW p \in DeepWalk(s, v)
  PROVE  p \in Paths /\ Within(p, v) /\ Reachable(s, p)
<1>1. p \in Paths /\ Within(p, v) /\ p \in VPath /\ v \in VPath
  BY PathsAre DEF DeepWalk
<1>2. ASSUME NEW a \in Above[Wl][p] PROVE IsDirectory(s, a)
  <2>1. a \in Paths /\ a \in VPath /\ Within(p, a) /\ a # p
    BY <1>1, AboveAre, StoresAre, PathsAre
  <2>2. CASE Within(a, v)
    <3>1. PICK c \in VPath : Within(p, c) /\ c # Root /\ ParentVRel(c) = a
      BY <1>1, <2>1, ChildTowards
    <3>2. c \in Ancestors(p) \cup {p}
      BY <1>1, <3>1, AncestorsAre
    <3>3. Within(c, a) /\ c # a
      BY <3>1, ParentIs
    <3>4. Within(c, v) /\ c # v
      BY <1>1, <2>1, <2>2, <3>1, <3>3, WithinTransitive, WithinAntisymmetric
    <3> QED BY <3>1, <3>2, <3>4 DEF DeepWalk
  <2>3. CASE ~Within(a, v)
    <3>1. Within(v, a) /\ a # v
      BY <1>1, <2>1, <2>3, WithinChain, WithinReflexive
    <3>2. a \in Above[Wl][v]
      BY <1>1, <2>1, <3>1, AboveAre, StoresAre, WithinRoot
    <3> QED BY <3>2 DEF Reachable
  <2> QED BY <2>2, <2>3
<1> QED BY <1>1, <1>2 DEF Reachable

(***************************************************************************)
(* Renaming.                                                               *)
(***************************************************************************)
\* What a rename of vf in store hf to vt in store ht meets on the host.
Movable(s, hf, vf, ht, vt) ==
  /\ hf \in Stores /\ ht \in Stores /\ vf \in Paths /\ vt \in Paths
  /\ Holds(hf, vf) /\ vf # StoreRoot(hf) /\ Holds(ht, vt) /\ vt # StoreRoot(ht)
  /\ ~Within(vt, vf) /\ ~Within(vf, vt)
  /\ s[hf].tree[vf] # Absent
  /\ s[ht].tree[ParentVRel(vt)] = Dir
  /\ vt \notin s[ht].opq
  /\ \A p \in Paths : Within(p, vt) /\ p # vt =>
       s[ht].tree[p] = Absent /\ p \notin s[ht].wh /\ p \notin s[ht].opq
  /\ Fits(s, hf, vf, vt)
  /\ hf = ht \/ s[hf].tree[vf] # Dir
  /\ ht = Wl => \A k \in Kept : /\ ~Within(vt, KeptRoot[k])
                                /\ Within(KeptRoot[k], vt) => s[hf].tree[vf] # Dir

\* The fields of the stores after it.
LEMMA HostRenameIs ==
  ASSUME NEW s \in VfsState, NEW hf \in Stores, NEW ht \in Stores, NEW vf \in Paths, NEW vt \in Paths,
         Fits(s, hf, vf, vt)
  PROVE  LET e == HostRename(s, hf, vf, ht, vt)
             wh == s[hf].wh \ {vf}
             stays(g, set, mine) == IF g = hf THEN set \ {w \in mine : Within(w, vf)} ELSE set
             lands(g, mine) == IF g = ht THEN {Rebase(w, vf, vt) : w \in {x \in mine : Within(x, vf)}} ELSE {}
         IN  /\ e \in VfsState
             /\ \A g \in Stores :
                  /\ e[g].deleted = s[g].deleted /\ e[g].opaque = s[g].opaque
                  /\ e[g].wh = stays(g, s[g].wh, wh) \cup lands(g, wh)
                  /\ e[g].opq = stays(g, s[g].opq, s[hf].opq) \cup lands(g, s[hf].opq)
                  /\ \A p \in Paths :
                       e[g].tree[p] =
                         IF g = ht /\ Within(p, vt)
                         THEN IF Rebase(p, vt, vf) \in Paths THEN s[hf].tree[Rebase(p, vt, vf)] ELSE Absent
                         ELSE IF g = hf /\ Within(p, vf) THEN Absent ELSE s[g].tree[p]
<1> DEFINE e == HostRename(s, hf, vf, ht, vt)
           moved(set) == {w \in set : Within(w, vf)}
           after(g, set, mine) ==
             (IF g = hf THEN set \ moved(mine) ELSE set) \cup
               (IF g = ht THEN {Rebase(w, vf, vt) : w \in moved(mine)} ELSE {})
           comes(p) == IF Rebase(p, vt, vf) \in Paths THEN s[hf].tree[Rebase(p, vt, vf)] ELSE Absent
           tree(g) == [p \in Paths |-> IF g = ht /\ Within(p, vt) THEN comes(p)
                                       ELSE IF g = hf /\ Within(p, vf) THEN Absent ELSE s[g].tree[p]]
           wh(g) == after(g, s[g].wh, s[hf].wh \ {vf})
           opq(g) == after(g, s[g].opq, s[hf].opq)
           Store == [tree : [Paths -> Inodes \cup {Dir, Absent}],
                     wh : SUBSET Paths, opq : SUBSET Paths,
                     deleted : SUBSET Paths, opaque : SUBSET Paths]
           renamed(g) == [s[g] EXCEPT !.tree = tree(g), !.wh = wh(g), !.opq = opq(g)]
<1>1. e = [s EXCEPT ![hf] = renamed(hf), ![ht] = renamed(ht)]
  BY DEF HostRename
<1>2. \A g \in Stores : tree(g) \in [Paths -> Inodes \cup {Dir, Absent}]
  <2> TAKE g \in Stores
  <2>1. \A p \in Paths : comes(p) \in Inodes \cup {Dir, Absent} /\ s[g].tree[p] \in Inodes \cup {Dir, Absent}
    BY FieldsAre
  <2> HIDE DEF comes
  <2> QED BY <2>1
<1>3. \A g \in Stores : wh(g) \subseteq Paths /\ opq(g) \subseteq Paths
  <2> TAKE g \in Stores
  <2>1. \A w \in s[hf].wh \ {vf} : Within(w, vf) => Rebase(w, vf, vt) \in Paths
    BY FieldsAre DEF Fits
  <2>2. \A w \in s[hf].opq : Within(w, vf) => Rebase(w, vf, vt) \in Paths
    BY FieldsAre DEF Fits
  <2>3. s[g].wh \subseteq Paths /\ s[g].opq \subseteq Paths
    BY FieldsAre
  <2> QED BY <2>1, <2>2, <2>3
<1>4. \A g \in Stores : \A p \in Paths :
        tree(g)[p] = IF g = ht /\ Within(p, vt) THEN comes(p)
                     ELSE IF g = hf /\ Within(p, vf) THEN Absent ELSE s[g].tree[p]
  OBVIOUS
<1>5. s \in [Stores -> Store]
  BY DEF VfsState
<1>6. \A g \in Stores : e[g] = IF g = hf \/ g = ht THEN renamed(g) ELSE s[g]
  <2> HIDE DEF renamed
  <2> QED BY <1>1, <1>5
<1>7. e = [g \in Stores |-> e[g]]
  <2> HIDE DEF renamed
  <2> QED BY <1>1, <1>5
<1>10. ASSUME NEW g \in Stores, g # hf, g # ht
       PROVE  tree(g) = s[g].tree /\ wh(g) = s[g].wh /\ opq(g) = s[g].opq
  <2>1. s[g].tree \in [Paths -> Inodes \cup {Dir, Absent}]
    BY FieldsAre
  <2> QED BY <1>10, <2>1
<1> HIDE DEF e, tree
<1>8. ASSUME NEW g \in Stores
      PROVE  /\ e[g].tree = tree(g) /\ e[g].wh = wh(g) /\ e[g].opq = opq(g)
             /\ e[g].deleted = s[g].deleted /\ e[g].opaque = s[g].opaque
             /\ e[g] \in Store
  <2> DEFINE W == wh(g)
             O == opq(g)
             T == tree(g)
  <2>1. s[g] \in Store /\ W \in SUBSET Paths /\ O \in SUBSET Paths
        /\ T \in [Paths -> Inodes \cup {Dir, Absent}]
    BY <1>2, <1>3, <1>5
  <2>2. \/ e[g] = [s[g] EXCEPT !.tree = T, !.wh = W, !.opq = O]
        \/ e[g] = s[g] /\ T = s[g].tree /\ W = s[g].wh /\ O = s[g].opq
    BY <1>6, <1>10
  <2> HIDE DEF W, O, T
  <2>3. /\ e[g].tree = T /\ e[g].wh = W /\ e[g].opq = O
        /\ e[g].deleted = s[g].deleted /\ e[g].opaque = s[g].opaque
        /\ e[g] \in Store
    BY <2>1, <2>2
  <2> QED BY <2>3 DEF W, O, T
<1>9. e \in VfsState
  BY <1>7, <1>8 DEF VfsState
<1> QED BY <1>4, <1>8, <1>9 DEF e

\* Whatever lies where the directory or file lands: nothing of a kept folder.
LEMMA LandsApart ==
  ASSUME KeptOnTop, NEW s, Good(s), NEW hf, NEW vf, NEW vt, Movable(s, hf, vf, Wl, vt),
         NEW k \in Kept, NEW p \in Paths, Within(p, vt), Within(p, KeptRoot[k]),
         s[hf].tree[vf] = Dir \/ p = vt
  PROVE  FALSE
<1>1. /\ hf \in Stores /\ vf \in Paths /\ vt \in Paths /\ ~Within(vt, KeptRoot[k])
      /\ Within(KeptRoot[k], vt) => s[hf].tree[vf] # Dir
  BY DEF Movable
<1>2. KeptRoot[k] \in VPath /\ vt \in VPath /\ p \in VPath
  BY <1>1, KeptAre, PathsAre
<1>3. Within(KeptRoot[k], vt)
  BY <1>1, <1>2, WithinChain
<1> QED BY <1>1, <1>3

\* A rename on the host moves a whole tree, markers and all, to where nothing
\* was: the stores are trees as before.
LEMMA HostRenameGood ==
  ASSUME KeptOnTop, NEW s, Good(s), NEW hf, NEW ht, NEW vf, NEW vt, Movable(s, hf, vf, ht, vt)
  PROVE  LET e == HostRename(s, hf, vf, ht, vt)
         IN  /\ Good(e)
             /\ e[ht].tree[vt] = s[hf].tree[vf]
             /\ \A g \in Stores : \A p \in Paths :
                  ~Within(p, vf) /\ ~Within(p, vt) => e[g].tree[p] = s[g].tree[p]
             /\ hf = Wl => \A p \in Paths : Within(p, vf) => e[Wl].tree[p] = Absent
             /\ \A g \in Stores : e[g].deleted = s[g].deleted /\ e[g].opaque = s[g].opaque
             /\ Unhidden(s, vf) => Unhidden(e, vf)
<1> DEFINE e == HostRename(s, hf, vf, ht, vt)
           wh == s[hf].wh \ {vf}
           opq == s[hf].opq
<1>0. /\ hf \in Stores /\ ht \in Stores /\ vf \in Paths /\ vt \in Paths
      /\ Holds(hf, vf) /\ vf # StoreRoot(hf) /\ Holds(ht, vt) /\ vt # StoreRoot(ht)
      /\ ~Within(vt, vf) /\ ~Within(vf, vt)
      /\ s[hf].tree[vf] # Absent
      /\ s[ht].tree[ParentVRel(vt)] = Dir
      /\ vt \notin s[ht].opq
      /\ \A p \in Paths : Within(p, vt) /\ p # vt =>
           s[ht].tree[p] = Absent /\ p \notin s[ht].wh /\ p \notin s[ht].opq
      /\ Fits(s, hf, vf, vt)
  BY DEF Movable
<1>1. s \in VfsState /\ HostTree(s) /\ Apart(s) /\ vf \in VPath /\ vt \in VPath
  BY <1>0, PathsAre DEF Good
<1>2. /\ e \in VfsState
      /\ \A g \in Stores :
           /\ e[g].deleted = s[g].deleted /\ e[g].opaque = s[g].opaque
           /\ e[g].wh = (IF g = hf THEN s[g].wh \ {w \in wh : Within(w, vf)} ELSE s[g].wh)
                          \cup (IF g = ht THEN {Rebase(w, vf, vt) : w \in {x \in wh : Within(x, vf)}} ELSE {})
           /\ e[g].opq = (IF g = hf THEN s[g].opq \ {w \in opq : Within(w, vf)} ELSE s[g].opq)
                          \cup (IF g = ht THEN {Rebase(w, vf, vt) : w \in {x \in opq : Within(x, vf)}} ELSE {})
           /\ \A p \in Paths :
                e[g].tree[p] =
                  IF g = ht /\ Within(p, vt)
                  THEN IF Rebase(p, vt, vf) \in Paths THEN s[hf].tree[Rebase(p, vt, vf)] ELSE Absent
                  ELSE IF g = hf /\ Within(p, vf) THEN Absent ELSE s[g].tree[p]
  BY <1>0, <1>1, HostRenameIs
<1> HIDE DEF e
\* Where a path that moves comes from, and where it lands.
<1>3. ASSUME NEW w \in Paths, Within(w, vf), Rebase(w, vf, vt) \in Paths
      PROVE  /\ Within(Rebase(w, vf, vt), vt)
             /\ e[ht].tree[Rebase(w, vf, vt)] = s[hf].tree[w]
  BY <1>0, <1>1, <1>2, <1>3, PathsAre, RebaseBack
<1>4. e[ht].tree[vt] = s[hf].tree[vf]
  BY <1>0, <1>1, <1>3, WithinReflexive, RebaseBack
<1>5. \A g \in Stores : \A p \in Paths :
        ~Within(p, vf) /\ ~Within(p, vt) => e[g].tree[p] = s[g].tree[p]
  BY <1>2
<1>6. hf = Wl => \A p \in Paths : Within(p, vf) => e[Wl].tree[p] = Absent
  <2> SUFFICES ASSUME hf = Wl, NEW p \in Paths, Within(p, vf) PROVE e[Wl].tree[p] = Absent
    OBVIOUS
  <2>1. ~Within(p, vt)
    BY <1>0, <1>1, PathsAre, WithinChain
  <2> QED BY <1>2, <2>1, StoresAre
<1>7. \A w \in wh : w \in Paths /\ w # vf /\ (Within(w, vf) => Rebase(w, vf, vt) \in Paths)
  BY <1>0, <1>1, FieldsAre DEF Fits
<1>8. \A w \in opq : w \in Paths /\ (Within(w, vf) => Rebase(w, vf, vt) \in Paths)
  BY <1>0, <1>1, FieldsAre DEF Fits
\* The store's root does not move, nor is anything moved onto it.
<1>9. \A p \in Paths : Within(p, vf) => p # StoreRoot(hf)
  BY <1>0, <1>1, StoresAre, WithinAntisymmetric DEF Holds
<1>10. \A p \in VPath : Within(p, vt) => p # StoreRoot(ht) /\ Within(p, StoreRoot(ht))
  BY <1>0, <1>1, StoresAre, WithinAntisymmetric, WithinTransitive DEF Holds
\* The directory that a moved entry or marker is in has moved along.
<1>11. ASSUME NEW w \in Paths, Within(w, vf), w # vf, Rebase(w, vf, vt) \in Paths,
              s[hf].tree[w] # Absent \/ w \in s[hf].wh
       PROVE  /\ Holds(ht, Rebase(w, vf, vt))
              /\ e[ht].tree[ParentVRel(Rebase(w, vf, vt))] = Dir
  <2> DEFINE r == Rebase(w, vf, vt)
             u == ParentVRel(w)
  <2>1. w \in VPath /\ Within(r, vt)
    BY <1>1, <1>3, <1>11, PathsAre
  <2>2. w # StoreRoot(hf) /\ Holds(hf, w) /\ s[hf].tree[u] = Dir
    BY <1>0, <1>1, <1>9, <1>11 DEF HostTree
  <2>3. r # Root /\ Within(u, vf) /\ ParentVRel(r) = Rebase(u, vf, vt) /\ w # Root
    BY <1>1, <1>11, <2>1, RebaseParent
  <2>4. u \in Paths /\ ParentVRel(r) \in Paths
    BY <1>11, <2>3, PathsAre
  <2>5. e[ht].tree[ParentVRel(r)] = Dir
    BY <1>3, <2>2, <2>3, <2>4
  <2>6. Holds(ht, r)
    BY <1>10, <1>11, <2>1, PathsAre DEF Holds
  <2> QED BY <2>5, <2>6
\* What stays, stays where it was.
<1>12. ASSUME NEW g \in Stores, NEW p \in Paths \ {StoreRoot(g)},
              s[g].tree[p] # Absent \/ p \in s[g].wh,
              g = hf => ~Within(p, vf) \/ p = vf, g = ht => ~Within(p, vt) \/ p = vt
       PROVE  Holds(g, p) /\ e[g].tree[ParentVRel(p)] = Dir
  <2>1. Holds(g, p) /\ s[g].tree[ParentVRel(p)] = Dir
    BY <1>1, <1>12 DEF HostTree
  <2>2. p # Root /\ ParentVRel(p) \in Paths
    BY <2>1, AboveAre
  <2>3. p \in VPath /\ ParentVRel(p) \in VPath /\ Within(p, ParentVRel(p)) /\ ParentVRel(p) # p
    BY <2>2, PathsAre, ParentIs
  <2>4. g = hf => ~Within(ParentVRel(p), vf)
    BY <1>1, <1>12, <2>3, WithinTransitive, WithinAntisymmetric
  <2>5. g = ht => ~Within(ParentVRel(p), vt)
    BY <1>1, <1>12, <2>3, WithinTransitive, WithinAntisymmetric
  <2> QED BY <1>2, <2>1, <2>2, <2>4, <2>5
<1>13. HostTree(e)
  <2> SUFFICES ASSUME NEW g \in Stores
               PROVE  /\ e[g].tree[StoreRoot(g)] = Dir
                      /\ \A p \in Paths \ {StoreRoot(g)} :
                           e[g].tree[p] # Absent \/ p \in e[g].wh =>
                             Holds(g, p) /\ e[g].tree[ParentVRel(p)] = Dir
                      /\ \A p \in e[g].opq : e[g].tree[p] = Dir
    BY DEF HostTree
  <2>1. e[g].tree[StoreRoot(g)] = Dir
    <3>1. StoreRoot(g) \in Paths /\ StoreRoot(g) \in VPath /\ s[g].tree[StoreRoot(g)] = Dir
      BY <1>1, StoresAre DEF HostTree
    <3>2. g = hf => ~Within(StoreRoot(g), vf)
      BY <1>9, <3>1
    <3>3. g = ht => ~Within(StoreRoot(g), vt)
      BY <1>10, <3>1
    <3> QED BY <1>2, <3>1, <3>2, <3>3
  <2>2. ASSUME NEW p \in Paths \ {StoreRoot(g)}, e[g].tree[p] # Absent
        PROVE  Holds(g, p) /\ e[g].tree[ParentVRel(p)] = Dir
    <3>1. CASE g = ht /\ Within(p, vt)
      <4> DEFINE q == Rebase(p, vt, vf)
      <4>1. q \in Paths /\ s[hf].tree[q] # Absent
        BY <1>2, <2>2, <3>1
      <4>2. Within(q, vf) /\ Rebase(q, vf, vt) = p
        BY <1>1, <3>1, PathsAre, RebaseBack
      <4>3. CASE q = vf
        <5>1. p = vt
          BY <1>1, <4>2, <4>3, RebaseBack
        <5>2. vt # Root /\ ParentVRel(vt) \in Paths
          BY <1>0, AboveAre
        <5>3. ParentVRel(vt) \in VPath /\ Within(vt, ParentVRel(vt)) /\ ParentVRel(vt) # vt
          BY <1>1, <5>2, ParentIs
        <5>4. ~Within(ParentVRel(vt), vt) /\ ~Within(ParentVRel(vt), vf)
          BY <1>0, <1>1, <5>3, WithinTransitive, WithinAntisymmetric
        <5> QED BY <1>0, <1>5, <3>1, <5>1, <5>2, <5>4
      <4>4. CASE q # vf
        BY <1>11, <3>1, <4>1, <4>2, <4>4
      <4> QED BY <4>3, <4>4
    <3>2. CASE ~(g = ht /\ Within(p, vt))
      <4>1. s[g].tree[p] # Absent /\ (g = hf => ~Within(p, vf))
        BY <1>2, <2>2, <3>2
      <4> QED BY <1>12, <3>2, <4>1
    <3> QED BY <3>1, <3>2
  <2>3. ASSUME NEW p \in Paths \ {StoreRoot(g)}, p \in e[g].wh
        PROVE  Holds(g, p) /\ e[g].tree[ParentVRel(p)] = Dir
    <3>1. CASE p \in s[g].wh /\ (g = hf => p \notin {w \in wh : Within(w, vf)})
      <4>1. g = hf => ~Within(p, vf) \/ p = vf
        BY <3>1
      <4>2. g = ht => ~Within(p, vt) \/ p = vt
        BY <1>0, <3>1
      <4> QED BY <1>12, <3>1, <4>1, <4>2
    <3>2. ASSUME g = ht, NEW w \in wh, Within(w, vf), p = Rebase(w, vf, vt)
          PROVE  Holds(g, p) /\ e[g].tree[ParentVRel(p)] = Dir
      BY <1>7, <1>11, <3>2
    <3>3. \/ p \in s[g].wh /\ (g = hf => p \notin {w \in wh : Within(w, vf)})
          \/ g = ht /\ \E w \in wh : Within(w, vf) /\ p = Rebase(w, vf, vt)
      BY <1>2, <2>3
    <3> QED BY <3>1, <3>2, <3>3
  <2>4. ASSUME NEW p \in e[g].opq PROVE e[g].tree[p] = Dir
    <3>1. CASE p \in s[g].opq /\ (g = hf => p \notin {w \in opq : Within(w, vf)})
      <4>1. p \in Paths /\ s[g].tree[p] = Dir
        BY <1>1, <3>1, FieldsAre DEF HostTree
      <4>2. g = hf => ~Within(p, vf)
        BY <3>1
      <4>3. g = ht => ~Within(p, vt)
        BY <1>0, <3>1, <4>1
      <4> QED BY <1>2, <4>1, <4>2, <4>3
    <3>2. ASSUME g = ht, NEW w \in opq, Within(w, vf), p = Rebase(w, vf, vt)
          PROVE  e[g].tree[p] = Dir
      <4>1. s[hf].tree[w] = Dir
        BY <1>0, <1>1 DEF HostTree
      <4> QED BY <1>3, <1>8, <3>2, <4>1
    <3>3. \/ p \in s[g].opq /\ (g = hf => p \notin {w \in opq : Within(w, vf)})
          \/ g = ht /\ \E w \in opq : Within(w, vf) /\ p = Rebase(w, vf, vt)
      BY <1>2, <2>4
    <3> QED BY <3>1, <3>2, <3>3
  <2> QED BY <2>1, <2>2, <2>3, <2>4
\* Below a file nothing moves, and a directory does not land among kept folders.
<1>14. ASSUME s[hf].tree[vf] # Dir, NEW q \in Paths, Within(q, vf), q # vf
       PROVE  s[hf].tree[q] = Absent /\ q \notin s[hf].wh /\ q \notin s[hf].opq
  BY <1>0, <1>14, EmptyBelow
<1>15. \A w \in wh : Within(w, vf) => s[hf].tree[vf] = Dir
  BY <1>7, <1>14
<1>16. \A w \in opq : Within(w, vf) => s[hf].tree[vf] = Dir
  <2> TAKE w \in opq
  <2> HAVE Within(w, vf)
  <2>1. w \in Paths /\ s[hf].tree[w] = Dir
    BY <1>0, <1>1, <1>8 DEF HostTree
  <2> QED BY <1>14, <2>1, Distinct
<1>17. Apart(e)
  <2>1. ASSUME NEW g \in Stores PROVE StoreRoot(g) \notin e[g].wh \cup e[g].deleted
    <3>1. StoreRoot(g) \notin s[g].wh \cup s[g].deleted
      BY <1>1 DEF Apart
    <3>2. \A w \in wh : g = ht /\ Within(w, vf) => Rebase(w, vf, vt) # StoreRoot(g)
      BY <1>1, <1>3, <1>7, <1>10, PathsAre
    <3> QED BY <1>2, <3>1, <3>2
  <2>2. ASSUME NEW p \in Paths \ {Root}, NEW k \in Kept, Within(p, KeptRoot[k])
        PROVE  /\ e[Wl].tree[p] = Absent
               /\ p \notin e[Wl].opq \cup e[Wl].opaque
               /\ p \in e[Wl].wh \cup e[Wl].deleted => p = KeptRoot[k]
    <3>1. /\ s[Wl].tree[p] = Absent
          /\ p \notin s[Wl].opq \cup s[Wl].opaque
          /\ p \in s[Wl].wh \cup s[Wl].deleted => p = KeptRoot[k]
      BY <1>1, <2>2 DEF Apart
    <3>2. CASE ht # Wl
      BY <1>2, <3>1, <3>2, StoresAre
    <3>3. CASE ht = Wl
      <4>1. Movable(s, hf, vf, Wl, vt)
        BY <3>3
      <4>2. Within(p, vt) => p # vt /\ s[hf].tree[vf] # Dir
        BY <2>2, <4>1, LandsApart
      <4>3. Within(p, vt) => e[Wl].tree[p] = Absent
        <5> HAVE Within(p, vt)
        <5>1. s[hf].tree[vf] # Dir /\ p # vt
          BY <4>2
        <5>2. Rebase(p, vt, vf) # vf /\ Within(Rebase(p, vt, vf), vf)
          BY <1>1, <5>1, PathsAre, RebaseBack, WithinReflexive
        <5>3. Rebase(p, vt, vf) \in Paths => s[hf].tree[Rebase(p, vt, vf)] = Absent
          BY <1>14, <5>1, <5>2
        <5> QED BY <1>2, <3>3, <5>3, StoresAre
      <4>4. ~Within(p, vt) => e[Wl].tree[p] = Absent
        BY <1>2, <3>1, StoresAre
      <4>5. \A w \in wh : Within(w, vf) => Rebase(w, vf, vt) # p
        BY <1>3, <1>7, <1>15, <4>2
      <4>6. \A w \in opq : Within(w, vf) => Rebase(w, vf, vt) # p
        BY <1>3, <1>8, <1>16, <4>2
      <4> QED BY <1>2, <3>1, <4>3, <4>4, <4>5, <4>6, StoresAre
    <3> QED BY <3>2, <3>3
  <2> QED BY <2>1, <2>2 DEF Apart
<1>18. Unhidden(s, vf) => Unhidden(e, vf)
  <2> SUFFICES ASSUME Unhidden(s, vf), NEW a \in Paths, Within(vf, a), a # vf, a \in e[Wl].wh
               PROVE  FALSE
    BY DEF Unhidden
  <2>1. a \notin s[Wl].wh
    BY DEF Unhidden
  <2>2. PICK w \in wh : Within(w, vf) /\ a = Rebase(w, vf, vt)
    BY <1>2, <2>1, StoresAre
  <2>3. Within(a, vt)
    BY <1>3, <1>7, <2>2
  <2> QED BY <1>0, <1>1, <2>3, PathsAre, WithinTransitive
<1> QED BY <1>2, <1>4, <1>5, <1>6, <1>13, <1>17, <1>18 DEF Good, e
\* Nothing of the writelayer comes to lie below a marker: the markers that move
\* are those of names below which nothing is, and none is above the new name.
LEMMA HostRenameBare ==
  ASSUME KeptOnTop, NEW s, Good(s), NEW hf, NEW ht, NEW vf, NEW vt, Movable(s, hf, vf, ht, vt),
         Bare(s), Unhidden(s, vt), ht = Wl => vt \notin s[Wl].wh
  PROVE  Bare(HostRename(s, hf, vf, ht, vt))
<1> DEFINE e == HostRename(s, hf, vf, ht, vt)
           wh == s[hf].wh \ {vf}
<1>0. /\ hf \in Stores /\ ht \in Stores /\ vf \in Paths /\ vt \in Paths
      /\ Holds(hf, vf) /\ ~Within(vt, vf) /\ ~Within(vf, vt)
      /\ \A p \in Paths : Within(p, vt) /\ p # vt => p \notin s[ht].wh
      /\ Fits(s, hf, vf, vt)
      /\ hf = ht \/ s[hf].tree[vf] # Dir
      /\ vf \in VPath /\ vt \in VPath /\ s \in VfsState /\ Wl \in Stores
  BY PathsAre, StoresAre DEF Movable, Good
<1>1. \A g \in Stores :
        /\ e[g].wh = (IF g = hf THEN s[g].wh \ {w \in wh : Within(w, vf)} ELSE s[g].wh)
                       \cup (IF g = ht THEN {Rebase(w, vf, vt) : w \in {x \in wh : Within(x, vf)}} ELSE {})
        /\ \A p \in Paths :
             e[g].tree[p] =
               IF g = ht /\ Within(p, vt)
               THEN IF Rebase(p, vt, vf) \in Paths THEN s[hf].tree[Rebase(p, vt, vf)] ELSE Absent
               ELSE IF g = hf /\ Within(p, vf) THEN Absent ELSE s[g].tree[p]
  BY <1>0, HostRenameIs
<1> HIDE DEF e
<1> SUFFICES ASSUME NEW v \in e[Wl].wh, NEW p \in Paths, Within(p, v) PROVE e[Wl].tree[p] = Absent
  BY DEF Bare, e
<1>2. p \in VPath
  BY PathsAre
<1>3. CASE v \in s[Wl].wh
  <2>1. v \in Paths /\ v \in VPath /\ s[Wl].tree[p] = Absent
    BY <1>0, <1>3, FieldsAre, PathsAre DEF Bare
  <2>2. ASSUME ht = Wl, Within(p, vt) PROVE FALSE
    <3>1. Within(v, vt) \/ Within(vt, v)
      BY <1>0, <1>2, <2>1, <2>2, WithinChain
    <3>2. v # vt /\ ~Within(v, vt)
      BY <1>0, <1>3, <2>1, <2>2
    <3> QED BY <1>3, <2>1, <3>1, <3>2 DEF Unhidden
  <2> QED BY <1>0, <1>1, <2>1, <2>2
<1>4. ASSUME ht = Wl, NEW w \in wh, Within(w, vf), v = Rebase(w, vf, vt)
      PROVE  e[Wl].tree[p] = Absent
  <2>1. w \in Paths /\ w \in VPath /\ w # vf /\ w \in s[hf].wh
    BY <1>0, <1>4, FieldsAre, PathsAre
  <2>2. s[hf].tree[vf] = Dir /\ hf = Wl
    BY <1>0, <1>4, <2>1, EmptyBelow
  <2>3. v \in VPath /\ Within(v, vt) /\ Rebase(v, vt, vf) = w
    BY <1>0, <1>4, <2>1, RebaseBack
  <2>4. Within(p, vt)
    BY <1>0, <1>2, <2>3, WithinTransitive
  <2>5. Within(Rebase(p, vt, vf), w)
    BY <1>0, <1>2, <2>3, <2>4, RebaseOrder
  <2>6. Rebase(p, vt, vf) \in Paths => s[Wl].tree[Rebase(p, vt, vf)] = Absent
    BY <2>1, <2>2, <2>5 DEF Bare
  <2> QED BY <1>0, <1>1, <1>4, <2>2, <2>4, <2>6
<1> QED BY <1>0, <1>1, <1>3, <1>4

\* A file takes no marker along.
LEMMA FileMoved ==
  ASSUME KeptOnTop, NEW s, Good(s), Masked(s), NEW hf, NEW ht, NEW vf, NEW vt,
         Movable(s, hf, vf, ht, vt), s[hf].tree[vf] # Dir
  PROVE  Masked(HostRename(s, hf, vf, ht, vt))
<1> DEFINE e == HostRename(s, hf, vf, ht, vt)
           wh == s[hf].wh \ {vf}
<1>0. /\ hf \in Stores /\ ht \in Stores /\ vf \in Paths /\ vt \in Paths
      /\ Holds(hf, vf) /\ Fits(s, hf, vf, vt) /\ s \in VfsState /\ HostTree(s)
  BY DEF Movable, Good
<1>1. \A g \in Stores :
        /\ e[g].deleted = s[g].deleted /\ e[g].opaque = s[g].opaque
        /\ e[g].wh = (IF g = hf THEN s[g].wh \ {w \in wh : Within(w, vf)} ELSE s[g].wh)
                       \cup (IF g = ht THEN {Rebase(w, vf, vt) : w \in {x \in wh : Within(x, vf)}} ELSE {})
        /\ e[g].opq = (IF g = hf THEN s[g].opq \ {w \in s[hf].opq : Within(w, vf)} ELSE s[g].opq)
                       \cup (IF g = ht THEN {Rebase(w, vf, vt) : w \in {x \in s[hf].opq : Within(x, vf)}} ELSE {})
  BY <1>0, HostRenameIs
<1> HIDE DEF e
<1>2. \A w \in wh : ~Within(w, vf)
  BY <1>0, FieldsAre, EmptyBelow
<1>3. \A w \in s[hf].opq : ~Within(w, vf)
  <2> TAKE w \in s[hf].opq
  <2>1. w \in Paths /\ s[hf].tree[w] = Dir
    BY <1>0, FieldsAre DEF HostTree
  <2> QED BY <1>0, <2>1, EmptyBelow
<1>4. \A g \in Stores : e[g].wh = s[g].wh /\ e[g].opq = s[g].opq
  <2> TAKE g \in Stores
  <2> DEFINE movedWh == {Rebase(w, vf, vt) : w \in {x \in wh : Within(x, vf)}}
             movedOpq == {Rebase(w, vf, vt) : w \in {x \in s[hf].opq : Within(x, vf)}}
             stayWh == s[g].wh \ {w \in wh : Within(w, vf)}
             stayOpq == s[g].opq \ {w \in s[hf].opq : Within(w, vf)}
  <2>1. /\ e[g].wh = (IF g = hf THEN stayWh ELSE s[g].wh) \cup (IF g = ht THEN movedWh ELSE {})
        /\ e[g].opq = (IF g = hf THEN stayOpq ELSE s[g].opq) \cup (IF g = ht THEN movedOpq ELSE {})
    BY <1>1
  <2>2. movedWh = {} /\ stayWh = s[g].wh
    BY <1>2
  <2>3. movedOpq = {} /\ stayOpq = s[g].opq
    BY <1>3
  <2> HIDE DEF movedWh, movedOpq, stayWh, stayOpq
  <2> QED BY <2>1, <2>2, <2>3
<1> QED BY <1>1, <1>4 DEF Masked, e

\* The masks of store h moved along with a directory.
MovedMasks(s, h, vf, vt) ==
  [s EXCEPT ![h].deleted = RewritePrefix(@, vf, vt), ![h].opaque = RewritePrefix(@, vf, vt)]

\* Where the masks of a moved directory may land.
Landing(s, h, vf, vt) ==
  /\ h \in Stores /\ vf \in Paths /\ vt \in Paths
  /\ Holds(h, vt) /\ vt # StoreRoot(h)
  /\ \A p \in s[h].deleted \cup s[h].opaque : Within(p, vf) => Rebase(p, vf, vt) \in Paths
  /\ h = Wl => \A k \in Kept : ~Within(vt, KeptRoot[k]) /\ ~Within(KeptRoot[k], vt)

\* The masks that move lie below the new name, and a good state stays good.
LEMMA MovedMasksGood ==
  ASSUME KeptOnTop, NEW s, Good(s), NEW h, NEW vf, NEW vt, Landing(s, h, vf, vt)
  PROVE  LET e == MovedMasks(s, h, vf, vt)
         IN  /\ Good(e) /\ (Bare(s) => Bare(e)) /\ \A w : Unhidden(s, w) => Unhidden(e, w)
             /\ \A g \in Stores : /\ e[g].tree = s[g].tree
                                  /\ e[g].wh = s[g].wh /\ e[g].opq = s[g].opq
                                  /\ g # h => e[g] = s[g]
             /\ e[h].deleted = RewritePrefix(s[h].deleted, vf, vt)
             /\ e[h].opaque = RewritePrefix(s[h].opaque, vf, vt)
<1> DEFINE e == MovedMasks(s, h, vf, vt)
           D == RewritePrefix(s[h].deleted, vf, vt)
           Q == RewritePrefix(s[h].opaque, vf, vt)
<1>0. /\ h \in Stores /\ vf \in Paths /\ vt \in Paths
      /\ Holds(h, vt) /\ vt # StoreRoot(h)
      /\ \A p \in s[h].deleted \cup s[h].opaque : Within(p, vf) => Rebase(p, vf, vt) \in Paths
      /\ h = Wl => \A k \in Kept : ~Within(vt, KeptRoot[k]) /\ ~Within(KeptRoot[k], vt)
      /\ vf \in VPath /\ vt \in VPath
  BY PathsAre DEF Landing
<1>1. s \in VfsState /\ HostTree(s) /\ Apart(s)
  BY DEF Good
\* A name of D or Q is one of s, or lies at or below vt.
<1>2. \A q \in D : q \in s[h].deleted \/ (q \in Paths /\ Within(q, vt))
  <2> TAKE q \in D
  <2>1. PICK p \in s[h].deleted : q = IF Within(p, vf) THEN Rebase(p, vf, vt) ELSE p
    BY DEF RewritePrefix
  <2>2. p \in VPath
    BY <1>0, <1>1, <2>1, FieldsAre, PathsAre
  <2> QED BY <1>0, <2>1, <2>2, RebaseBack
<1>3. \A q \in Q : q \in s[h].opaque \/ (q \in Paths /\ Within(q, vt))
  <2> TAKE q \in Q
  <2>1. PICK p \in s[h].opaque : q = IF Within(p, vf) THEN Rebase(p, vf, vt) ELSE p
    BY DEF RewritePrefix
  <2>2. p \in VPath
    BY <1>0, <1>1, <2>1, FieldsAre, PathsAre
  <2> QED BY <1>0, <2>1, <2>2, RebaseBack
<1>4. D \in SUBSET Paths /\ Q \in SUBSET Paths
  BY <1>0, <1>1, <1>2, <1>3, FieldsAre
<1>5. e = [s EXCEPT ![h].deleted = D, ![h].opaque = Q]
  BY <1>0, <1>1 DEF MovedMasks, VfsState
<1> HIDE DEF e, D, Q
<1>6. /\ e \in VfsState
      /\ \A g \in Stores : /\ e[g].tree = s[g].tree
                           /\ e[g].wh = s[g].wh /\ e[g].opq = s[g].opq
                           /\ g # h => e[g] = s[g]
      /\ e[h].deleted = D /\ e[h].opaque = Q
  BY <1>0, <1>1, <1>4, <1>5 DEF VfsState
<1>7. HostTree(e)
  BY <1>1, <1>6 DEF HostTree
<1>8. ASSUME NEW q \in Paths, Within(q, vt)
      PROVE  /\ q # StoreRoot(h)
             /\ h = Wl => \A k \in Kept : ~Within(q, KeptRoot[k])
  <2>1. q \in VPath /\ StoreRoot(h) \in VPath /\ \A k \in Kept : KeptRoot[k] \in VPath
    BY <1>0, PathsAre, StoresAre, KeptAre
  <2>2. q # StoreRoot(h)
    BY <1>0, <1>8, <2>1, WithinAntisymmetric DEF Holds
  <2> QED BY <1>0, <1>8, <2>1, <2>2, WithinChain
<1>9. Apart(e)
  <2>1. ASSUME NEW g \in Stores PROVE StoreRoot(g) \notin e[g].wh \cup e[g].deleted
    <3>1. StoreRoot(g) \notin s[g].wh \cup s[g].deleted
      BY <1>1 DEF Apart
    <3> QED BY <1>2, <1>6, <1>8, <3>1
  <2>2. ASSUME NEW v \in Paths \ {Root}, NEW k \in Kept, Within(v, KeptRoot[k])
        PROVE  /\ e[Wl].tree[v] = Absent
               /\ v \notin e[Wl].opq \cup e[Wl].opaque
               /\ v \in e[Wl].wh \cup e[Wl].deleted => v = KeptRoot[k]
    <3>1. /\ s[Wl].tree[v] = Absent
          /\ v \notin s[Wl].opq \cup s[Wl].opaque
          /\ v \in s[Wl].wh \cup s[Wl].deleted => v = KeptRoot[k]
      BY <1>1, <2>2 DEF Apart
    <3>2. h = Wl => ~Within(v, vt)
      BY <1>8, <2>2
    <3>3. h = Wl => v \notin Q /\ (v \in D => v \in s[Wl].deleted)
      BY <1>2, <1>3, <3>1, <3>2
    <3> QED BY <1>6, <3>1, <3>3, StoresAre
  <2> QED BY <2>1, <2>2 DEF Apart
<1>10. (Bare(s) => Bare(e)) /\ \A w : Unhidden(s, w) => Unhidden(e, w)
  BY <1>6, StoresAre DEF Bare, Unhidden
<1> QED BY <1>1, <1>6, <1>7, <1>9, <1>10 DEF Good, e, D, Q

\* A directory that is moved takes its markers along, and its masks follow: they
\* mirror each other as before, unless a marker of its own name stayed behind.
LEMMA MasksFollow ==
  ASSUME KeptOnTop, NEW s, Good(s), Masked(s), NEW h, NEW vf, NEW vt, Movable(s, h, vf, h, vt),
         vf \notin s[h].deleted
  PROVE  LET e == HostRename(s, h, vf, h, vt)
         IN  \A f : /\ \A g \in Stores : f[g].wh = e[g].wh /\ f[g].opq = e[g].opq /\ (g # h => f[g] = e[g])
                    /\ f[h].deleted = RewritePrefix(s[h].deleted, vf, vt)
                    /\ f[h].opaque = RewritePrefix(s[h].opaque, vf, vt)
                    => Masked(f)
<1> DEFINE e == HostRename(s, h, vf, h, vt)
           wh == s[h].wh \ {vf}
<1>0. h \in Stores /\ vf \in Paths /\ vt \in Paths /\ Fits(s, h, vf, vt) /\ s \in VfsState
  BY DEF Movable, Good
<1>1. \A g \in Stores :
        /\ e[g].deleted = s[g].deleted /\ e[g].opaque = s[g].opaque
        /\ e[g].wh = (IF g = h THEN s[g].wh \ {w \in wh : Within(w, vf)} ELSE s[g].wh)
                       \cup (IF g = h THEN {Rebase(w, vf, vt) : w \in {x \in wh : Within(x, vf)}} ELSE {})
        /\ e[g].opq = (IF g = h THEN s[g].opq \ {w \in s[h].opq : Within(w, vf)} ELSE s[g].opq)
                       \cup (IF g = h THEN {Rebase(w, vf, vt) : w \in {x \in s[h].opq : Within(x, vf)}} ELSE {})
  BY <1>0, HostRenameIs
<1> HIDE DEF e
<1>2. wh = s[h].wh
  BY <1>0 DEF Masked
<1>3. e[h].wh = RewritePrefix(s[h].wh, vf, vt)
  BY <1>0, <1>1, <1>2 DEF RewritePrefix
<1>4. e[h].opq = RewritePrefix(s[h].opq, vf, vt)
  BY <1>0, <1>1 DEF RewritePrefix
<1>5. \A g \in Stores : g # h => e[g].wh = s[g].wh /\ e[g].opq = s[g].opq
  BY <1>1
<1>6. ASSUME NEW f, \A g \in Stores : f[g].wh = e[g].wh /\ f[g].opq = e[g].opq /\ (g # h => f[g] = e[g]),
             f[h].deleted = RewritePrefix(s[h].deleted, vf, vt),
             f[h].opaque = RewritePrefix(s[h].opaque, vf, vt)
      PROVE  Masked(f)
  <2> SUFFICES ASSUME NEW g \in Stores
               PROVE  /\ f[g].wh \subseteq f[g].deleted /\ f[g].opq \subseteq f[g].opaque
                      /\ "marker" \notin HostFaults => f[g].deleted = f[g].wh /\ f[g].opaque = f[g].opq
    BY DEF Masked
  <2>1. CASE g # h
    BY <1>1, <1>5, <1>6, <2>1 DEF Masked
  <2>2. CASE g = h
    <3>1. /\ s[h].wh \subseteq s[h].deleted /\ s[h].opq \subseteq s[h].opaque
          /\ "marker" \notin HostFaults => s[h].deleted = s[h].wh /\ s[h].opaque = s[h].opq
      BY <1>0 DEF Masked
    <3>2. \A X, Y : X \subseteq Y => RewritePrefix(X, vf, vt) \subseteq RewritePrefix(Y, vf, vt)
      BY DEF RewritePrefix
    <3> QED BY <1>0, <1>3, <1>4, <1>6, <2>2, <3>1, <3>2
  <2> QED BY <2>1, <2>2
<1> QED BY <1>6 DEF e

\* Nothing that the writelayer masks lies in a directory of a kept folder.
LEMMA WritelayerStays ==
  ASSUME KeptOnTop, NEW s, Good(s), NEW k \in Kept, NEW vf \in Paths, Holds(k, vf), vf # StoreRoot(k),
         NEW vt \in Paths
  PROVE  RenameMaskPrefix(s, vf, vt) = s
<1>1. s \in VfsState /\ Apart(s) /\ Wl \in Stores /\ KeptRoot[k] = StoreRoot(k) /\ KeptRoot[k] \in VPath
  BY StoresAre DEF Good
<1>2. ASSUME NEW p \in s[Wl].deleted \cup s[Wl].opaque, Within(p, vf) PROVE FALSE
  <2>1. p \in Paths /\ p \in VPath /\ vf \in VPath
    BY <1>1, <1>2, FieldsAre, PathsAre
  <2>2. Within(p, KeptRoot[k])
    BY <1>1, <1>2, <2>1, WithinTransitive DEF Holds
  <2>3. vf # Root /\ p # Root
    BY <1>1, <1>2, <2>1, WithinRoot DEF Holds
  <2>4. p = KeptRoot[k]
    BY <1>1, <1>2, <2>1, <2>2, <2>3 DEF Apart
  <2> QED BY <1>1, <1>2, <2>1, <2>4, WithinAntisymmetric DEF Holds
<1>3. /\ RewritePrefix(s[Wl].deleted, vf, vt) = s[Wl].deleted
      /\ RewritePrefix(s[Wl].opaque, vf, vt) = s[Wl].opaque
  BY <1>2 DEF RewritePrefix
<1> QED BY <1>1, <1>3 DEF RenameMaskPrefix, VfsState

=============================================================================
