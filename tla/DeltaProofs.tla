----------------------------- MODULE DeltaProofs -----------------------------
(***************************************************************************)
(* Proofs about Delta, for any bytes, versions, block sizes and windows,   *)
(* and chains of any length.                                               *)
(***************************************************************************)
EXTENDS Delta, SequenceTheorems, WellFoundedInduction, TLAPS

(***************************************************************************)
(* Recursion over the naturals.  A proof by induction takes the least      *)
(* number for which the claim fails.                                       *)
(***************************************************************************)
\* A set of naturals that is not empty has a least member.
LEMMA LeastNat ==
  ASSUME NEW T, T \subseteq Nat, T # {}
  PROVE  \E x \in T : \A y \in T : x <= y
<1>1. \E R : IsWellFoundedOn(R, Nat) /\ \A x, y \in Nat : y < x => <<y, x>> \in R
  <2>1. \A x, y \in Nat : y < x => <<y, x>> \in OpToRel(<, Nat)
    BY DEF OpToRel
  <2> QED BY <2>1, NatLessThanWellFounded, Zenon
<1>2. PICK R : IsWellFoundedOn(R, Nat) /\ \A x, y \in Nat : y < x => <<y, x>> \in R
  BY <1>1
<1>3. PICK x \in T : \A y \in T : <<y, x>> \notin R
  BY <1>2, WFMin, Zenon
<1>4. \A y \in T : ~(y < x)
  BY <1>2, <1>3
<1> QED BY <1>4

\* Induction over the naturals, for a set.
LEMMA Induction ==
  ASSUME NEW T, 0 \in T, \A n \in Nat : n \in T => n + 1 \in T
  PROVE  Nat \subseteq T
<1> SUFFICES ASSUME Nat \ T # {} PROVE FALSE
  OBVIOUS
<1>1. PICK n \in Nat \ T : \A k \in Nat \ T : n <= k
  BY LeastNat
<1>2. n # 0 /\ n - 1 \in Nat
  BY <1>1
<1>3. n - 1 \in T
  BY <1>1, <1>2
<1> QED BY <1>1, <1>2, <1>3

\* Max and Min of two numbers and of a bounded set.
LEMMA MinOfTwo == ASSUME NEW a \in Int, NEW b \in Int PROVE Min({a, b}) = IF a <= b THEN a ELSE b
BY DEF Min

\* The greater of two numbers.
LEMMA MaxOfTwo == ASSUME NEW a \in Int, NEW b \in Int PROVE Max({a, b}) = IF a <= b THEN b ELSE a
BY DEF Max

\* Bounds of the lesser of two numbers.
LEMMA MinOf ==
  ASSUME NEW a \in Int, NEW b \in Int
  PROVE  /\ Min({a, b}) \in Int /\ Min({a, b}) <= a /\ Min({a, b}) <= b
         /\ Min({a, b}) = a \/ Min({a, b}) = b
BY MinOfTwo

\* Bounds of the greater of two numbers.
LEMMA MaxOf ==
  ASSUME NEW a \in Int, NEW b \in Int
  PROVE  /\ Max({a, b}) \in Int /\ a <= Max({a, b}) /\ b <= Max({a, b})
         /\ Max({a, b}) = a \/ Max({a, b}) = b
BY MaxOfTwo

\* A number, or zero when it is negative: how ReadFile clamps what is left of a file.
LEMMA MaxOfZero ==
  ASSUME NEW b \in Int
  PROVE  Max({0, b}) \in Nat /\ b <= Max({0, b}) /\ (b <= 0 => Max({0, b}) = 0) /\ (b >= 0 => Max({0, b}) = b)
BY MaxOfTwo

\* A bounded set that is not empty has a greatest member, which Max is.
LEMMA Greatest ==
  ASSUME NEW n \in Nat, NEW T, T \subseteq 0 .. n, T # {}
  PROVE  Max(T) \in T /\ \A y \in T : y <= Max(T)
<1> DEFINE U == {n - t : t \in T}
<1>1. U \subseteq Nat /\ U # {}
  <2>1. \A t \in T : n - t \in Nat
    OBVIOUS
  <2> QED BY <2>1
<1>2. PICK u \in U : \A w \in U : u <= w
  BY <1>1, LeastNat
<1>3. PICK x \in T : u = n - x
  OBVIOUS
<1>4. ASSUME NEW y \in T PROVE y <= x
  <2>1. n - y \in U /\ x \in 0 .. n /\ y \in 0 .. n
    OBVIOUS
  <2>2. n - x <= n - y
    BY <1>2, <1>3, <2>1
  <2> QED BY <2>1, <2>2
<1>5. \E z \in T : \A y \in T : z >= y
  BY <1>4
<1> QED BY <1>5 DEF Max

\* Linear recursion over D with values in T: f[x] is a leaf, or made of f[next[x]].
Recurs(D, T, stop, leaf, next, comb, f) ==
  /\ f \in [D -> T]
  /\ \A x \in D : f[x] = IF x \in stop THEN leaf[x] ELSE comb[x][f[next[x]]]

\* It ends, as mu decreases.
Decreases(D, T, mu, stop, leaf, next, comb) ==
  /\ mu \in [D -> Nat] /\ leaf \in [D -> T]
  /\ \A x \in D \ stop : next[x] \in D /\ mu[next[x]] < mu[x] /\ comb[x] \in [T -> T]

\* What it defines exists.
LEMMA Recursion ==
  ASSUME NEW D, NEW T, NEW mu, NEW stop, NEW leaf, NEW next, NEW comb,
         Decreases(D, T, mu, stop, leaf, next, comb)
  PROVE  \E f : Recurs(D, T, stop, leaf, next, comb, f)
<1> USE DEF Decreases
<1> DEFINE Below(n) == {x \in D : mu[x] < n}
           Sol(g, n) == /\ g \in [Below(n) -> T]
                        /\ \A x \in Below(n) : g[x] = IF x \in stop THEN leaf[x] ELSE comb[x][g[next[x]]]
<1>1. ASSUME NEW n \in Nat, NEW m \in Nat, NEW g, NEW k, Sol(g, n), Sol(k, m),
             NEW w \in D, mu[w] < n, mu[w] < m, g[w] # k[w]
      PROVE  FALSE
  <2> DEFINE Bad == {mu[x] : x \in {z \in D : mu[z] < n /\ mu[z] < m /\ g[z] # k[z]}}
  <2>1. Bad \subseteq Nat /\ mu[w] \in Bad
    BY <1>1
  <2>2. PICK b \in Bad : \A c \in Bad : b <= c
    <3> HIDE DEF Bad
    <3> QED BY <2>1, LeastNat
  <2>3. PICK x \in D : b = mu[x] /\ mu[x] < n /\ mu[x] < m /\ g[x] # k[x]
    OBVIOUS
  <2>4. x \in Below(n) /\ x \in Below(m)
    BY <2>3
  <2>5. x \notin stop
    BY <1>1, <2>3, <2>4
  <2>6. next[x] \in D /\ mu[next[x]] < mu[x] /\ mu[next[x]] \in Nat /\ mu[x] \in Nat
    BY <2>5
  <2>7. g[next[x]] # k[next[x]]
    BY <1>1, <2>3, <2>4, <2>5
  <2>8. mu[next[x]] \in Bad
    BY <2>3, <2>6, <2>7
  <2>9. mu[x] <= mu[next[x]]
    BY <2>2, <2>3, <2>8
  <2> QED BY <2>6, <2>9
<1>2. \A n \in Nat : \E g : Sol(g, n)
  <2> DEFINE S == {n \in Nat : \E g : Sol(g, n)}
  <2>1. 0 \in S
    <3>1. Below(0) = {}
      OBVIOUS
    <3>2. Sol([x \in Below(0) |-> leaf[x]], 0)
      BY <3>1
    <3> QED BY <3>2
  <2>2. ASSUME NEW n \in Nat, n \in S PROVE n + 1 \in S
    <3>1. PICK g : Sol(g, n)
      BY <2>2
    <3> DEFINE k == [x \in Below(n + 1) |-> IF x \in stop THEN leaf[x] ELSE comb[x][g[next[x]]]]
    <3>2. \A x \in Below(n + 1) : x \notin stop => next[x] \in Below(n)
      OBVIOUS
    <3>3. \A x \in Below(n) : x \in Below(n + 1) /\ k[x] = g[x]
      BY <3>1
    <3>4. k \in [Below(n + 1) -> T]
      BY <3>1, <3>2
    <3>5. \A x \in Below(n + 1) : k[x] = IF x \in stop THEN leaf[x] ELSE comb[x][k[next[x]]]
      BY <3>2, <3>3
    <3> HIDE DEF k
    <3>6. Sol(k, n + 1)
      BY <3>4, <3>5
    <3>7. n + 1 \in Nat
      OBVIOUS
    <3> HIDE DEF Sol
    <3> QED BY <3>6, <3>7
  <2> HIDE DEF S
  <2>3. Nat \subseteq S
    BY <2>1, <2>2, Induction
  <2> QED BY <2>3 DEF S
<1> DEFINE g(n) == CHOOSE k : Sol(k, n)
           f == [x \in D |-> g(mu[x] + 1)[x]]
<1> HIDE DEF Sol
<1>3. \A n \in Nat : Sol(g(n), n)
  BY <1>2
<1> HIDE DEF g
<1>4. ASSUME NEW x \in D PROVE f[x] \in T /\ f[x] = IF x \in stop THEN leaf[x] ELSE comb[x][f[next[x]]]
  <2>1. mu[x] \in Nat /\ mu[x] + 1 \in Nat /\ mu[x] < mu[x] + 1
    OBVIOUS
  <2>2. Sol(g(mu[x] + 1), mu[x] + 1)
    BY <1>3, <2>1
  <2>3. f[x] \in T /\ f[x] = IF x \in stop THEN leaf[x] ELSE comb[x][g(mu[x] + 1)[next[x]]]
    BY <2>1, <2>2 DEF Sol
  <2>4. CASE x \notin stop
    <3>1. next[x] \in D /\ mu[next[x]] \in Nat /\ mu[next[x]] < mu[x]
      BY <2>4
    <3>2. Sol(g(mu[next[x]] + 1), mu[next[x]] + 1) /\ mu[next[x]] + 1 \in Nat
      BY <1>3, <3>1
    <3>3. g(mu[next[x]] + 1)[next[x]] = g(mu[x] + 1)[next[x]]
      BY <1>1, <2>1, <2>2, <3>1, <3>2
    <3>4. f[next[x]] = g(mu[x] + 1)[next[x]]
      BY <3>1, <3>3
    <3> QED BY <2>3, <2>4, <3>4
  <2> QED BY <2>3, <2>4
<1> HIDE DEF f
<1>5. f \in [D -> T]
  <2>1. DOMAIN f = D /\ f = [x \in D |-> f[x]]
    BY DEF f
  <2> QED BY <1>4, <2>1
<1> QED BY <1>4, <1>5 DEF Recurs

\* A running total: base, then op[i] of the total before.
Totals(n, T, base, op, acc) ==
  acc \in [0 .. n -> T] /\ acc[0] = base /\ \A i \in 1 .. n : acc[i] = op[i][acc[i - 1]]

\* There is one for any step.
LEMMA Accumulates ==
  ASSUME NEW n \in Nat, NEW T, NEW base \in T, NEW op, \A i \in 1 .. n : op[i] \in [T -> T]
  PROVE  \E acc : Totals(n, T, base, op, acc)
<1> DEFINE D == 0 .. n
           mu == [x \in D |-> x]
           leaf == [x \in D |-> base]
           next == [x \in D |-> x - 1]
<1>1. Decreases(D, T, mu, {0}, leaf, next, op)
  BY DEF Decreases
<1>2. PICK f : Recurs(D, T, {0}, leaf, next, op, f)
  BY <1>1, Recursion
<1>3. f \in [0 .. n -> T] /\ f[0] = base /\ \A i \in 1 .. n : f[i] = op[i][f[i - 1]]
  BY <1>2 DEF Recurs
<1> QED BY <1>3 DEF Totals

\* The greatest index goes first: what a fold over a sequence takes apart.
LEMMA GreatestIndex ==
  ASSUME NEW i \in Nat
  PROVE  Max(1 .. (i + 1)) = i + 1 /\ (1 .. (i + 1)) \ {i + 1} = 1 .. i /\ 1 .. (i + 1) # {}
<1>1. i + 1 \in 1 .. (i + 1) /\ 1 .. (i + 1) \subseteq 0 .. (i + 1) /\ i + 1 \in Nat
  OBVIOUS
<1>2. Max(1 .. (i + 1)) \in 1 .. (i + 1) /\ i + 1 <= Max(1 .. (i + 1))
  BY <1>1, Greatest
<1> QED BY <1>1, <1>2

\* A fold over the indices of a sequence has a value for every set of them.
Folds(n, T, base, op, f) ==
  /\ f \in [SUBSET (1 .. n) -> T]
  /\ \A S \in SUBSET (1 .. n) : f[S] = IF S = {} THEN base ELSE op[Max(S)][f[S \ {Max(S)}]]

\* There is one for any step.
LEMMA FoldExists ==
  ASSUME NEW n \in Nat, NEW T, NEW base \in T, NEW op, \A i \in 1 .. n : op[i] \in [T -> T]
  PROVE  \E f : Folds(n, T, base, op, f)
<1> DEFINE D == SUBSET (1 .. n)
           mu == [S \in D |-> IF S = {} THEN 0 ELSE Max(S)]
           leaf == [S \in D |-> base]
           next == [S \in D |-> S \ {Max(S)}]
           comb == [S \in D |-> op[Max(S)]]
<1>1. ASSUME NEW S \in D, S # {}
      PROVE  Max(S) \in S /\ (\A y \in S : y <= Max(S)) /\ Max(S) \in 1 .. n
  <2>1. S \subseteq 0 .. n
    OBVIOUS
  <2> QED BY <1>1, <2>1, Greatest
<1>2. mu \in [D -> Nat] /\ leaf \in [D -> T]
  BY <1>1
<1>3. ASSUME NEW S \in D \ {{}} PROVE next[S] \in D /\ mu[next[S]] < mu[S]
  <2>1. next[S] = S \ {Max(S)} /\ next[S] \in D /\ mu[S] = Max(S)
    OBVIOUS
  <2>2. CASE next[S] = {}
    BY <1>1, <2>1, <2>2
  <2>3. CASE next[S] # {}
    <3>1. mu[next[S]] = Max(next[S]) /\ Max(next[S]) \in next[S] /\ Max(next[S]) \in 1 .. n
      BY <1>1, <2>1, <2>3
    <3> HIDE DEF mu, next
    <3>2. Max(next[S]) \in S /\ Max(next[S]) # Max(S)
      BY <2>1, <3>1
    <3> QED BY <1>1, <2>1, <3>1, <3>2
  <2> QED BY <2>2, <2>3
<1>4. \A S \in D \ {{}} : comb[S] \in [T -> T]
  BY <1>1
<1>5. Decreases(D, T, mu, {{}}, leaf, next, comb)
  BY <1>2, <1>3, <1>4 DEF Decreases
<1>6. PICK f : Recurs(D, T, {{}}, leaf, next, comb, f)
  BY <1>5, Recursion
<1>7. f \in [D -> T] /\ \A S \in D : f[S] = IF S = {} THEN base ELSE op[Max(S)][f[S \ {Max(S)}]]
  BY <1>6 DEF Recurs
<1> QED BY <1>7 DEF Folds

\* g takes the greatest index first, as a fold does, while its values are in T.
Unfolds(n, T, base, op, acc, g) ==
  /\ n \in Nat /\ base \in T /\ \A i \in 1 .. n : op[i] \in [T -> T]
  /\ Totals(n, T, base, op, acc)
  /\ g[{}] = base
  /\ \A S \in SUBSET (1 .. n) :
       S # {} /\ g[S \ {Max(S)}] \in T => g[S] = op[Max(S)][g[S \ {Max(S)}]]

\* A fold over the indices 1 .. n is the running total.
LEMMA FoldTotals ==
  ASSUME NEW n, NEW T, NEW base, NEW op, NEW acc, NEW g, Unfolds(n, T, base, op, acc, g)
  PROVE  g[1 .. n] = acc[n]
<1>0. n \in Nat /\ base \in T /\ (\A i \in 1 .. n : op[i] \in [T -> T]) /\ Totals(n, T, base, op, acc)
  BY DEF Unfolds
<1> DEFINE Done == {i \in Nat : i <= n => g[1 .. i] = acc[i]}
<1>1. 0 \in Done
  <2>1. 1 .. 0 = {}
    OBVIOUS
  <2> QED BY <1>0, <2>1 DEF Totals, Unfolds
<1>2. ASSUME NEW i \in Nat, i \in Done PROVE i + 1 \in Done
  <2>1. SUFFICES ASSUME i + 1 <= n PROVE g[1 .. (i + 1)] = acc[i + 1]
    OBVIOUS
  <2> DEFINE S == 1 .. (i + 1)
  <2>2. S \in SUBSET (1 .. n) /\ i + 1 \in 1 .. n /\ (i + 1) - 1 = i /\ i \in 0 .. n
    BY <1>0, <2>1
  <2>3. S # {} /\ Max(S) = i + 1 /\ S \ {i + 1} = 1 .. i
    BY GreatestIndex
  <2>4. g[1 .. i] = acc[i]
    BY <1>0, <1>2, <2>1
  <2>5. acc[i] \in T /\ acc[i + 1] = op[i + 1][acc[i]]
    BY <1>0, <2>2 DEF Totals
  <2> HIDE DEF S
  <2>6. g[S] = op[i + 1][g[1 .. i]]
    BY <2>2, <2>3, <2>4, <2>5 DEF Unfolds
  <2> QED BY <2>4, <2>5, <2>6 DEF S
<1> HIDE DEF Done
<1>3. n \in Done
  BY <1>0, <1>1, <1>2, Induction
<1> QED BY <1>0, <1>3 DEF Done

-----------------------------------------------------------------------------
(***************************************************************************)
(* The folds and the recursive functions of Delta.                         *)
(***************************************************************************)
\* at is where the members of s lie when they are laid end to end from `from` on.
EndToEnd(s, from, at) ==
  /\ at \in [0 .. Len(s) -> Nat] /\ at[0] = from
  /\ \A i \in 1 .. Len(s) : at[i] = at[i - 1] + s[i].len

\* SizeOf is where a sequence laid from 0 on ends.
LEMMA SizeIs ==
  ASSUME NEW s, DOMAIN s = 1 .. Len(s), Len(s) \in Nat, \A i \in 1 .. Len(s) : s[i].len \in Nat,
         NEW at, EndToEnd(s, 0, at)
  PROVE  SizeOf(s) = at[Len(s)]
<1> DEFINE n == Len(s)
           op == [i \in 1 .. n |-> [t \in Nat |-> t + s[i].len]]
           Eq(g) == g = [S \in SUBSET DOMAIN s |-> IF S = {} THEN 0 ELSE g[S \ {Max(S)}] + s[Max(S)].len]
           iter == CHOOSE g : Eq(g)
<1>1. SizeOf(s) = iter[DOMAIN s]
  BY DEF SizeOf, FoldLeft, MapThenFoldSet
<1>2. 0 \in Nat /\ n \in Nat /\ \A i \in 1 .. n : op[i] \in [Nat -> Nat]
  OBVIOUS
<1>3. ASSUME NEW S \in SUBSET (1 .. n), S # {}
      PROVE  Max(S) \in 1 .. n
  <2>1. S \subseteq 0 .. n
    OBVIOUS
  <2>2. Max(S) \in S
    BY <1>3, <2>1, Greatest
  <2> QED BY <2>2
<1>4. \E g : Eq(g)
  <2>1. PICK f : Folds(n, Nat, 0, op, f)
    <3> HIDE DEF op, n
    <3> QED BY <1>2, FoldExists, Zenon
  <2>2. ASSUME NEW S \in SUBSET DOMAIN s
        PROVE  f[S] = IF S = {} THEN 0 ELSE f[S \ {Max(S)}] + s[Max(S)].len
    <3>1. CASE S # {}
      BY <1>3, <2>1, <3>1 DEF Folds
    <3> QED BY <2>1, <3>1 DEF Folds
  <2>3. f = [S \in SUBSET DOMAIN s |-> f[S]]
    BY <2>1 DEF Folds
  <2>4. Eq(f)
    BY <2>2, <2>3, Zenon
  <2> QED BY <2>4
<1>5. Eq(iter)
  BY <1>4
<1> HIDE DEF iter
<1>6. iter[{}] = 0
  BY <1>5
<1>8. Totals(n, Nat, 0, op, at)
  <2>1. at \in [0 .. n -> Nat] /\ at[0] = 0
    BY DEF EndToEnd
  <2>2. ASSUME NEW i \in 1 .. n PROVE at[i] = op[i][at[i - 1]]
    <3>1. i - 1 \in 0 .. n
      OBVIOUS
    <3>2. at[i - 1] \in Nat
      BY <2>1, <3>1
    <3>3. at[i] = at[i - 1] + s[i].len
      BY DEF EndToEnd
    <3> QED BY <3>2, <3>3
  <2> HIDE DEF op
  <2> QED BY <2>1, <2>2 DEF Totals
<1>9. Unfolds(n, Nat, 0, op, at, iter)
  <2>1. \A S \in SUBSET (1 .. n) :
          S # {} /\ iter[S \ {Max(S)}] \in Nat => iter[S] = op[Max(S)][iter[S \ {Max(S)}]]
    BY <1>3, <1>5
  <2> HIDE DEF op, n
  <2> QED BY <1>2, <1>6, <1>8, <2>1 DEF Unfolds
<1>10. iter[1 .. n] = at[n]
  <2> HIDE DEF n, op
  <2> QED BY <1>9, FoldTotals
<1> QED BY <1>1, <1>10

\* Every sequence can be laid end to end.
LEMMA LaysOut ==
  ASSUME NEW s, DOMAIN s = 1 .. Len(s), Len(s) \in Nat, \A i \in 1 .. Len(s) : s[i].len \in Nat,
         NEW from \in Nat
  PROVE  \E at : EndToEnd(s, from, at)
<1> DEFINE n == Len(s)
           op == [i \in 1 .. n |-> [t \in Nat |-> t + s[i].len]]
<1>1. n \in Nat /\ \A i \in 1 .. n : op[i] \in [Nat -> Nat]
  OBVIOUS
<1>2. PICK at : Totals(n, Nat, from, op, at)
  <2> HIDE DEF op, n
  <2> QED BY <1>1, Accumulates, Zenon
<1>3. EndToEnd(s, from, at)
  <2>1. at \in [0 .. n -> Nat] /\ at[0] = from
    BY <1>2 DEF Totals
  <2>2. ASSUME NEW i \in 1 .. n PROVE at[i] = at[i - 1] + s[i].len
    <3>1. i - 1 \in 0 .. n
      OBVIOUS
    <3>2. at[i - 1] \in Nat
      BY <2>1, <3>1
    <3>3. at[i] = op[i][at[i - 1]]
      BY <1>2 DEF Totals
    <3> QED BY <3>2, <3>3
  <2> QED BY <2>1, <2>2 DEF EndToEnd
<1> QED BY <1>3

\* FlattenSeq, as a running concatenation.
LEMMA FlattenIs ==
  ASSUME NEW X, NEW s \in Seq(Seq(X)), NEW acc \in [0 .. Len(s) -> Seq(X)], acc[0] = << >>,
         \A i \in 1 .. Len(s) : acc[i] = acc[i - 1] \o s[i]
  PROVE  FlattenSeq(s) = acc[Len(s)]
<1>1. CASE Len(s) = 0
  <2>1. s = << >>
    BY <1>1
  <2> QED BY <1>1, <2>1 DEF FlattenSeq
<1>2. CASE Len(s) # 0
  <2> DEFINE Eq(g) == g = [i \in 1 .. Len(s) |-> IF i = 1 THEN s[i] ELSE g[i - 1] \o s[i]]
             flatten == CHOOSE g : Eq(g)
  <2>1. FlattenSeq(s) = flatten[Len(s)]
    BY <1>2 DEF FlattenSeq
  <2>2. acc[1] = s[1]
    <3>1. 1 \in 1 .. Len(s) /\ 1 - 1 = 0 /\ s[1] \in Seq(X)
      BY <1>2
    <3>2. acc[1] = acc[0] \o s[1]
      BY <3>1
    <3> QED BY <3>1, <3>2
  <2>3. Eq([i \in 1 .. Len(s) |-> acc[i]])
    <3>1. \A i \in 1 .. Len(s) : i # 1 => i - 1 \in 1 .. Len(s)
      OBVIOUS
    <3> QED BY <2>2, <3>1
  <2>4. Eq(flatten)
    BY <2>3
  <2> HIDE DEF flatten
  <2> DEFINE Done == {i \in Nat : i + 1 <= Len(s) => flatten[i + 1] = acc[i + 1]}
  <2>5. 0 \in Done
    BY <1>2, <2>2, <2>4
  <2>6. ASSUME NEW i \in Nat, i \in Done PROVE i + 1 \in Done
    <3>1. SUFFICES ASSUME i + 2 <= Len(s) PROVE flatten[i + 2] = acc[i + 2]
      OBVIOUS
    <3>2. i + 2 \in 1 .. Len(s) /\ (i + 2) - 1 = i + 1 /\ i + 2 # 1 /\ i + 1 <= Len(s)
      BY <3>1
    <3>3. flatten[i + 2] = flatten[i + 1] \o s[i + 2] /\ acc[i + 2] = acc[i + 1] \o s[i + 2]
      BY <2>4, <3>2
    <3> QED BY <2>6, <3>2, <3>3
  <2> HIDE DEF Done
  <2>7. Len(s) - 1 \in Done /\ Len(s) - 1 + 1 = Len(s)
    <3>1. Len(s) - 1 \in Nat /\ Len(s) - 1 + 1 = Len(s)
      BY <1>2
    <3> QED BY <2>5, <2>6, <3>1, Induction
  <2> QED BY <2>1, <2>7 DEF Done
<1> QED BY <1>1, <1>2

\* The part of a sequence before its member i, which lies at at[i - 1].
LEMMA PrefixIs ==
  ASSUME NEW X, NEW s \in Seq(X), \A i \in 1 .. Len(s) : s[i].len \in Nat,
         NEW at, EndToEnd(s, 0, at), NEW i \in 1 .. (Len(s) + 1)
  PROVE  SizeOf(SubSeq(s, 1, i - 1)) = at[i - 1]
<1> DEFINE u == SubSeq(s, 1, i - 1)
           cut == [k \in 0 .. (i - 1) |-> at[k]]
<1>1. Len(u) = i - 1 /\ DOMAIN u = 1 .. (i - 1) /\ i - 1 \in Nat /\ \A k \in 1 .. (i - 1) : u[k] = s[k]
  OBVIOUS
<1>2. at \in [0 .. Len(s) -> Nat] /\ at[0] = 0 /\ \A k \in 1 .. Len(s) : at[k] = at[k - 1] + s[k].len
  BY DEF EndToEnd
<1> HIDE DEF u
<1>3. EndToEnd(u, 0, cut)
  <2>1. cut \in [0 .. (i - 1) -> Nat] /\ cut[0] = 0
    <3>1. 0 \in 0 .. (i - 1) /\ 0 .. (i - 1) \subseteq 0 .. Len(s)
      BY <1>1
    <3> QED BY <1>2, <3>1
  <2>2. ASSUME NEW k \in 1 .. (i - 1) PROVE cut[k] = cut[k - 1] + u[k].len
    <3>1. k \in 0 .. (i - 1) /\ k - 1 \in 0 .. (i - 1) /\ k \in 1 .. Len(s)
      BY <1>1
    <3>2. cut[k] = at[k] /\ cut[k - 1] = at[k - 1]
      BY <3>1
    <3> QED BY <1>1, <1>2, <3>1, <3>2
  <2> HIDE DEF cut
  <2> QED BY <1>1, <2>1, <2>2 DEF EndToEnd
<1>4. \A k \in 1 .. Len(u) : u[k].len \in Nat
  BY <1>1
<1>5. SizeOf(u) = cut[Len(u)]
  <2> HIDE DEF cut
  <2> QED BY <1>1, <1>3, <1>4, SizeIs
<1> QED BY <1>1, <1>5 DEF u

\* So PartStart, where the parts of a base lie.
LEMMA PartStartIs ==
  ASSUME NEW X, NEW ps \in Seq(X), \A i \in 1 .. Len(ps) : ps[i].len \in Nat,
         NEW at, EndToEnd(ps, 0, at), NEW i \in 1 .. (Len(ps) + 1)
  PROVE  PartStart(ps, i) = at[i - 1]
<1>1. PartStart(ps, i) = SizeOf(SubSeq(ps, 1, i - 1))
  BY DEF PartStart, SizeOf
<1> QED BY <1>1, PrefixIs

-----------------------------------------------------------------------------
(***************************************************************************)
(* Bytes.                                                                  *)
(***************************************************************************)
\* n bytes of src from o on are those of x from q on.
Same(src, o, x, q, n) ==
  /\ o + n <= Len(src) /\ q + n <= Len(x)
  /\ \A j \in 1 .. n : src[o + j] = x[q + j]

\* What Bytes returns.
LEMMA BytesAre ==
  ASSUME NEW X, NEW x \in Seq(X), NEW o \in Nat, NEW n \in Nat, o + n <= Len(x)
  PROVE  /\ Bytes(x, o, n) \in Seq(X) /\ Len(Bytes(x, o, n)) = n /\ DOMAIN Bytes(x, o, n) = 1 .. n
         /\ \A j \in 1 .. n : Bytes(x, o, n)[j] = x[o + j]
<1>1. (o + n) - (o + 1) + 1 = n /\ o + 1 \in Int /\ o + n \in Int
  OBVIOUS
<1>2. \A i \in (o + 1) .. (o + n) : x[i] \in X
  OBVIOUS
<1>3. PICK e : e = SubSeq(x, o + 1, o + n)
  OBVIOUS
<1>4. e \in Seq(X) /\ Len(e) = (IF o + 1 <= o + n THEN (o + n) - (o + 1) + 1 ELSE 0)
      /\ \A i \in 1 .. ((o + n) - (o + 1) + 1) : e[i] = x[o + 1 + i - 1]
  BY <1>1, <1>2, <1>3, SubSeqProperties
<1>5. Len(e) = n
  BY <1>1, <1>4
<1>6. \A j \in 1 .. n : e[j] = x[o + j]
  BY <1>1, <1>4
<1>7. DOMAIN e = 1 .. n
  BY <1>4, <1>5
<1> QED BY <1>3, <1>4, <1>5, <1>6, <1>7 DEF Bytes

\* Two sequences of the same bytes are equal.
LEMMA EqualBytes ==
  ASSUME NEW X, NEW u \in Seq(X), NEW w \in Seq(X), Len(u) = Len(w), \A j \in 1 .. Len(u) : u[j] = w[j]
  PROVE  u = w
OBVIOUS

\* Equal ranges are read equal.
LEMMA SameBytes ==
  ASSUME NEW X, NEW src \in Seq(X), NEW x \in Seq(X), NEW o \in Nat, NEW q \in Nat, NEW n \in Nat,
         Same(src, o, x, q, n)
  PROVE  Bytes(src, o, n) = Bytes(x, q, n)
<1>1. o + n <= Len(src) /\ q + n <= Len(x) /\ \A j \in 1 .. n : src[o + j] = x[q + j]
  BY DEF Same
<1>2. PICK u, w : u = Bytes(src, o, n) /\ w = Bytes(x, q, n)
  OBVIOUS
<1>3. u \in Seq(X) /\ Len(u) = n /\ \A j \in 1 .. n : u[j] = src[o + j]
  BY <1>1, <1>2, BytesAre
<1>4. w \in Seq(X) /\ Len(w) = n /\ \A j \in 1 .. n : w[j] = x[q + j]
  BY <1>1, <1>2, BytesAre
<1>5. u = w
  BY <1>1, <1>3, <1>4, EqualBytes
<1> QED BY <1>2, <1>5

\* And the other way.
LEMMA BytesSame ==
  ASSUME NEW X, NEW src \in Seq(X), NEW x \in Seq(X), NEW o \in Nat, NEW q \in Nat, NEW n \in Nat,
         o + n <= Len(src), q + n <= Len(x), Bytes(src, o, n) = Bytes(x, q, n)
  PROVE  Same(src, o, x, q, n)
<1>1. \A j \in 1 .. n : Bytes(src, o, n)[j] = src[o + j]
  BY BytesAre
<1>2. \A j \in 1 .. n : Bytes(x, q, n)[j] = x[q + j]
  BY BytesAre
<1> QED BY <1>1, <1>2 DEF Same

\* A part of equal ranges.
LEMMA SamePart ==
  ASSUME NEW src, NEW x, Len(src) \in Nat, Len(x) \in Nat, NEW o \in Nat, NEW q \in Nat, NEW n \in Nat,
         Same(src, o, x, q, n), NEW a \in Nat, NEW k \in Nat, a + k <= n
  PROVE  Same(src, o + a, x, q + a, k)
<1>1. o + n <= Len(src) /\ q + n <= Len(x) /\ \A j \in 1 .. n : src[o + j] = x[q + j]
  BY DEF Same
<1>2. ASSUME NEW j \in 1 .. k PROVE src[o + a + j] = x[q + a + j]
  <2>1. a + j \in 1 .. n /\ o + (a + j) = o + a + j /\ q + (a + j) = q + a + j
    OBVIOUS
  <2> QED BY <1>1, <2>1
<1>3. o + a + k <= Len(src) /\ q + a + k <= Len(x)
  BY <1>1
<1> QED BY <1>2, <1>3 DEF Same

\* Equal to the same.
LEMMA SameTwice ==
  ASSUME NEW src, NEW y, NEW x, NEW o, NEW q, NEW r, NEW n,
         Same(src, o, y, q, n), Same(y, q, x, r, n)
  PROVE  Same(src, o, x, r, n)
BY DEF Same

\* Adjacent ranges.
LEMMA BytesJoin ==
  ASSUME NEW X, NEW x \in Seq(X), NEW o \in Nat, NEW a \in Nat, NEW b \in Nat, o + a + b <= Len(x)
  PROVE  Bytes(x, o, a) \o Bytes(x, o + a, b) = Bytes(x, o, a + b)
<1>1. /\ o + 1 \in 1 .. Len(x) + 1 /\ o + a \in (o + 1) - 1 .. Len(x) /\ o + a + b \in o + a .. Len(x)
      /\ o + (a + b) = o + a + b
  OBVIOUS
<1>2. SubSeq(x, o + 1, o + a) \o SubSeq(x, (o + a) + 1, o + a + b) = SubSeq(x, o + 1, o + a + b)
  BY <1>1, ConcatAdjacentSubSeq
<1> QED BY <1>1, <1>2 DEF Bytes

\* No bytes.
LEMMA NoBytes ==
  ASSUME NEW x, NEW o \in Nat
  PROVE  Bytes(x, o, 0) = << >>
BY SubSeqEmpty DEF Bytes

\* The last of the ranges at[k - 1] .. at[k] that begins at or before pos has pos.
LEMMA RangeOf ==
  ASSUME NEW n \in Nat, n # 0, NEW at \in [0 .. n -> Nat], at[0] = 0, NEW pos \in Nat, pos < at[n]
  PROVE  LET i == Max({1} \cup {k \in 1 .. n : at[k - 1] <= pos})
         IN  i \in 1 .. n /\ at[i - 1] <= pos /\ pos < at[i]
<1> DEFINE T == {1} \cup {k \in 1 .. n : at[k - 1] <= pos}
           i == Max(T)
<1>1. T \subseteq 0 .. n /\ T # {} /\ 1 \in 1 .. n /\ at[1 - 1] <= pos
  OBVIOUS
<1>2. i \in T /\ \A y \in T : y <= i
  <2> HIDE DEF T
  <2> QED BY <1>1, Greatest
<1> HIDE DEF i
<1>3. i \in 1 .. n /\ at[i - 1] <= pos
  BY <1>1, <1>2
<1>4. pos < at[i]
  <2>1. CASE i = n
    BY <2>1
  <2>2. CASE i # n
    <3>1. i + 1 \in 1 .. n /\ (i + 1) - 1 = i /\ i + 1 > i
      BY <1>3, <2>2
    <3>2. i + 1 \notin T
      <4> HIDE DEF T
      <4> QED BY <1>2, <1>3, <3>1
    <3>3. ~(at[i] <= pos)
      BY <3>1, <3>2
    <3>4. at[i] \in Nat
      BY <1>3
    <3> QED BY <3>3, <3>4
  <2> QED BY <2>1, <2>2
<1> QED BY <1>3, <1>4 DEF i

-----------------------------------------------------------------------------
(***************************************************************************)
(* Reading the ultimate base.                                              *)
(***************************************************************************)
\* Induction with every smaller number at hand.
LEMMA StrongInduction ==
  ASSUME NEW T, \A n \in Nat : (\A m \in Nat : m < n => m \in T) => n \in T
  PROVE  Nat \subseteq T
<1> SUFFICES ASSUME Nat \ T # {} PROVE FALSE
  OBVIOUS
<1>1. PICK n \in Nat \ T : \A k \in Nat \ T : n <= k
  BY LeastNat
<1>2. \A m \in Nat : m < n => m \in T
  BY <1>1
<1> QED BY <1>1, <1>2

\* The parts ps hold the bytes of base, as far as each still goes.
Holding(ps, base, at) ==
  /\ ps \in Seq([file : Seq(Byte), len : Nat]) /\ ps # << >> /\ base \in Seq(Byte)
  /\ EndToEnd(ps, 0, at) /\ at[Len(ps)] = Len(base)
  /\ \A i \in 1 .. Len(ps) : \A j \in Nat \ {0} :
       j <= ps[i].len /\ j <= Len(ps[i].file) => ps[i].file[j] = base[at[i - 1] + j]

\* None of them has become short.
Whole(ps) == \A i \in 1 .. Len(ps) : ps[i].len <= Len(ps[i].file)

\* The ends of ranges grow.
LEMMA Monotone ==
  ASSUME NEW n \in Nat, NEW at \in [0 .. n -> Nat], \A i \in 1 .. n : at[i - 1] <= at[i],
         NEW i \in 0 .. n
  PROVE  \A j \in 0 .. n : i <= j => at[i] <= at[j]
<1> DEFINE Done == {k \in Nat : i + k <= n => at[i] <= at[i + k]}
<1>1. 0 \in Done
  OBVIOUS
<1>2. ASSUME NEW k \in Nat, k \in Done PROVE k + 1 \in Done
  <2>1. SUFFICES ASSUME i + (k + 1) <= n PROVE at[i] <= at[i + (k + 1)]
    OBVIOUS
  <2>2. i + (k + 1) \in 1 .. n /\ (i + (k + 1)) - 1 = i + k /\ i + k \in 0 .. n /\ i + k <= n
    BY <2>1
  <2>3. at[i + k] <= at[i + (k + 1)]
    BY <2>2
  <2>4. at[i] <= at[i + k]
    BY <1>2, <2>2
  <2>5. at[i] \in Nat /\ at[i + k] \in Nat /\ at[i + (k + 1)] \in Nat
    BY <2>2
  <2> QED BY <2>3, <2>4, <2>5
<1> HIDE DEF Done
<1>3. Nat \subseteq Done
  BY <1>1, <1>2, Induction
<1>4. ASSUME NEW j \in 0 .. n, i <= j PROVE at[i] <= at[j]
  <2>1. j - i \in Done /\ i + (j - i) = j
    BY <1>3, <1>4
  <2> QED BY <2>1 DEF Done
<1> QED BY <1>4

\* What one read of one part is.
GotAt(ps, pos, k) ==
  LET i     == PartAt(ps, pos)
      local == pos - PartStart(ps, i)
  IN  ReadFile(ps[i].file, local, Min({k, ps[i].len - local}))

\* It returns the base's bytes, and some as long as the parts are whole.
LEMMA OneRead ==
  ASSUME NEW ps, NEW base, NEW at, Holding(ps, base, at),
         NEW pos \in Nat, pos < Len(base), NEW k \in Nat, k # 0
  PROVE  \E q \in 0 .. k : /\ pos + q <= Len(base) /\ GotAt(ps, pos, k) = Bytes(base, pos, q)
                           /\ Whole(ps) => q # 0
<1> DEFINE n == Len(ps)
           i == Max({1} \cup {c \in 1 .. n : at[c - 1] <= pos})
           local == pos - at[i - 1]
           want == Min({k, ps[i].len - local})
<1>1. /\ ps \in Seq([file : Seq(Byte), len : Nat]) /\ n \in Nat /\ n # 0 /\ base \in Seq(Byte)
      /\ at \in [0 .. n -> Nat] /\ at[0] = 0 /\ at[n] = Len(base) /\ DOMAIN ps = 1 .. n
      /\ \A c \in 1 .. n : at[c] = at[c - 1] + ps[c].len
      /\ \A c \in 1 .. n : ps[c].len \in Nat /\ ps[c].file \in Seq(Byte)
  <2>1. ps \in Seq([file : Seq(Byte), len : Nat]) /\ ps # << >>
    BY DEF Holding
  <2>2. n \in Nat /\ n # 0 /\ DOMAIN ps = 1 .. n /\ \A c \in 1 .. n : ps[c] \in [file : Seq(Byte), len : Nat]
    BY <2>1, EmptySeq, LenProperties, ElementOfSeq
  <2>3. \A c \in 1 .. n : ps[c].len \in Nat /\ ps[c].file \in Seq(Byte)
    BY <2>2
  <2> QED BY <2>1, <2>2, <2>3 DEF Holding, EndToEnd
<1>2. \A c \in 1 .. (n + 1) : PartStart(ps, c) = at[c - 1]
  BY <1>1, PartStartIs DEF Holding
<1>3. PartAt(ps, pos) = i
  <2>1. {c \in DOMAIN ps : PartStart(ps, c) <= pos} = {c \in 1 .. n : at[c - 1] <= pos}
    BY <1>1, <1>2
  <2> QED BY <2>1 DEF PartAt
<1>4. i \in 1 .. n /\ at[i - 1] <= pos /\ pos < at[i]
  <2> HIDE DEF n
  <2> QED BY <1>1, RangeOf
<1> HIDE DEF i, n
<1>5. /\ at[i - 1] \in Nat /\ at[i] \in Nat /\ ps[i].len \in Nat /\ ps[i].file \in Seq(Byte)
      /\ at[i] = at[i - 1] + ps[i].len
  BY <1>1, <1>4
<1>6. local \in Nat /\ local < ps[i].len /\ at[i - 1] + local = pos
  BY <1>4, <1>5
<1>7. want \in 1 .. k /\ local + want <= ps[i].len
  <2>1. ps[i].len - local \in Nat \ {0} /\ k \in Int /\ ps[i].len - local \in Int
    BY <1>5, <1>6
  <2>2. want \in Int /\ want <= k /\ want <= ps[i].len - local /\ (want = k \/ want = ps[i].len - local)
    BY <2>1, MinOf
  <2> HIDE DEF want, local
  <2> QED BY <1>5, <1>6, <2>1, <2>2
<1>8. at[i] <= Len(base)
  <2>1. \A c \in 1 .. n : at[c - 1] <= at[c]
    <3>1. ASSUME NEW c \in 1 .. n PROVE at[c - 1] <= at[c]
      <4>1. c - 1 \in 0 .. n
        BY <1>1
      <4>2. at[c - 1] \in Nat /\ at[c] = at[c - 1] + ps[c].len /\ ps[c].len \in Nat
        BY <1>1, <4>1
      <4> QED BY <4>2
    <3> QED BY <3>1
  <2>2. i \in 0 .. n /\ n \in 0 .. n /\ i <= n
    BY <1>1, <1>4
  <2>3. at[i] <= at[n]
    BY <1>1, <2>1, <2>2, Monotone
  <2> QED BY <1>1, <2>3
<1>9. PICK q : q = Min({want, Max({0, Len(ps[i].file) - local})})
  OBVIOUS
<1>10. /\ q \in 0 .. want /\ (q # 0 => local + q <= Len(ps[i].file))
       /\ (ps[i].len <= Len(ps[i].file) => q = want)
  <2> HIDE DEF local, want
  <2>1. Len(ps[i].file) - local \in Int /\ Len(ps[i].file) \in Nat
    BY <1>5, <1>6
  <2>2. PICK r : r = Max({0, Len(ps[i].file) - local})
    OBVIOUS
  <2>3. /\ r \in Nat /\ Len(ps[i].file) - local <= r
        /\ (r = 0 \/ r = Len(ps[i].file) - local)
    BY <2>1, <2>2, MaxOfZero
  <2>5. want \in Int /\ r \in Int
    BY <1>7, <2>3
  <2>4. q \in Int /\ q <= want /\ q <= r /\ (q = want \/ q = r)
    BY <1>9, <2>2, <2>5, MinOf
  <2> QED BY <1>5, <1>6, <1>7, <2>1, <2>3, <2>4
<1>11. GotAt(ps, pos, k) = Bytes(ps[i].file, local, q)
  <2>1. PartStart(ps, i) = at[i - 1]
    BY <1>1, <1>2, <1>4
  <2> QED BY <1>3, <1>9, <2>1 DEF GotAt, ReadFile
<1> HIDE DEF local, want
<1>12. pos + q <= Len(base) /\ q \in 0 .. k /\ q \in Nat
  <2>1. want \in Nat /\ want <= k
    BY <1>7
  <2>2. q \in Nat /\ q <= want
    BY <1>10, <2>1
  <2>3. Len(base) \in Nat
    BY <1>1
  <2>4. local + want <= ps[i].len
    BY <1>7
  <2> QED BY <1>5, <1>6, <1>8, <2>1, <2>2, <2>3, <2>4
<1>13. Bytes(ps[i].file, local, q) = Bytes(base, pos, q)
  <2>1. CASE q = 0
    BY <1>6, <2>1, NoBytes
  <2>2. CASE q # 0
    <3>1. ASSUME NEW j \in 1 .. q PROVE ps[i].file[local + j] = base[pos + j]
      <4>1. local + j \in Nat \ {0} /\ local + j <= ps[i].len /\ local + j <= Len(ps[i].file)
        <5>1. want \in Nat /\ local + want <= ps[i].len
          BY <1>7
        <5>2. q \in Nat /\ q <= want /\ local + q <= Len(ps[i].file)
          BY <1>10, <2>2, <5>1
        <5>3. Len(ps[i].file) \in Nat
          BY <1>5
        <5>4. j \in Nat /\ j # 0 /\ j <= q
          BY <5>2
        <5>5. local + j \in Nat /\ local + j # 0 /\ local + j <= ps[i].len /\ local + j <= Len(ps[i].file)
          BY <1>5, <1>6, <5>1, <5>2, <5>3, <5>4
        <5> QED BY <5>5
      <4>2. ps[i].file[local + j] = base[at[i - 1] + (local + j)]
        BY <1>4, <4>1 DEF Holding, n
      <4>3. at[i - 1] + (local + j) = pos + j
        BY <1>5, <1>6
      <4> QED BY <4>2, <4>3
    <3>2. Same(ps[i].file, local, base, pos, q)
      BY <1>10, <1>12, <2>2, <3>1 DEF Same
    <3>3. ps[i].file \in Seq(Byte) /\ base \in Seq(Byte) /\ local \in Nat /\ q \in Nat
      BY <1>1, <1>5, <1>6, <1>12
    <3> QED BY <3>2, <3>3, SameBytes
  <2> QED BY <2>1, <2>2
<1>14. Whole(ps) => q # 0
  BY <1>4, <1>7, <1>10 DEF Whole, n
<1> QED BY <1>11, <1>12, <1>13, <1>14

\* The parts are as long as the base together.
LEMMA TotalIs ==
  ASSUME NEW ps, NEW base, NEW at, Holding(ps, base, at)
  PROVE  TotalSize(ps) = Len(base)
<1>1. ps \in Seq([file : Seq(Byte), len : Nat]) /\ EndToEnd(ps, 0, at) /\ at[Len(ps)] = Len(base)
  BY DEF Holding
<1>2. \A i \in 1 .. Len(ps) : ps[i].len \in Nat
  <2>1. \A i \in 1 .. Len(ps) : ps[i] \in [file : Seq(Byte), len : Nat]
    BY <1>1, ElementOfSeq
  <2> QED BY <2>1
<1>3. Len(ps) \in Nat /\ Len(ps) + 1 \in 1 .. (Len(ps) + 1) /\ (Len(ps) + 1) - 1 = Len(ps)
  BY <1>1
<1>4. PartStart(ps, Len(ps) + 1) = at[(Len(ps) + 1) - 1]
  BY <1>1, <1>2, <1>3, PartStartIs
<1> QED BY <1>1, <1>3, <1>4 DEF TotalSize

\* n bytes from off on lie in the base that ps holds.
InBase(ps, base, at, off, n) ==
  Holding(ps, base, at) /\ off \in Nat /\ n \in Nat /\ off + n <= Len(base)

\* A read of the base returns the bytes there, all of them while it is whole.
LEMMA ReadBase ==
  ASSUME NEW ps, NEW base, NEW at, NEW off, NEW n, InBase(ps, base, at, off, n)
  PROVE  \E g \in 0 .. n : PreadBase(ps, off, n) = Bytes(base, off, g) /\ (Whole(ps) => g = n)
<1>0. Holding(ps, base, at) /\ off \in Nat /\ n \in Nat /\ off + n <= Len(base)
  BY DEF InBase
<1> DEFINE Got(k) == GotAt(ps, off + n - k, k)
           Eq(r) == r = [k \in 0 .. n |->
                           IF k = 0 \/ off + n - k >= TotalSize(ps) THEN << >>
                           ELSE IF Got(k) = << >> THEN << >> ELSE Got(k) \o r[k - Len(Got(k))]]
           read == CHOOSE r : Eq(r)
<1>1. PreadBase(ps, off, n) = read[n]
  BY <1>0 DEF PreadBase, GotAt
<1> HIDE DEF Got
<1>2. base \in Seq(Byte) /\ TotalSize(ps) = Len(base) /\ Len(base) \in Nat
  <2>1. base \in Seq(Byte)
    BY <1>0 DEF Holding
  <2>2. TotalSize(ps) = Len(base)
    BY <1>0, TotalIs
  <2> QED BY <1>0, <2>1, <2>2
<1>3. ASSUME NEW k \in 0 .. n, k # 0
      PROVE  \E q \in 0 .. k : /\ Got(k) = Bytes(base, off + n - k, q) /\ off + n - k + q <= Len(base)
                               /\ Got(k) \in Seq(Byte) /\ Len(Got(k)) = q /\ (Whole(ps) => q # 0)
                               /\ (Got(k) = << >> <=> q = 0)
  <2>1. k \in Nat /\ off + n - k \in Nat /\ off + n - k < Len(base)
    BY <1>0, <1>2, <1>3
  <2>2. PICK q \in 0 .. k : /\ off + n - k + q <= Len(base) /\ Got(k) = Bytes(base, off + n - k, q)
                            /\ Whole(ps) => q # 0
    BY <1>0, <1>3, <2>1, OneRead DEF Got
  <2>3. q \in Nat
    BY <1>0, <2>1
  <2>4. Got(k) \in Seq(Byte) /\ Len(Got(k)) = q
    <3>1. off + n - k \in Nat /\ off + n - k + q <= Len(base)
      BY <1>0, <2>1, <2>2
    <3>2. Bytes(base, off + n - k, q) \in Seq(Byte) /\ Len(Bytes(base, off + n - k, q)) = q
      BY <1>0, <1>2, <2>3, <3>1, BytesAre
    <3> QED BY <1>0, <2>2, <3>2
  <2>5. Got(k) = << >> <=> q = 0
    BY <1>0, <2>4, EmptySeq
  <2> QED BY <1>0, <2>2, <2>4, <2>5
<1>4. \E r : Eq(r)
  <2> DEFINE D == 0 .. n
             stop == {k \in D : k = 0 \/ off + n - k >= TotalSize(ps) \/ Got(k) = << >>}
             mu == [k \in D |-> k]
             leaf == [k \in D |-> << >>]
             next == [k \in D |-> k - Len(Got(k))]
             comb == [k \in D |-> [t \in Seq(Byte) |-> Got(k) \o t]]
  <2>1. ASSUME NEW k \in D \ stop
        PROVE  next[k] \in D /\ mu[next[k]] < mu[k] /\ comb[k] \in [Seq(Byte) -> Seq(Byte)]
    <3>1. k \in 0 .. n /\ k # 0 /\ Got(k) # << >>
      BY <1>0
    <3>2. Got(k) \in Seq(Byte) /\ Len(Got(k)) \in 1 .. k
      <4>1. PICK q \in 0 .. k : Got(k) \in Seq(Byte) /\ Len(Got(k)) = q /\ (Got(k) = << >> <=> q = 0)
        BY <1>0, <1>3, <3>1
      <4> QED BY <1>0, <3>1, <4>1
    <3>3. k - Len(Got(k)) \in D /\ k - Len(Got(k)) < k
      BY <1>0, <3>1, <3>2
    <3>4. \A t \in Seq(Byte) : Got(k) \o t \in Seq(Byte)
      BY <1>0, <3>2, ConcatProperties
    <3> QED BY <1>0, <3>1, <3>3, <3>4
  <2>2. mu \in [D -> Nat] /\ leaf \in [D -> Seq(Byte)]
    BY <1>0, EmptySeq
  <2>3. Decreases(D, Seq(Byte), mu, stop, leaf, next, comb)
    <3> HIDE DEF D, stop, mu, leaf, next, comb
    <3> QED BY <1>0, <2>1, <2>2 DEF Decreases
  <2>4. PICK f : Recurs(D, Seq(Byte), stop, leaf, next, comb, f)
    <3> HIDE DEF D, stop, mu, leaf, next, comb
    <3> QED BY <1>0, <2>3, Recursion
  <2>5. ASSUME NEW k \in D
        PROVE  f[k] = IF k = 0 \/ off + n - k >= TotalSize(ps) THEN << >>
                      ELSE IF Got(k) = << >> THEN << >> ELSE Got(k) \o f[k - Len(Got(k))]
    <3>1. CASE k \in stop
      <4>1. f[k] = << >>
        BY <1>0, <2>4, <3>1 DEF Recurs
      <4> QED BY <1>0, <3>1, <4>1
    <3>2. CASE k \notin stop
      <4>1. next[k] \in D /\ next[k] = k - Len(Got(k))
        BY <1>0, <2>1, <3>2
      <4>2. f[k] = comb[k][f[next[k]]] /\ f[next[k]] \in Seq(Byte)
        BY <1>0, <2>4, <3>2, <4>1 DEF Recurs
      <4>3. f[k] = Got(k) \o f[k - Len(Got(k))]
        BY <1>0, <4>1, <4>2
      <4> QED BY <1>0, <3>2, <4>3
    <3> QED BY <1>0, <3>1, <3>2
  <2>6. f = [k \in D |-> f[k]]
    BY <1>0, <2>4 DEF Recurs
  <2>7. Eq(f)
    BY <1>0, <2>5, <2>6, Zenon
  <2> QED BY <1>0, <2>7
<1>5. Eq(read)
  BY <1>0, <1>4
<1> HIDE DEF read
<1> DEFINE Done == {k \in Nat : k <= n =>
                      \E g \in 0 .. k : read[k] = Bytes(base, off + n - k, g) /\ (Whole(ps) => g = k)}
<1>6. ASSUME NEW k \in Nat, \A m \in Nat : m < k => m \in Done PROVE k \in Done
  <2>1. SUFFICES ASSUME k <= n
                 PROVE  \E g \in 0 .. k : read[k] = Bytes(base, off + n - k, g) /\ (Whole(ps) => g = k)
    BY <1>0
  <2>2. k \in 0 .. n /\ off + n - k \in Nat
    BY <1>0, <2>1
  <2>3. CASE k = 0
    <3>1. read[k] = << >>
      BY <1>0, <1>5, <2>2, <2>3
    <3>2. Bytes(base, off + n - k, 0) = << >> /\ 0 \in 0 .. k
      BY <1>0, <2>2, NoBytes
    <3> QED BY <1>0, <2>3, <3>1, <3>2
  <2>4. CASE k # 0
    <3>1. PICK q \in 0 .. k : /\ Got(k) = Bytes(base, off + n - k, q) /\ off + n - k + q <= Len(base)
                              /\ Len(Got(k)) = q /\ (Whole(ps) => q # 0)
                              /\ (Got(k) = << >> <=> q = 0)
      BY <1>0, <1>3, <2>2, <2>4
    <3>2. q \in Nat
      BY <1>0, <2>2
    <3>3. off + n - k < TotalSize(ps)
      BY <1>0, <1>2, <2>2, <2>4
    <3>4. CASE q = 0
      <4>1. read[k] = << >>
        BY <1>0, <1>5, <2>2, <3>1, <3>4
      <4> QED BY <1>0, <2>2, <3>1, <3>4, <4>1, NoBytes
    <3>5. CASE q # 0
      <4>1. read[k] = Got(k) \o read[k - q]
        <5>1. Got(k) # << >> /\ Len(Got(k)) = q /\ ~(k = 0 \/ off + n - k >= TotalSize(ps))
          BY <1>0, <1>2, <2>2, <2>4, <3>1, <3>3, <3>5
        <5> QED BY <1>0, <1>5, <2>2, <5>1
      <4>2. k - q \in Nat /\ k - q < k /\ k - q <= n
        BY <1>0, <2>2, <3>2, <3>5, <3>1
      <4>3. k - q \in Done
        BY <1>0, <1>6, <4>2
      <4>4. PICK g \in 0 .. (k - q) : read[k - q] = Bytes(base, off + n - (k - q), g) /\ (Whole(ps) => g = k - q)
        BY <1>0, <4>2, <4>3
      <4>5. g \in Nat /\ q + g \in 0 .. k /\ off + n - (k - q) = (off + n - k) + q
        BY <1>0, <2>2, <3>2, <4>2
      <4>6. (off + n - k) + q + g <= Len(base)
        BY <1>0, <1>2, <2>2, <3>2, <4>2, <4>5
      <4>7. Bytes(base, off + n - k, q) \o Bytes(base, (off + n - k) + q, g) = Bytes(base, off + n - k, q + g)
        <5>1. PICK o : o = off + n - k
          BY <1>0
        <5>2. o \in Nat /\ q \in Nat /\ g \in Nat /\ o + q + g <= Len(base)
          BY <1>0, <2>2, <3>2, <4>5, <4>6, <5>1
        <5>3. Bytes(base, o, q) \o Bytes(base, o + q, g) = Bytes(base, o, q + g)
          BY <1>0, <1>2, <5>2, BytesJoin
        <5> QED BY <1>0, <5>1, <5>3
      <4>8. read[k] = Bytes(base, off + n - k, q + g)
        BY <1>0, <3>1, <4>1, <4>4, <4>5, <4>7
      <4>9. Whole(ps) => q + g = k
        BY <1>0, <3>2, <4>4, <4>5
      <4> QED BY <1>0, <4>5, <4>8, <4>9
    <3> QED BY <1>0, <3>4, <3>5
  <2> QED BY <1>0, <2>3, <2>4
<1> HIDE DEF Done
<1>7. n \in Done
  BY <1>0, <1>6, StrongInduction
<1>8. PICK g \in 0 .. n : read[n] = Bytes(base, off + n - n, g) /\ (Whole(ps) => g = n)
  BY <1>0, <1>7 DEF Done
<1>9. off + n - n = off
  BY <1>0
<1>10. PreadBase(ps, off, n) = Bytes(base, off, g)
  BY <1>0, <1>1, <1>8, <1>9
<1> QED BY <1>0, <1>8, <1>10, Zenon

\* So a COPY is right or fails, and does not fail while the base is whole.
LEMMA ReadCopyIs ==
  ASSUME NEW ps, NEW base, NEW at, NEW off, NEW n, InBase(ps, base, at, off, n)
  PROVE  /\ ReadCopy(ps, off, n) \in {Bytes(base, off, n), EIO}
         /\ Whole(ps) => ReadCopy(ps, off, n) = Bytes(base, off, n)
<1>1. PICK g \in 0 .. n : PreadBase(ps, off, n) = Bytes(base, off, g) /\ (Whole(ps) => g = n)
  BY ReadBase
<1>2. base \in Seq(Byte) /\ Len(base) \in Nat /\ g \in Nat /\ off \in Nat /\ off + g <= Len(base)
  BY DEF Holding, InBase
<1>3. Len(Bytes(base, off, g)) = g
  BY <1>2, BytesAre
<1> QED BY <1>1, <1>3 DEF ReadCopy

-----------------------------------------------------------------------------
(***************************************************************************)
(* Reading the literals of a delta.                                        *)
(***************************************************************************)
\* A part of a part.
LEMMA BytesOfBytes ==
  ASSUME NEW X, NEW x \in Seq(X), NEW o \in Nat, NEW n \in Nat, o + n <= Len(x),
         NEW a \in Nat, NEW k \in Nat, a + k <= n
  PROVE  Bytes(Bytes(x, o, n), a, k) = Bytes(x, o + a, k)
<1>1. PICK u : u = Bytes(x, o, n)
  OBVIOUS
<1>2. u \in Seq(X) /\ Len(u) = n /\ \A j \in 1 .. n : u[j] = x[o + j]
  BY <1>1, BytesAre
<1>3. ASSUME NEW j \in 1 .. k PROVE u[a + j] = x[(o + a) + j]
  <2>1. a + j \in 1 .. n /\ o + (a + j) = (o + a) + j
    OBVIOUS
  <2> QED BY <1>2, <2>1
<1>4. Same(u, a, x, o + a, k) /\ o + a \in Nat
  BY <1>2, <1>3 DEF Same
<1>5. Bytes(u, a, k) = Bytes(x, o + a, k)
  BY <1>2, <1>4, SameBytes
<1> QED BY <1>1, <1>5

\* Quotient and remainder.
LEMMA Divided ==
  ASSUME NEW a \in Nat, NEW m \in Nat, m # 0
  PROVE  /\ a \div m \in Nat /\ (a % m) \in Nat /\ (a % m) < m
         /\ a = (a \div m) * m + (a % m)
OBVIOUS

\* The lesser multiple is of the lesser number.
LEMMA TimesGrows ==
  ASSUME NEW a \in Nat, NEW b \in Nat, NEW m \in Nat, a * m < b * m
  PROVE  a < b
<1>1. b <= a => b * m <= a * m
  OBVIOUS
<1> QED BY <1>1

\* The block that has the literal at pos, and how much of it lies before pos.
LEMMA BlockAt ==
  ASSUME NEW x \in Seq(Byte), NEW pos \in Nat, pos < Len(x)
  PROVE  \E len \in Nat :
           /\ (pos \div BlockSize) \in Nat /\ (pos % BlockSize) \in Nat
           /\ (pos \div BlockSize) < Len(CutBlocks(x))
           /\ (pos % BlockSize) < len /\ Len(CutBlocks(x)[(pos \div BlockSize) + 1]) = len
           /\ (pos - (pos % BlockSize)) + len <= Len(x)
           /\ \A take \in Nat : (pos % BlockSize) + take <= len =>
                Bytes(CutBlocks(x)[(pos \div BlockSize) + 1], pos % BlockSize, take) = Bytes(x, pos, take)
<1>0. BlockSize \in Nat /\ BlockSize # 0 /\ Len(x) \in Nat
  BY DeltaAssumption
<1>1. PICK b, r : b = pos \div BlockSize /\ r = pos % BlockSize
  OBVIOUS
<1>2. b \in Nat /\ r \in Nat /\ r < BlockSize /\ pos = b * BlockSize + r
  BY <1>0, <1>1, Divided
<1>3. PICK n : n = (Len(x) + BlockSize - 1) \div BlockSize
  OBVIOUS
<1>4. n \in Nat /\ b < n
  <2>1. Len(x) + BlockSize - 1 \in Nat
    BY <1>0
  <2>2. PICK e : e = (Len(x) + BlockSize - 1) % BlockSize
    OBVIOUS
  <2>3. n \in Nat /\ e \in Nat /\ e < BlockSize /\ Len(x) + BlockSize - 1 = n * BlockSize + e
    BY <1>0, <1>3, <2>1, <2>2, Divided
  <2>4. b * BlockSize \in Nat /\ n * BlockSize \in Nat
    BY <1>0, <1>2, <2>3
  <2>5. b * BlockSize < n * BlockSize
    BY <1>0, <1>2, <2>3, <2>4
  <2> QED BY <1>0, <1>2, <2>3, <2>5, TimesGrows
<1>5. Len(CutBlocks(x)) = n /\ DOMAIN CutBlocks(x) = 1 .. n
  BY <1>3, <1>4 DEF CutBlocks
<1>6. PICK o : o = b * BlockSize
  OBVIOUS
<1>7. o \in Nat /\ pos = o + r /\ o < Len(x)
  BY <1>0, <1>2, <1>6
<1>8. PICK len : len = Min({BlockSize, Len(x) - o})
  OBVIOUS
<1>9. len \in Nat /\ r < len /\ o + len <= Len(x)
  <2>1. BlockSize \in Int /\ Len(x) - o \in Int
    BY <1>0, <1>7
  <2>2. len \in Int /\ len <= BlockSize /\ len <= Len(x) - o /\ (len = BlockSize \/ len = Len(x) - o)
    BY <1>8, <2>1, MinOf
  <2> QED BY <1>0, <1>2, <1>7, <2>2
<1>10. CutBlocks(x)[b + 1] = Bytes(x, o, len)
  <2>1. b + 1 \in 1 .. n /\ (b + 1) - 1 = b
    BY <1>2, <1>4
  <2> QED BY <1>3, <1>6, <1>8, <2>1 DEF CutBlocks
<1>11. Len(CutBlocks(x)[b + 1]) = len
  BY <1>7, <1>9, <1>10, BytesAre
<1>12. ASSUME NEW take \in Nat, r + take <= len
       PROVE  Bytes(CutBlocks(x)[b + 1], r, take) = Bytes(x, pos, take)
  <2>1. Bytes(Bytes(x, o, len), r, take) = Bytes(x, o + r, take)
    BY <1>2, <1>7, <1>9, <1>12, BytesOfBytes
  <2> QED BY <1>7, <1>10, <2>1
<1>13. (pos - r) + len <= Len(x)
  BY <1>2, <1>7, <1>9
<1> QED BY <1>1, <1>2, <1>4, <1>5, <1>9, <1>11, <1>12, <1>13

\* No bytes are the failure.
LEMMA NotEIO ==
  ASSUME NEW u \in Seq(Byte)
  PROVE  u # EIO
<1>1. Byte \subseteq Nat
  BY DeltaAssumption
<1>2. EIO[1] = -5 /\ Len(EIO) = 1
  BY DEF EIO
<1>3. SUFFICES ASSUME u = EIO PROVE FALSE
  OBVIOUS
<1>4. 1 \in 1 .. Len(u)
  BY <1>2, <1>3
<1>5. u[1] \in Byte
  BY <1>4, ElementOfSeq
<1> QED BY <1>1, <1>2, <1>3, <1>5

\* The blocks of d are those of the literals x, and n bytes from off on lie there.
InLits(d, x, off, n) ==
  /\ x \in Seq(Byte) /\ d.blocks = CutBlocks(x) /\ d.frames \in Int
  /\ off \in Nat /\ n \in Nat /\ off + n <= Len(x)

\* An ADD is right or fails, and does not fail while no frame is lost.
LEMMA ReadAddIs ==
  ASSUME NEW d, NEW x, NEW off, NEW n, InLits(d, x, off, n)
  PROVE  /\ ReadAdd(d, off, n) \in {Bytes(x, off, n), EIO}
         /\ d.frames >= Len(d.blocks) => ReadAdd(d, off, n) = Bytes(x, off, n)
<1>0. /\ x \in Seq(Byte) /\ d.blocks = CutBlocks(x) /\ d.frames \in Int
      /\ off \in Nat /\ n \in Nat /\ off + n <= Len(x)
  BY DEF InLits
<1> DEFINE B(k) == (off + n - k) \div BlockSize
           R(k) == (off + n - k) % BlockSize
           Lost(k) == B(k) >= Min({Len(d.blocks), d.frames}) \/ R(k) > Len(d.blocks[B(k) + 1])
           Take(k) == Min({k, Len(d.blocks[B(k) + 1]) - R(k)})
           Got(k) == Bytes(d.blocks[B(k) + 1], R(k), Take(k))
           Eq(r) == r = [k \in 0 .. n |->
                           IF k = 0 THEN << >> ELSE IF Lost(k) THEN EIO
                           ELSE IF r[k - Take(k)] = EIO THEN EIO ELSE Got(k) \o r[k - Take(k)]]
           read == CHOOSE r : Eq(r)
<1>1. ReadAdd(d, off, n) = read[n]
  BY DEF ReadAdd
<1>2. ASSUME NEW k \in 0 .. n, k # 0
      PROVE  /\ off + n - k \in Nat /\ Take(k) \in 1 .. k /\ off + n - k + Take(k) <= Len(x)
             /\ Got(k) = Bytes(x, off + n - k, Take(k)) /\ Got(k) \in Seq(Byte)
             /\ d.frames >= Len(d.blocks) => ~Lost(k)
  <2>1. PICK pos : pos = off + n - k
    OBVIOUS
  <2>2. pos \in Nat /\ pos < Len(x) /\ k \in Nat
    BY <1>0, <1>2, <2>1
  <2>3. PICK len \in Nat :
           /\ (pos \div BlockSize) \in Nat /\ (pos % BlockSize) \in Nat
           /\ (pos \div BlockSize) < Len(CutBlocks(x))
           /\ (pos % BlockSize) < len /\ Len(CutBlocks(x)[(pos \div BlockSize) + 1]) = len
           /\ (pos - (pos % BlockSize)) + len <= Len(x)
           /\ \A take \in Nat : (pos % BlockSize) + take <= len =>
                Bytes(CutBlocks(x)[(pos \div BlockSize) + 1], pos % BlockSize, take) = Bytes(x, pos, take)
    BY <1>0, <2>2, BlockAt
  <2>4. PICK r, b, t : r = R(k) /\ b = B(k) /\ t = Take(k)
    OBVIOUS
  <2>5. /\ r \in Nat /\ b \in Nat /\ r < len /\ b < Len(d.blocks) /\ Len(d.blocks[b + 1]) = len
        /\ (pos - r) + len <= Len(x)
        /\ \A take \in Nat : r + take <= len => Bytes(d.blocks[b + 1], r, take) = Bytes(x, pos, take)
    BY <1>0, <2>1, <2>3, <2>4
  <2>6. t \in Nat /\ 1 <= t /\ t <= k /\ r + t <= len
    <3>1. k \in Int /\ len - r \in Int
      BY <2>2, <2>5
    <3>2. t = Min({k, len - r})
      BY <2>4, <2>5
    <3>3. t \in Int /\ t <= k /\ t <= len - r /\ (t = k \/ t = len - r)
      BY <3>1, <3>2, MinOf
    <3> QED BY <1>2, <2>2, <2>5, <3>3
  <2>7. Got(k) = Bytes(x, pos, t)
    BY <2>4, <2>5, <2>6
  <2>8. pos + t <= Len(x)
    BY <1>0, <2>2, <2>5, <2>6
  <2>9. Bytes(x, pos, t) \in Seq(Byte)
    BY <1>0, <2>2, <2>6, <2>8, BytesAre
  <2>10. d.frames >= Len(d.blocks) => ~Lost(k)
    <3>1. SUFFICES ASSUME d.frames >= Len(d.blocks) PROVE ~Lost(k)
      OBVIOUS
    <3>2. Len(d.blocks) \in Int /\ d.frames \in Int
      <4>1. Len(CutBlocks(x)) \in Int
        <5>1. Len(x) \in Nat /\ BlockSize \in Nat /\ BlockSize # 0
          BY <1>0, DeltaAssumption
        <5>2. (Len(x) + BlockSize - 1) \div BlockSize \in Nat
          BY <5>1, Divided
        <5> QED BY <5>2 DEF CutBlocks
      <4> QED BY <1>0, <4>1
    <3>3. Min({Len(d.blocks), d.frames}) = Len(d.blocks)
      BY <3>1, <3>2, MinOfTwo
    <3>4. ~(b >= Len(d.blocks)) /\ ~(r > Len(d.blocks[b + 1]))
      BY <2>5, <3>2
    <3> QED BY <2>4, <3>3, <3>4
  <2>11. t \in 1 .. k
    BY <2>2, <2>6
  <2> HIDE DEF Take, Got, Lost
  <2> QED BY <2>1, <2>2, <2>4, <2>7, <2>8, <2>9, <2>10, <2>11
<1> HIDE DEF Take, Got, Lost
<1>3. \E r : Eq(r)
  <2> DEFINE D == 0 .. n
             stop == {k \in D : k = 0 \/ Lost(k)}
             mu == [k \in D |-> k]
             leaf == [k \in D |-> IF k = 0 THEN << >> ELSE EIO]
             next == [k \in D |-> k - Take(k)]
             comb == [k \in D |-> [t \in Seq(Int) |-> IF t = EIO THEN EIO ELSE Got(k) \o t]]
  <2>0. EIO \in Seq(Int) /\ << >> \in Seq(Int)
    BY DEF EIO
  <2>1. ASSUME NEW k \in D \ stop
        PROVE  next[k] \in D /\ mu[next[k]] < mu[k] /\ comb[k] \in [Seq(Int) -> Seq(Int)]
    <3>1. k \in 0 .. n /\ k # 0
      OBVIOUS
    <3>2. Got(k) \in Seq(Byte) /\ Take(k) \in 1 .. k
      BY <1>2, <3>1
    <3>3. k - Take(k) \in D /\ k - Take(k) < k
      BY <1>0, <3>1, <3>2
    <3>4. Got(k) \in Seq(Int)
      <4>1. Byte \subseteq Int
        BY DeltaAssumption
      <4> QED BY <3>2, <4>1, SeqMonotonic
    <3>5. \A t \in Seq(Int) : Got(k) \o t \in Seq(Int)
      BY <3>4, ConcatProperties
    <3> QED BY <2>0, <3>1, <3>3, <3>5
  <2>2. mu \in [D -> Nat] /\ leaf \in [D -> Seq(Int)]
    BY <1>0, <2>0
  <2>3. Decreases(D, Seq(Int), mu, stop, leaf, next, comb)
    <3> HIDE DEF D, stop, mu, leaf, next, comb
    <3> QED BY <2>1, <2>2 DEF Decreases
  <2>4. PICK f : Recurs(D, Seq(Int), stop, leaf, next, comb, f)
    <3> HIDE DEF D, stop, mu, leaf, next, comb
    <3> QED BY <2>3, Recursion
  <2>5. ASSUME NEW k \in D
        PROVE  f[k] = IF k = 0 THEN << >> ELSE IF Lost(k) THEN EIO
                      ELSE IF f[k - Take(k)] = EIO THEN EIO ELSE Got(k) \o f[k - Take(k)]
    <3>1. CASE k \in stop
      <4>1. f[k] = leaf[k]
        BY <2>4, <3>1 DEF Recurs
      <4> QED BY <3>1, <4>1
    <3>2. CASE k \notin stop
      <4>1. next[k] \in D /\ next[k] = k - Take(k)
        BY <2>1, <3>2
      <4>2. f[k] = comb[k][f[next[k]]] /\ f[next[k]] \in Seq(Int)
        BY <2>4, <3>2, <4>1 DEF Recurs
      <4>3. f[k] = IF f[k - Take(k)] = EIO THEN EIO ELSE Got(k) \o f[k - Take(k)]
        BY <4>1, <4>2
      <4> QED BY <3>2, <4>3
    <3> QED BY <3>1, <3>2
  <2>6. f = [k \in D |-> f[k]]
    BY <2>4 DEF Recurs
  <2>7. Eq(f)
    BY <2>5, <2>6, Zenon
  <2> QED BY <2>7
<1>4. Eq(read)
  BY <1>3
<1> HIDE DEF read
<1> DEFINE Good(k) == /\ read[k] \in {Bytes(x, off + n - k, k), EIO}
                      /\ d.frames >= Len(d.blocks) => read[k] = Bytes(x, off + n - k, k)
           Done == {k \in Nat : k <= n => Good(k)}
<1>5. ASSUME NEW k \in Nat, \A m \in Nat : m < k => m \in Done PROVE k \in Done
  <2>1. SUFFICES ASSUME k <= n PROVE Good(k)
    OBVIOUS
  <2>2. k \in 0 .. n /\ off + n - k \in Nat
    BY <1>0, <2>1
  <2>3. CASE k = 0
    <3>1. read[k] = << >>
      BY <1>4, <2>2, <2>3
    <3>2. Bytes(x, off + n - k, 0) = << >>
      BY <2>2, NoBytes
    <3> QED BY <2>3, <3>1, <3>2
  <2>4. CASE k # 0
    <3>1. /\ Take(k) \in 1 .. k /\ off + n - k + Take(k) <= Len(x)
          /\ Got(k) = Bytes(x, off + n - k, Take(k)) /\ Got(k) \in Seq(Byte)
          /\ d.frames >= Len(d.blocks) => ~Lost(k)
      BY <1>2, <2>2, <2>4
    <3>2. CASE Lost(k)
      <4>1. read[k] = EIO
        BY <1>4, <2>2, <2>4, <3>2
      <4> QED BY <3>1, <3>2, <4>1
    <3>3. CASE ~Lost(k)
      <4>1. read[k] = IF read[k - Take(k)] = EIO THEN EIO ELSE Got(k) \o read[k - Take(k)]
        BY <1>4, <2>2, <2>4, <3>3
      <4>2. PICK t, o : t = Take(k) /\ o = off + n - k
        OBVIOUS
      <4>3. /\ t \in Nat /\ o \in Nat /\ k - t \in Nat /\ k - t < k /\ k - t <= n
            /\ off + n - (k - t) = o + t /\ o + t + (k - t) <= Len(x) /\ t + (k - t) = k
        <5>1. t \in Nat /\ 1 <= t /\ t <= k /\ o \in Nat /\ o + k = off + n
          BY <1>0, <2>2, <3>1, <4>2
        <5>2. off + n <= Len(x) /\ Len(x) \in Nat /\ off \in Nat /\ n \in Nat
          BY <1>0
        <5> QED BY <2>1, <5>1, <5>2
      <4>4. k - t \in Done
        BY <1>5, <4>3
      <4>5. Good(k - t)
        BY <4>3, <4>4
      <4>6. /\ read[k - t] \in {Bytes(x, o + t, k - t), EIO}
            /\ d.frames >= Len(d.blocks) => read[k - t] = Bytes(x, o + t, k - t)
        BY <4>3, <4>5
      <4>7. Bytes(x, o, t) \o Bytes(x, o + t, k - t) = Bytes(x, o, k)
        BY <1>0, <4>3, BytesJoin
      <4>8. o + t \in Nat /\ (o + t) + (k - t) <= Len(x)
        BY <4>3
      <4>9. Bytes(x, o + t, k - t) \in Seq(Byte)
        BY <1>0, <4>3, <4>8, BytesAre
      <4>10. Bytes(x, o + t, k - t) # EIO
        BY <4>9, NotEIO
      <4>11. read[k] = IF read[k - t] = EIO THEN EIO ELSE Bytes(x, o, t) \o read[k - t]
        BY <3>1, <4>1, <4>2
      <4>12. /\ read[k] \in {Bytes(x, o, k), EIO}
             /\ d.frames >= Len(d.blocks) => read[k] = Bytes(x, o, k)
        BY <4>6, <4>7, <4>10, <4>11
      <4> QED BY <4>2, <4>12
    <3> QED BY <3>2, <3>3
  <2> QED BY <2>3, <2>4
<1> HIDE DEF Done
<1>6. n \in Done
  BY <1>0, <1>5, StrongInduction
<1>7. Good(n)
  BY <1>0, <1>6 DEF Done
<1>8. off + n - n = off
  BY <1>0
<1> QED BY <1>1, <1>7, <1>8

-----------------------------------------------------------------------------
(***************************************************************************)
(* Reading through a flat map.                                             *)
(***************************************************************************)
Segment == [kind : {"COPY", "ADD"}, len : Nat, srcOff : Nat, addSrc : Nat, targetOff : Nat]

\* Segment s has the bytes of x at q: in the ultimate base or in the literals
\* of a delta.
Backed(s, base, lits, x, q) ==
  /\ s \in Segment /\ s.len # 0
  /\ s.kind = "COPY" => Same(base, s.srcOff, x, q, s.len)
  /\ s.kind = "ADD" => s.addSrc \in 1 .. Len(lits) /\ Same(lits[s.addSrc], s.srcOff, x, q, s.len)

\* The flat map of m describes x end to end, over base and the literals lits.
Serves(m, base, lits, x) ==
  /\ base \in Seq(Byte) /\ lits \in Seq(Seq(Byte)) /\ x \in Seq(Byte)
  /\ m.size = Len(x) /\ m.segs \in Seq(Segment)
  /\ \E at : /\ EndToEnd(m.segs, 0, at) /\ at[Len(m.segs)] = Len(x)
             /\ \A i \in 1 .. Len(m.segs) :
                  /\ m.segs[i].targetOff = at[i - 1]
                  /\ Backed(m.segs[i], base, lits, x, at[i - 1])
  /\ \A a \in 1 .. Len(lits) : m.adds[a].blocks = CutBlocks(lits[a]) /\ m.adds[a].frames \in Int

\* None of the deltas has lost frames.
Framed(m, lits) == \A a \in 1 .. Len(lits) : m.adds[a].frames >= Len(m.adds[a].blocks)

\* What is read of segment i of m.
PartOf(m, ps, i, pos, k) ==
  IF m.segs[i].kind = "COPY" THEN ReadCopy(ps, SourceAt(m.segs[i], pos), k)
  ELSE ReadAdd(m.adds[m.segs[i].addSrc], SourceAt(m.segs[i], pos), k)

\* Bytes pos .. pos + k of x lie in segment i.
InSegment(m, ps, base, lits, x, at, cut, i, pos, k) ==
  /\ Serves(m, base, lits, x) /\ Holding(ps, base, cut)
  /\ EndToEnd(m.segs, 0, at) /\ at[Len(m.segs)] = Len(x)
  /\ i \in 1 .. Len(m.segs) /\ pos \in Nat /\ k \in Nat
  /\ m.segs[i].targetOff = at[i - 1] /\ Backed(m.segs[i], base, lits, x, at[i - 1])
  /\ at[i - 1] <= pos /\ pos + k <= at[i]

\* They are read right, or the read fails.
LEMMA PartIs ==
  ASSUME NEW m, NEW ps, NEW base, NEW lits, NEW x, NEW at, NEW cut, NEW i, NEW pos, NEW k,
         InSegment(m, ps, base, lits, x, at, cut, i, pos, k)
  PROVE  /\ PartOf(m, ps, i, pos, k) \in {Bytes(x, pos, k), EIO}
         /\ Whole(ps) /\ Framed(m, lits) => PartOf(m, ps, i, pos, k) = Bytes(x, pos, k)
<1>1. /\ base \in Seq(Byte) /\ lits \in Seq(Seq(Byte)) /\ x \in Seq(Byte) /\ m.segs \in Seq(Segment)
      /\ \A a \in 1 .. Len(lits) : m.adds[a].blocks = CutBlocks(lits[a]) /\ m.adds[a].frames \in Int
      /\ Holding(ps, base, cut)
  BY DEF InSegment, Serves
<1>2. /\ i \in 1 .. Len(m.segs) /\ pos \in Nat /\ k \in Nat /\ Len(m.segs) \in Nat
      /\ m.segs[i].targetOff = at[i - 1] /\ Backed(m.segs[i], base, lits, x, at[i - 1])
      /\ at[i - 1] <= pos /\ pos + k <= at[i]
  BY <1>1 DEF InSegment
<1>3. PICK s, o, a : s = m.segs[i] /\ o = at[i - 1] /\ a = pos - at[i - 1]
  OBVIOUS
<1>4. s \in Segment /\ s.len \in Nat /\ s.srcOff \in Nat /\ s.kind \in {"COPY", "ADD"}
  BY <1>2, <1>3 DEF Backed, Segment
<1>5. o \in Nat /\ at[i] = o + s.len
  <2>1. i - 1 \in 0 .. Len(m.segs) /\ EndToEnd(m.segs, 0, at)
    BY <1>2 DEF InSegment
  <2> QED BY <1>2, <1>3, <2>1 DEF EndToEnd
<1>6. a \in Nat /\ a + k <= s.len /\ o + a = pos
  <2>1. o <= pos /\ pos + k <= o + s.len /\ a = pos - o
    BY <1>2, <1>3, <1>5
  <2> QED BY <1>2, <1>4, <1>5, <2>1
<1>7. SourceAt(s, pos) = s.srcOff + a
  BY <1>2, <1>3 DEF SourceAt
<1>8. s.srcOff + a \in Nat
  BY <1>4, <1>6
<1>9. CASE s.kind = "COPY"
  <2>1. Same(base, s.srcOff, x, o, s.len)
    BY <1>2, <1>3, <1>9 DEF Backed
  <2>2. Len(base) \in Nat /\ Len(x) \in Nat
    BY <1>1
  <2>3. Same(base, s.srcOff + a, x, o + a, k)
    BY <1>2, <1>4, <1>5, <1>6, <2>1, <2>2, SamePart
  <2>4. Bytes(base, s.srcOff + a, k) = Bytes(x, pos, k)
    BY <1>1, <1>2, <1>6, <1>8, <2>3, SameBytes
  <2>5. InBase(ps, base, cut, s.srcOff + a, k)
    BY <1>1, <1>2, <1>8, <2>3 DEF InBase, Same
  <2>6. PartOf(m, ps, i, pos, k) = ReadCopy(ps, s.srcOff + a, k)
    BY <1>3, <1>7, <1>9 DEF PartOf
  <2>7. /\ ReadCopy(ps, s.srcOff + a, k) \in {Bytes(base, s.srcOff + a, k), EIO}
        /\ Whole(ps) => ReadCopy(ps, s.srcOff + a, k) = Bytes(base, s.srcOff + a, k)
    BY <2>5, ReadCopyIs
  <2> QED BY <2>4, <2>6, <2>7
<1>10. CASE s.kind = "ADD"
  <2>1. s.addSrc \in 1 .. Len(lits) /\ Same(lits[s.addSrc], s.srcOff, x, o, s.len)
    BY <1>2, <1>3, <1>10 DEF Backed
  <2>2. PICK y, d : y = lits[s.addSrc] /\ d = m.adds[s.addSrc]
    OBVIOUS
  <2>3. y \in Seq(Byte) /\ Same(y, s.srcOff, x, o, s.len) /\ d.blocks = CutBlocks(y) /\ d.frames \in Int
    BY <1>1, <2>1, <2>2
  <2>4. Len(y) \in Nat /\ Len(x) \in Nat
    BY <1>1, <2>3
  <2>5. Same(y, s.srcOff + a, x, o + a, k)
    BY <1>2, <1>4, <1>5, <1>6, <2>3, <2>4, SamePart
  <2>6. Bytes(y, s.srcOff + a, k) = Bytes(x, pos, k)
    BY <1>1, <1>2, <1>6, <1>8, <2>3, <2>5, SameBytes
  <2>7. InLits(d, y, s.srcOff + a, k)
    BY <1>2, <1>8, <2>3, <2>5 DEF InLits, Same
  <2>8. PartOf(m, ps, i, pos, k) = ReadAdd(d, s.srcOff + a, k)
    BY <1>3, <1>7, <1>10, <2>2 DEF PartOf
  <2>9. /\ ReadAdd(d, s.srcOff + a, k) \in {Bytes(y, s.srcOff + a, k), EIO}
        /\ d.frames >= Len(d.blocks) => ReadAdd(d, s.srcOff + a, k) = Bytes(y, s.srcOff + a, k)
    BY <2>7, ReadAddIs
  <2>10. Framed(m, lits) => d.frames >= Len(d.blocks)
    BY <2>1, <2>2 DEF Framed
  <2> QED BY <2>6, <2>8, <2>9, <2>10
<1> QED BY <1>4, <1>9, <1>10

\* A read through a flat map returns the bytes of what the map describes, or
\* fails; it does not fail while the base is whole and no frame is lost.
LEMMA PreadIs ==
  ASSUME NEW m, NEW ps, NEW base, NEW lits, NEW x, NEW cut, NEW off \in Nat, NEW n \in Nat,
         Serves(m, base, lits, x), Holding(ps, base, cut)
  PROVE  /\ Pread(m, ps, off, n) \in {ReadFile(x, off, n), EIO}
         /\ Whole(ps) /\ Framed(m, lits) => Pread(m, ps, off, n) = ReadFile(x, off, n)
<1> DEFINE N == Len(m.segs)
<1>1. /\ x \in Seq(Byte) /\ Len(x) \in Nat /\ m.size = Len(x) /\ m.segs \in Seq(Segment) /\ N \in Nat
      /\ DOMAIN m.segs = 1 .. N
  BY DEF Serves
<1>2. PICK at : /\ EndToEnd(m.segs, 0, at) /\ at[N] = Len(x)
                /\ \A i \in 1 .. N : /\ m.segs[i].targetOff = at[i - 1]
                                     /\ Backed(m.segs[i], base, lits, x, at[i - 1])
  BY DEF Serves
<1>3. /\ at \in [0 .. N -> Nat] /\ at[0] = 0 /\ \A i \in 1 .. N : at[i] = at[i - 1] + m.segs[i].len
  BY <1>2 DEF EndToEnd
<1>4. \A i \in 1 .. N : m.segs[i].len \in Nat /\ m.segs[i].len # 0
  BY <1>2 DEF Backed, Segment
<1>5. ASSUME NEW i \in 1 .. N PROVE at[i - 1] \in Nat /\ at[i] \in Nat /\ at[i - 1] < at[i] /\ at[i] <= at[N]
  <2>1. \A j \in 1 .. N : at[j - 1] <= at[j] /\ (at[j - 1] < at[j])
    <3>1. ASSUME NEW j \in 1 .. N PROVE at[j - 1] <= at[j] /\ at[j - 1] < at[j]
      <4>0. j - 1 \in 0 .. N
        BY <1>1
      <4>1. at[j - 1] \in Nat /\ m.segs[j].len \in Nat /\ m.segs[j].len # 0 /\ at[j] = at[j - 1] + m.segs[j].len
        BY <1>3, <1>4, <4>0
      <4> QED BY <4>1
    <3> QED BY <3>1
  <2>2. i \in 0 .. N /\ N \in 0 .. N /\ i <= N /\ i - 1 \in 0 .. N
    BY <1>1
  <2>3. at[i] <= at[N]
    BY <1>1, <1>3, <2>1, <2>2, Monotone
  <2> QED BY <1>3, <2>1, <2>2, <2>3
<1> HIDE DEF N
<1>6. CASE off >= Len(x)
  <2>1. Pread(m, ps, off, n) = << >>
    BY <1>1, <1>6 DEF Pread
  <2>2. Len(x) - off \in Int /\ Len(x) - off <= 0
    BY <1>1, <1>6
  <2>3. Max({0, Len(x) - off}) = 0
    BY <2>2, MaxOfZero
  <2>4. Min({n, 0}) = 0
    BY MinOfTwo
  <2>5. ReadFile(x, off, n) = << >>
    BY <2>3, <2>4, NoBytes DEF ReadFile
  <2> QED BY <2>1, <2>5
<1>7. CASE off < Len(x)
  <2>1. N # 0 /\ m.segs # << >>
    BY <1>1, <1>2, <1>3, <1>7 DEF N
  <2> DEFINE want == Min({n, m.size - off})
  <2>2. want = Min({n, Len(x) - off})
    BY <1>1
  <2>3. want \in Nat /\ off + want <= Len(x)
    <3>1. n \in Int /\ Len(x) - off \in Int /\ Len(x) - off > 0
      BY <1>1, <1>7
    <3> HIDE DEF want
    <3>2. want \in Int /\ want <= n /\ want <= Len(x) - off /\ (want = n \/ want = Len(x) - off)
      BY <2>2, <3>1, MinOf
    <3> QED BY <1>1, <3>1, <3>2
  <2>4. ReadFile(x, off, n) = Bytes(x, off, want)
    <3>1. Len(x) - off \in Int /\ Len(x) - off >= 0
      BY <1>1, <1>7
    <3>2. Max({0, Len(x) - off}) = Len(x) - off
      BY <3>1, MaxOfZero
    <3> HIDE DEF want
    <3> QED BY <2>2, <3>2 DEF ReadFile
  <2> DEFINE D == (1 .. N + 1) \X (0 .. want)
             Pos(k) == off + want - k
             Chunk(i, k) == Min({k, m.segs[i].targetOff + m.segs[i].len - Pos(k)})
             P(i, k) == PartOf(m, ps, i, Pos(k), Chunk(i, k))
             Bad(i, k) == Pos(k) < m.segs[i].targetOff \/ Chunk(i, k) <= 0 \/ P(i, k) = EIO
             Eq(r) == r = [e \in D |->
                             IF e[2] = 0 \/ e[1] > N THEN << >>
                             ELSE IF Bad(e[1], e[2]) THEN EIO
                             ELSE IF r[<<e[1] + 1, e[2] - Chunk(e[1], e[2])>>] = EIO THEN EIO
                             ELSE P(e[1], e[2]) \o r[<<e[1] + 1, e[2] - Chunk(e[1], e[2])>>]]
             read == CHOOSE r : Eq(r)
  <2>5. Pread(m, ps, off, n) = read[<<SegAt(m.segs, off), want>>]
    <3>1. ~(off >= m.size \/ m.segs = << >>)
      BY <1>1, <1>7, <2>1
    <3> QED BY <3>1 DEF Pread, PartOf, N
  <2> HIDE DEF want
  <2>6. ASSUME NEW i \in 1 .. N, NEW k \in 0 .. want, at[i - 1] <= Pos(k), k # 0
        PROVE  LET c == Chunk(i, k)
               IN  /\ c = Min({k, at[i] - Pos(k)}) /\ c \in Int /\ c <= k /\ Pos(k) + c <= at[i]
                   /\ Pos(k) \in Nat /\ m.segs[i].targetOff = at[i - 1]
                   /\ Pos(k) < at[i] => c > 0
                   /\ c = k \/ Pos(k) + c = at[i]
                   /\ c >= 0 => /\ P(i, k) \in {Bytes(x, Pos(k), c), EIO}
                                /\ Whole(ps) /\ Framed(m, lits) => P(i, k) = Bytes(x, Pos(k), c)
                                /\ Bytes(x, Pos(k), c) \in Seq(Byte)
    <3>1. PICK c, q : c = Chunk(i, k) /\ q = Pos(k)
      OBVIOUS
    <3>2. q \in Nat /\ k \in Nat /\ q + k = off + want
      BY <2>3, <3>1
    <3>3. /\ at[i - 1] \in Nat /\ at[i] \in Nat /\ at[i - 1] < at[i] /\ at[i] <= Len(x)
          /\ m.segs[i].targetOff = at[i - 1] /\ at[i] = at[i - 1] + m.segs[i].len
      BY <1>2, <1>3, <1>5 DEF N
    <3>4. c = Min({k, at[i] - q})
      <4>1. m.segs[i].targetOff + m.segs[i].len = at[i]
        BY <3>3
      <4>2. \A e, f : e = f => Min({k, e}) = Min({k, f})
        OBVIOUS
      <4>3. m.segs[i].targetOff + m.segs[i].len - Pos(k) = at[i] - q
        <5>1. m.segs[i].len \in Nat /\ m.segs[i].targetOff \in Nat /\ Pos(k) = q
          BY <1>4, <3>1, <3>3 DEF N
        <5> HIDE DEF Pos
        <5>2. \A a, b, d \in Int : a + (b - d) = (a + b) - d
          OBVIOUS
        <5>3. m.segs[i].len \in Int /\ m.segs[i].targetOff \in Int /\ Pos(k) \in Int
          BY <3>2, <5>1
        <5>4. m.segs[i].targetOff + (m.segs[i].len - Pos(k)) = (m.segs[i].targetOff + m.segs[i].len) - Pos(k)
          BY <5>2, <5>3, Zenon
        <5>5. (m.segs[i].targetOff + m.segs[i].len) - Pos(k) = at[i] - Pos(k)
          BY <4>1, Zenon
        <5>6. at[i] - Pos(k) = at[i] - q
          BY <5>1, Zenon
        <5> QED BY <5>4, <5>5, <5>6, Zenon
      <4>4. Min({k, m.segs[i].targetOff + m.segs[i].len - Pos(k)}) = Min({k, at[i] - q})
        BY <4>2, <4>3, Zenon
      <4> QED BY <3>1, <4>4, Zenon
    <3>5. c \in Int /\ c <= k /\ c <= at[i] - q /\ (c = k \/ c = at[i] - q)
      <4>1. k \in Int /\ at[i] - q \in Int
        BY <3>2, <3>3
      <4> QED BY <3>4, <4>1, MinOf
    <3>6. q < at[i] => c > 0
      BY <2>6, <3>2, <3>3, <3>5
    <3>7. q + c <= at[i] /\ (c = k \/ q + c = at[i])
      BY <3>2, <3>3, <3>5
    <3>8. ASSUME c >= 0
          PROVE  /\ P(i, k) \in {Bytes(x, q, c), EIO}
                 /\ Whole(ps) /\ Framed(m, lits) => P(i, k) = Bytes(x, q, c)
                 /\ Bytes(x, q, c) \in Seq(Byte)
      <4>1. InSegment(m, ps, base, lits, x, at, cut, i, q, c)
        <5>1. c \in Nat /\ at[i - 1] <= q
          BY <2>6, <3>1, <3>5, <3>8
        <5> QED BY <1>2, <3>2, <3>7, <5>1 DEF InSegment, N
      <4>2. P(i, k) = PartOf(m, ps, i, q, c)
        BY <3>1
      <4>3. /\ PartOf(m, ps, i, q, c) \in {Bytes(x, q, c), EIO}
            /\ Whole(ps) /\ Framed(m, lits) => PartOf(m, ps, i, q, c) = Bytes(x, q, c)
        BY <4>1, PartIs
      <4>4. c \in Nat /\ q + c <= Len(x)
        BY <3>2, <3>3, <3>5, <3>7, <3>8
      <4>5. Bytes(x, q, c) \in Seq(Byte)
        BY <1>1, <3>2, <4>4, BytesAre
      <4> HIDE DEF P
      <4> QED BY <4>2, <4>3, <4>5
    <3> HIDE DEF P, Chunk, Pos
    <3> QED BY <3>1, <3>2, <3>3, <3>4, <3>5, <3>6, <3>7, <3>8
  <2> HIDE DEF P
  <2>7. ASSUME NEW i \in 1 .. N, NEW k \in 0 .. want, k # 0, ~Bad(i, k)
        PROVE  /\ Chunk(i, k) \in 1 .. k /\ P(i, k) \in Seq(Byte)
               /\ i + 1 \in 1 .. N + 1 /\ k - Chunk(i, k) \in 0 .. want
    <3>1. k \in Nat /\ k <= want /\ Pos(k) \in Nat
      BY <2>3
    <3>2. at[i - 1] \in Nat /\ m.segs[i].targetOff = at[i - 1]
      BY <1>2, <1>5 DEF N
    <3>3. at[i - 1] <= Pos(k)
      BY <2>7, <3>1, <3>2
    <3>4. /\ Chunk(i, k) \in Int /\ Chunk(i, k) <= k
          /\ Chunk(i, k) >= 0 => /\ P(i, k) \in {Bytes(x, Pos(k), Chunk(i, k)), EIO}
                                 /\ Bytes(x, Pos(k), Chunk(i, k)) \in Seq(Byte)
      BY <2>6, <2>7, <3>3
    <3>5. Chunk(i, k) > 0 /\ P(i, k) # EIO
      BY <2>7, <3>4
    <3>6. P(i, k) \in Seq(Byte)
      BY <3>4, <3>5
    <3>7. Chunk(i, k) \in 1 .. k
      BY <3>1, <3>4, <3>5
    <3>8. i + 1 \in 1 .. N + 1 /\ k - Chunk(i, k) \in 0 .. want
      <4> HIDE DEF Chunk
      <4> QED BY <1>1, <2>3, <3>1, <3>7
    <3> QED BY <3>6, <3>7, <3>8
  <2> HIDE DEF Chunk, Pos, Bad
  <2>8. \E r : Eq(r)
    <3> DEFINE stop == {e \in D : e[2] = 0 \/ e[1] > N \/ Bad(e[1], e[2])}
               mu == [e \in D |-> e[2]]
               leaf == [e \in D |-> IF e[2] = 0 \/ e[1] > N THEN << >> ELSE EIO]
               next == [e \in D |-> <<e[1] + 1, e[2] - Chunk(e[1], e[2])>>]
               comb == [e \in D |-> [t \in Seq(Int) |-> IF t = EIO THEN EIO ELSE P(e[1], e[2]) \o t]]
    <3>0. EIO \in Seq(Int) /\ << >> \in Seq(Int)
      BY DEF EIO
    <3>1. ASSUME NEW e \in D \ stop
          PROVE  next[e] \in D /\ mu[next[e]] < mu[e] /\ comb[e] \in [Seq(Int) -> Seq(Int)]
      <4>1. PICK i \in 1 .. N + 1, k \in 0 .. want : e = <<i, k>>
        OBVIOUS
      <4>2. i \in 1 .. N /\ k # 0 /\ ~Bad(i, k) /\ e[1] = i /\ e[2] = k /\ e \in D
        BY <1>1, <4>1
      <4>3. /\ Chunk(i, k) \in 1 .. k /\ P(i, k) \in Seq(Byte)
            /\ i + 1 \in 1 .. N + 1 /\ k - Chunk(i, k) \in 0 .. want
        BY <2>7, <4>2
      <4>4. next[e] = <<i + 1, k - Chunk(i, k)>> /\ next[e] \in D
        BY <4>2, <4>3
      <4>5. mu[next[e]] = k - Chunk(i, k) /\ mu[e] = k /\ k - Chunk(i, k) < k
        BY <2>3, <4>2, <4>3, <4>4
      <4>6. P(i, k) \in Seq(Int)
        <5>1. Byte \subseteq Int
          BY DeltaAssumption
        <5> QED BY <4>3, <5>1, SeqMonotonic
      <4>7. \A t \in Seq(Int) : P(i, k) \o t \in Seq(Int)
        BY <4>6, ConcatProperties
      <4>8. comb[e] = [t \in Seq(Int) |-> IF t = EIO THEN EIO ELSE P(i, k) \o t]
        BY <4>2
      <4>9. comb[e] \in [Seq(Int) -> Seq(Int)]
        BY <3>0, <4>7, <4>8
      <4> QED BY <4>4, <4>5, <4>9
    <3>2. mu \in [D -> Nat] /\ leaf \in [D -> Seq(Int)]
      <4>1. \A e \in D : e[2] \in Nat
        BY <2>3
      <4> QED BY <3>0, <4>1
    <3>3. Decreases(D, Seq(Int), mu, stop, leaf, next, comb)
      <4> HIDE DEF D, stop, mu, leaf, next, comb
      <4> QED BY <3>1, <3>2 DEF Decreases
    <3>4. PICK f : Recurs(D, Seq(Int), stop, leaf, next, comb, f)
      <4> HIDE DEF D, stop, mu, leaf, next, comb
      <4> QED BY <3>3, Recursion
    <3>5. ASSUME NEW e \in D
          PROVE  f[e] = IF e[2] = 0 \/ e[1] > N THEN << >>
                        ELSE IF Bad(e[1], e[2]) THEN EIO
                        ELSE IF f[<<e[1] + 1, e[2] - Chunk(e[1], e[2])>>] = EIO THEN EIO
                        ELSE P(e[1], e[2]) \o f[<<e[1] + 1, e[2] - Chunk(e[1], e[2])>>]
      <4>1. CASE e \in stop
        <5>1. f[e] = leaf[e]
          BY <3>4, <4>1 DEF Recurs
        <5> QED BY <3>2, <3>3, <4>1, <5>1
      <4>2. CASE e \notin stop
        <5>1. next[e] \in D /\ next[e] = <<e[1] + 1, e[2] - Chunk(e[1], e[2])>>
          BY <3>1, <4>2
        <5>2. f[e] = comb[e][f[next[e]]] /\ f[next[e]] \in Seq(Int)
          BY <3>4, <4>2, <5>1 DEF Recurs
        <5>3. f[e] = IF f[next[e]] = EIO THEN EIO ELSE P(e[1], e[2]) \o f[next[e]]
          BY <5>2
        <5> HIDE DEF next, comb, leaf, mu
        <5> QED BY <4>2, <5>1, <5>3
      <4> QED BY <4>1, <4>2
    <3>6. f = [e \in D |-> f[e]]
      BY <3>4 DEF Recurs
    <3>7. Eq(f)
      BY <3>5, <3>6, Zenon
    <3> QED BY <3>7
  <2>9. Eq(read)
    BY <2>8
  <2> HIDE DEF read
  <2> DEFINE Good(i, k) ==
               /\ read[<<i, k>>] \in {Bytes(x, Pos(k), k), EIO}
               /\ Whole(ps) /\ Framed(m, lits) => read[<<i, k>>] = Bytes(x, Pos(k), k)
             In(i, k) == k = 0 \/ (i \in 1 .. N /\ at[i - 1] <= Pos(k) /\ Pos(k) < at[i])
             Done == {k \in Nat : k <= want => \A i \in 1 .. N + 1 : In(i, k) => Good(i, k)}
  <2>10. ASSUME NEW k \in Nat, \A l \in Nat : l < k => l \in Done PROVE k \in Done
    <3>1. SUFFICES ASSUME k <= want, NEW i \in 1 .. N + 1, In(i, k) PROVE Good(i, k)
      OBVIOUS
    <3>2. k \in 0 .. want /\ <<i, k>> \in D /\ <<i, k>>[1] = i /\ <<i, k>>[2] = k
      BY <2>3, <3>1
    <3>3. read[<<i, k>>] = IF k = 0 \/ i > N THEN << >> ELSE IF Bad(i, k) THEN EIO
                           ELSE IF read[<<i + 1, k - Chunk(i, k)>>] = EIO THEN EIO
                           ELSE P(i, k) \o read[<<i + 1, k - Chunk(i, k)>>]
      <4> HIDE DEF D
      <4> QED BY <2>9, <3>2
    <3>4. Pos(k) \in Nat /\ Pos(k) + k = off + want
      BY <2>3, <3>1 DEF Pos
    <3>5. CASE k = 0
      <4>1. read[<<i, k>>] = << >>
        BY <3>3, <3>5
      <4>2. Bytes(x, Pos(k), 0) = << >>
        BY <3>4, NoBytes
      <4> QED BY <3>5, <4>1, <4>2
    <3>6. CASE k # 0
      <4>1. i \in 1 .. N /\ at[i - 1] <= Pos(k) /\ Pos(k) < at[i]
        BY <3>1, <3>6
      <4>2. PICK c, q : c = Chunk(i, k) /\ q = Pos(k)
        OBVIOUS
      <4>3. /\ c \in Int /\ c <= k /\ q + c <= at[i] /\ q \in Nat /\ m.segs[i].targetOff = at[i - 1]
            /\ c > 0 /\ (c = k \/ q + c = at[i])
            /\ P(i, k) \in {Bytes(x, q, c), EIO}
            /\ Whole(ps) /\ Framed(m, lits) => P(i, k) = Bytes(x, q, c)
            /\ Bytes(x, q, c) \in Seq(Byte)
        <5>1. LET e == Chunk(i, k)
              IN  /\ e = Min({k, at[i] - Pos(k)}) /\ e \in Int /\ e <= k /\ Pos(k) + e <= at[i]
                  /\ Pos(k) \in Nat /\ m.segs[i].targetOff = at[i - 1]
                  /\ Pos(k) < at[i] => e > 0
                  /\ e = k \/ Pos(k) + e = at[i]
                  /\ e >= 0 => /\ P(i, k) \in {Bytes(x, Pos(k), e), EIO}
                               /\ Whole(ps) /\ Framed(m, lits) => P(i, k) = Bytes(x, Pos(k), e)
                               /\ Bytes(x, Pos(k), e) \in Seq(Byte)
          BY <2>6, <3>2, <3>6, <4>1
        <5>2. c > 0
          BY <4>1, <4>2, <5>1
        <5> QED BY <4>2, <5>1, <5>2
      <4>4. at[i - 1] \in Nat /\ at[i] \in Nat /\ at[i] <= Len(x)
        BY <1>2, <1>5, <4>1 DEF N
      <4>5. ~(q < m.segs[i].targetOff) /\ ~(c <= 0)
        BY <4>1, <4>2, <4>3, <4>4
      <4>6. Bad(i, k) <=> P(i, k) = EIO
        BY <4>2, <4>5 DEF Bad
      <4>7. ~(i > N)
        BY <1>1, <4>1
      <4>8. PICK rest : rest = read[<<i + 1, k - c>>]
        OBVIOUS
      <4>9. read[<<i, k>>] = IF P(i, k) = EIO \/ rest = EIO THEN EIO ELSE P(i, k) \o rest
        BY <3>3, <3>6, <4>2, <4>6, <4>7, <4>8
      <4>10. k - c \in Nat /\ k - c < k /\ k - c <= want /\ i + 1 \in 1 .. N + 1
        BY <1>1, <2>3, <3>1, <4>1, <4>3
      <4>11. Pos(k - c) = q + c
        BY <2>3, <3>4, <4>2, <4>3 DEF Pos
      <4>12. In(i + 1, k - c)
        <5>1. CASE c = k
          BY <4>3, <5>1
        <5>2. CASE c # k
          <6>0. q + c = at[i] /\ q + k = off + want /\ c < k
            BY <3>4, <4>2, <4>3, <5>2
          <6>1. q + c = at[i] /\ at[i] < Len(x) /\ q + k = off + want
            BY <1>1, <2>3, <4>3, <6>0
          <6>2. i # N
            BY <1>1, <1>2, <6>1 DEF N
          <6>3. i + 1 \in 1 .. N /\ (i + 1) - 1 = i
            BY <1>1, <4>1, <6>2
          <6>4. at[i] < at[i + 1]
            BY <1>5, <6>3
          <6> HIDE DEF Pos
          <6> QED BY <4>4, <4>11, <6>1, <6>3, <6>4
        <5> QED BY <5>1, <5>2
      <4>13. Good(i + 1, k - c)
        <5>1. k - c \in Done
          BY <2>10, <4>10
        <5> HIDE DEF Good, In
        <5> QED BY <4>10, <4>12, <5>1
      <4>14. /\ rest \in {Bytes(x, q + c, k - c), EIO}
             /\ Whole(ps) /\ Framed(m, lits) => rest = Bytes(x, q + c, k - c)
        BY <4>8, <4>11, <4>13
      <4>15. c \in Nat /\ q + c \in Nat /\ q + c + (k - c) <= Len(x) /\ c + (k - c) = k
        <5>1. c \in Int /\ c > 0 /\ q \in Nat /\ q + k = off + want /\ off + want <= Len(x)
          BY <2>3, <3>4, <4>2, <4>3
        <5> QED BY <1>1, <2>3, <5>1
      <4>16. Bytes(x, q, c) \o Bytes(x, q + c, k - c) = Bytes(x, q, k)
        <5>1. PICK e : e = k - c
          OBVIOUS
        <5>2. e \in Nat /\ q \in Nat /\ c \in Nat /\ q + c + e <= Len(x) /\ c + e = k
          BY <4>3, <4>10, <4>15, <5>1
        <5>4. x \in Seq(Byte)
          BY <1>1
        <5>3. Bytes(x, q, c) \o Bytes(x, q + c, e) = Bytes(x, q, c + e)
          BY <5>2, <5>4, BytesJoin
        <5> QED BY <5>1, <5>2, <5>3
      <4>17. Bytes(x, q + c, k - c) \in Seq(Byte)
        BY <1>1, <4>10, <4>15, BytesAre
      <4>18. Bytes(x, q + c, k - c) # EIO /\ Bytes(x, q, c) # EIO
        BY <4>3, <4>17, NotEIO
      <4>19. /\ read[<<i, k>>] \in {Bytes(x, q, k), EIO}
             /\ Whole(ps) /\ Framed(m, lits) => read[<<i, k>>] = Bytes(x, q, k)
        BY <4>3, <4>9, <4>14, <4>16, <4>18
      <4> QED BY <4>2, <4>19
    <3> QED BY <3>5, <3>6
  <2> HIDE DEF Done, Good, In
  <2>11. want \in Done
    BY <2>3, <2>10, StrongInduction
  <2>12. SegAt(m.segs, off) \in 1 .. N /\ In(SegAt(m.segs, off), want)
    <3> DEFINE i == Max({1} \cup {e \in 1 .. N : at[e - 1] <= off})
    <3>1. i \in 1 .. N /\ at[i - 1] <= off /\ off < at[i]
      <4>1. off < at[N]
        BY <1>2, <1>7 DEF N
      <4> QED BY <1>1, <1>3, <2>1, <4>1, RangeOf
    <3>2. {e \in DOMAIN m.segs : m.segs[e].targetOff <= off} = {e \in 1 .. N : at[e - 1] <= off}
      BY <1>1, <1>2 DEF N
    <3>3. SegAt(m.segs, off) = i
      BY <3>2 DEF SegAt
    <3>4. Pos(want) = off
      BY <2>3 DEF Pos
    <3> HIDE DEF i
    <3> QED BY <3>1, <3>3, <3>4 DEF In
  <2>13. Good(SegAt(m.segs, off), want) /\ Pos(want) = off
    <3>1. SegAt(m.segs, off) \in 1 .. N + 1 /\ want <= want
      BY <1>1, <2>3, <2>12
    <3>2. Pos(want) = off
      BY <2>3 DEF Pos
    <3> QED BY <2>11, <2>12, <3>1, <3>2 DEF Done
  <2> QED BY <2>4, <2>5, <2>13 DEF Good
<1> QED BY <1>1, <1>6, <1>7

-----------------------------------------------------------------------------
(***************************************************************************)
(* Composing: pieces that lie end to end.                                  *)
(***************************************************************************)
\* The segments s describe bytes a .. b of x, over base and lits.
Lies(s, base, lits, x, a, b) ==
  /\ s \in Seq(Segment)
  /\ \E at : /\ EndToEnd(s, a, at) /\ at[Len(s)] = b
             /\ \A i \in 1 .. Len(s) : Backed(s[i], base, lits, x, at[i - 1])

\* No segments describe no bytes.
LEMMA LiesNone ==
  ASSUME NEW base, NEW lits, NEW x, NEW a \in Nat
  PROVE  Lies(<< >>, base, lits, x, a, a)
<1>1. << >> \in Seq(Segment) /\ Len(<< >>) = 0
  OBVIOUS
<1>2. EndToEnd(<< >>, a, [i \in 0 .. 0 |-> a]) /\ [i \in 0 .. 0 |-> a][Len(<< >>)] = a
  BY <1>1 DEF EndToEnd
<1>3. \A i \in 1 .. Len(<< >>) : Backed(<< >>[i], base, lits, x, [j \in 0 .. 0 |-> a][i - 1])
  BY <1>1
<1> QED BY <1>1, <1>2, <1>3 DEF Lies

\* A segment describes its own bytes.
LEMMA LiesOne ==
  ASSUME NEW s, NEW base, NEW lits, NEW x, NEW a \in Nat, Backed(s, base, lits, x, a)
  PROVE  Lies(<<s>>, base, lits, x, a, a + s.len)
<1>1. s \in Segment /\ s.len \in Nat
  BY DEF Backed, Segment
<1>2. <<s>> \in Seq(Segment) /\ Len(<<s>>) = 1 /\ <<s>>[1] = s
  BY <1>1
<1> DEFINE at == [i \in 0 .. 1 |-> IF i = 0 THEN a ELSE a + s.len]
<1>3. EndToEnd(<<s>>, a, at) /\ at[Len(<<s>>)] = a + s.len
  BY <1>1, <1>2 DEF EndToEnd
<1>4. \A i \in 1 .. Len(<<s>>) : Backed(<<s>>[i], base, lits, x, at[i - 1])
  BY <1>2
<1> HIDE DEF at
<1> QED BY <1>2, <1>3, <1>4 DEF Lies

\* Two runs of segments.
Meet(s, t, base, lits, x, a, b, c) ==
  Lies(s, base, lits, x, a, b) /\ Lies(t, base, lits, x, b, c)

\* Together they describe what each does.
LEMMA LiesJoin ==
  ASSUME NEW s, NEW t, NEW base, NEW lits, NEW x, NEW a, NEW b, NEW c, Meet(s, t, base, lits, x, a, b, c)
  PROVE  Lies(s \o t, base, lits, x, a, c)
<1>1. s \in Seq(Segment) /\ t \in Seq(Segment)
  BY DEF Meet, Lies
<1>2. PICK f : /\ EndToEnd(s, a, f) /\ f[Len(s)] = b
               /\ \A i \in 1 .. Len(s) : Backed(s[i], base, lits, x, f[i - 1])
  BY DEF Meet, Lies
<1>3. PICK g : /\ EndToEnd(t, b, g) /\ g[Len(t)] = c
               /\ \A i \in 1 .. Len(t) : Backed(t[i], base, lits, x, g[i - 1])
  BY DEF Meet, Lies
<1>4. PICK n, l, u : n = Len(s) /\ l = Len(t) /\ u = s \o t
  OBVIOUS
<1>5. /\ n \in Nat /\ l \in Nat /\ u \in Seq(Segment) /\ Len(u) = n + l
      /\ \A i \in 1 .. n + l : u[i] = IF i <= n THEN s[i] ELSE t[i - n]
  BY <1>1, <1>4, ConcatProperties
<1>6. f \in [0 .. n -> Nat] /\ f[0] = a /\ f[n] = b /\ \A i \in 1 .. n : f[i] = f[i - 1] + s[i].len
  BY <1>2, <1>4 DEF EndToEnd
<1>7. g \in [0 .. l -> Nat] /\ g[0] = b /\ g[l] = c /\ \A i \in 1 .. l : g[i] = g[i - 1] + t[i].len
  BY <1>3, <1>4 DEF EndToEnd
<1> DEFINE at == [i \in 0 .. n + l |-> IF i <= n THEN f[i] ELSE g[i - n]]
<1>8. at \in [0 .. n + l -> Nat] /\ at[0] = a /\ at[n + l] = c
  <2>1. ASSUME NEW i \in 0 .. n + l PROVE at[i] \in Nat
    <3>1. CASE i <= n
      BY <1>5, <1>6, <3>1
    <3>2. CASE ~(i <= n)
      <4>1. i - n \in 0 .. l
        BY <1>5, <3>2
      <4> QED BY <1>7, <3>2, <4>1
    <3> QED BY <3>1, <3>2
  <2>2. at[0] = a
    BY <1>5, <1>6
  <2>3. at[n + l] = c
    <3>1. CASE l = 0
      BY <1>5, <1>6, <1>7, <3>1
    <3>2. CASE l # 0
      <4>1. ~(n + l <= n) /\ (n + l) - n = l /\ n + l \in 0 .. n + l
        BY <1>5, <3>2
      <4> QED BY <1>7, <4>1
    <3> QED BY <3>1, <3>2
  <2> QED BY <2>1, <2>2, <2>3
<1>9. ASSUME NEW i \in 1 .. n + l
      PROVE  at[i] = at[i - 1] + u[i].len /\ Backed(u[i], base, lits, x, at[i - 1])
  <2>1. i \in 0 .. n + l /\ i - 1 \in 0 .. n + l
    BY <1>5
  <2>2. CASE i <= n
    <3>1. i \in 1 .. n /\ at[i] = f[i] /\ at[i - 1] = f[i - 1] /\ u[i] = s[i]
      BY <1>5, <2>1, <2>2
    <3> HIDE DEF at
    <3> QED BY <1>2, <1>4, <1>6, <3>1
  <2>3. CASE ~(i <= n)
    <3>1. i - n \in 1 .. l /\ at[i] = g[i - n] /\ u[i] = t[i - n]
      BY <1>5, <2>1, <2>3
    <3>2. at[i - 1] = g[(i - n) - 1]
      <4>1. CASE i = n + 1
        <5>1. i - 1 = n /\ (i - n) - 1 = 0
          BY <1>5, <4>1
        <5> QED BY <1>5, <1>6, <1>7, <2>1, <5>1
      <4>2. CASE i # n + 1
        <5>1. ~(i - 1 <= n) /\ (i - 1) - n = (i - n) - 1
          BY <1>5, <2>3, <4>2
        <5> QED BY <2>1, <5>1
      <4> QED BY <4>1, <4>2
    <3> HIDE DEF at
    <3> QED BY <1>3, <1>4, <1>7, <3>1, <3>2
  <2> QED BY <2>2, <2>3
<1> HIDE DEF at
<1>10. EndToEnd(u, a, at) /\ at[Len(u)] = c /\ \A i \in 1 .. Len(u) : Backed(u[i], base, lits, x, at[i - 1])
  BY <1>5, <1>8, <1>9 DEF EndToEnd
<1> QED BY <1>4, <1>5, <1>10 DEF Lies

\* One more delta's literals.
LEMMA BackedStill ==
  ASSUME NEW s, NEW base, NEW lits \in Seq(Seq(Byte)), NEW l \in Seq(Byte), NEW x, NEW q,
         Backed(s, base, lits, x, q)
  PROVE  Backed(s, base, Append(lits, l), x, q)
<1>1. Len(Append(lits, l)) = Len(lits) + 1 /\ Len(lits) \in Nat
  BY AppendProperties
<1>2. \A i \in 1 .. Len(lits) : Append(lits, l)[i] = lits[i]
  BY AppendProperties
<1>3. 1 .. Len(lits) \subseteq 1 .. Len(Append(lits, l))
  BY <1>1
<1> QED BY <1>2, <1>3 DEF Backed

\* take bytes of y from m on lie in segment b, and are those of x from r on.
PieceOf(b, base, lits, y, o, x, m, take, r) ==
  /\ base \in Seq(Byte) /\ lits \in Seq(Seq(Byte)) /\ y \in Seq(Byte) /\ x \in Seq(Byte)
  /\ Backed(b, base, lits, y, o) /\ b.targetOff = o /\ o \in Nat
  /\ m \in Nat /\ take \in Nat /\ take # 0 /\ r \in Nat
  /\ o <= m /\ m + take <= o + b.len /\ Same(y, m, x, r, take)

\* That part of the segment, as Rewrite cuts it out, describes those bytes.
LEMMA PieceIs ==
  ASSUME NEW b, NEW base, NEW lits, NEW y, NEW o, NEW x, NEW m, NEW take, NEW r,
         PieceOf(b, base, lits, y, o, x, m, take, r)
  PROVE  Backed(Piece(b, m, take), base, lits, x, r) /\ Piece(b, m, take).len = take
<1>1. /\ base \in Seq(Byte) /\ lits \in Seq(Seq(Byte)) /\ y \in Seq(Byte) /\ x \in Seq(Byte)
      /\ Backed(b, base, lits, y, o) /\ b.targetOff = o /\ o \in Nat
      /\ m \in Nat /\ take \in Nat /\ take # 0 /\ r \in Nat
      /\ o <= m /\ m + take <= o + b.len /\ Same(y, m, x, r, take)
  BY DEF PieceOf
<1>2. /\ b \in Segment /\ b.len \in Nat /\ b.srcOff \in Nat /\ b.addSrc \in Nat /\ b.kind \in {"COPY", "ADD"}
  BY <1>1 DEF Backed, Segment
<1>3. PICK a : a = m - o
  OBVIOUS
<1>4. a \in Nat /\ o + a = m /\ a + take <= b.len /\ b.srcOff + a \in Nat
  <2>1. /\ o \in Nat /\ m \in Nat /\ take \in Nat /\ b.len \in Nat /\ b.srcOff \in Nat
        /\ o <= m /\ m + take <= o + b.len
    BY <1>1, <1>2
  <2> QED BY <1>3, <2>1
<1>5. PICK s : s = Piece(b, m, take)
  OBVIOUS
<1>6. /\ s.kind = b.kind /\ s.len = take /\ s.srcOff = b.srcOff + a /\ s.addSrc = b.addSrc /\ s.targetOff = 0
      /\ s = [kind |-> b.kind, len |-> take, srcOff |-> b.srcOff + a, addSrc |-> b.addSrc, targetOff |-> 0]
  BY <1>1, <1>3, <1>5 DEF Piece, Seg
<1>7. s \in Segment
  BY <1>1, <1>2, <1>4, <1>6 DEF Segment
<1>8. ASSUME NEW src \in Seq(Byte), Same(src, b.srcOff, y, o, b.len)
      PROVE  Same(src, b.srcOff + a, x, r, take)
  <2>1. Len(src) \in Nat /\ Len(y) \in Nat
    BY <1>1, <1>8
  <2>2. Same(src, b.srcOff + a, y, o + a, take)
    BY <1>1, <1>2, <1>4, <1>8, <2>1, SamePart
  <2>3. Same(src, b.srcOff + a, y, m, take)
    BY <1>4, <2>2
  <2> QED BY <1>1, <2>3, SameTwice
<1>9. s.kind = "COPY" => Same(base, s.srcOff, x, r, s.len)
  BY <1>1, <1>6, <1>8 DEF Backed
<1>10. s.kind = "ADD" => s.addSrc \in 1 .. Len(lits) /\ Same(lits[s.addSrc], s.srcOff, x, r, s.len)
  <2>1. SUFFICES ASSUME s.kind = "ADD"
                 PROVE  s.addSrc \in 1 .. Len(lits) /\ Same(lits[s.addSrc], s.srcOff, x, r, s.len)
    OBVIOUS
  <2>2. b.addSrc \in 1 .. Len(lits) /\ Same(lits[b.addSrc], b.srcOff, y, o, b.len)
    BY <1>1, <1>6, <2>1 DEF Backed
  <2>3. lits[b.addSrc] \in Seq(Byte)
    BY <1>1, <2>2, ElementOfSeq
  <2> QED BY <1>6, <1>8, <2>2, <2>3
<1>11. Backed(s, base, lits, x, r)
  BY <1>1, <1>6, <1>7, <1>9, <1>10 DEF Backed
<1> QED BY <1>5, <1>6, <1>11

\* A COPY of n bytes of y from `from` on, which are those of x from q on, goes
\* over a map that serves y.
CopyOver(m, base, lits, y, from, n, x, q) ==
  /\ Serves(m, base, lits, y) /\ x \in Seq(Byte)
  /\ from \in Nat /\ n \in Nat /\ q \in Nat /\ Same(y, from, x, q, n)

\* Its pieces describe the same bytes.
LEMMA RewriteIs ==
  ASSUME NEW m, NEW base, NEW lits, NEW y, NEW from, NEW n, NEW x, NEW q,
         CopyOver(m, base, lits, y, from, n, x, q)
  PROVE  Rewrite(m.segs, from, n) # Gap /\ Lies(Rewrite(m.segs, from, n), base, lits, x, q, q + n)
<1> DEFINE B == m.segs
           N == Len(B)
<1>0. /\ Serves(m, base, lits, y) /\ x \in Seq(Byte)
      /\ from \in Nat /\ n \in Nat /\ q \in Nat /\ Same(y, from, x, q, n)
  BY DEF CopyOver
<1>1. /\ base \in Seq(Byte) /\ lits \in Seq(Seq(Byte)) /\ y \in Seq(Byte) /\ Len(y) \in Nat
      /\ B \in Seq(Segment) /\ N \in Nat /\ DOMAIN B = 1 .. N
  BY <1>0 DEF Serves
<1>2. PICK at : /\ EndToEnd(B, 0, at) /\ at[N] = Len(y)
                /\ \A i \in 1 .. N : /\ B[i].targetOff = at[i - 1]
                                     /\ Backed(B[i], base, lits, y, at[i - 1])
  BY <1>0 DEF Serves
<1> HIDE DEF B
<1>3. /\ at \in [0 .. N -> Nat] /\ at[0] = 0 /\ \A i \in 1 .. N : at[i] = at[i - 1] + B[i].len
  BY <1>2 DEF EndToEnd
<1>4. \A i \in 1 .. N : B[i] \in Segment /\ B[i].len \in Nat /\ B[i].len # 0
  BY <1>2 DEF Backed, Segment
<1>5. \A i \in 1 .. N : at[i - 1] \in Nat /\ at[i] \in Nat /\ at[i - 1] < at[i]
  <2>1. ASSUME NEW i \in 1 .. N PROVE at[i - 1] \in Nat /\ at[i] \in Nat /\ at[i - 1] < at[i]
    <3>1. i - 1 \in 0 .. N /\ i \in 0 .. N
      BY <1>1
    <3>2. at[i - 1] \in Nat /\ at[i] = at[i - 1] + B[i].len /\ B[i].len \in Nat /\ B[i].len # 0
      BY <1>3, <1>4, <3>1
    <3> QED BY <3>2
  <2> QED BY <2>1
<1>6. from + n <= Len(y) /\ q + n <= Len(x) /\ Len(x) \in Nat
  BY <1>0 DEF Same
<1> HIDE DEF N
<1> DEFINE D == (1 .. N + 1) \X (0 .. n)
           T == Seq(Segment) \cup {Gap}
           M(k) == from + n - k
           Take(i, k) == Min({B[i].targetOff + B[i].len, M(k) + k}) - M(k)
           Bad(i, k) == M(k) < B[i].targetOff \/ Take(i, k) <= 0
           P(i, k) == <<Piece(B[i], M(k), Take(i, k))>>
           Eq(r) == r = [e \in D |->
                           IF e[2] = 0 THEN << >>
                           ELSE IF e[1] > N THEN Gap
                           ELSE IF Bad(e[1], e[2]) THEN Gap
                           ELSE IF r[<<e[1] + 1, e[2] - Take(e[1], e[2])>>] = Gap THEN Gap
                           ELSE P(e[1], e[2]) \o r[<<e[1] + 1, e[2] - Take(e[1], e[2])>>]]
           walk == CHOOSE r : Eq(r)
<1>7. Rewrite(B, from, n) = walk[<<SegAt(B, from), n>>]
  BY DEF Rewrite, N
<1>8. \A s \in Seq(Segment) : s # Gap
  <2>1. SUFFICES ASSUME Gap \in Seq(Segment) PROVE FALSE
    OBVIOUS
  <2>2. Len(Gap) = 1 /\ Gap[1].kind = "GAP"
    BY DEF Gap, Seg
  <2>3. Gap[1] \in Segment
    <3>1. 1 \in 1 .. Len(Gap)
      BY <2>2
    <3> QED BY <2>1, <3>1, ElementOfSeq
  <2> QED BY <2>2, <2>3 DEF Segment
\* One step of the walk.
<1>9. ASSUME NEW i \in 1 .. N, NEW k \in 0 .. n, k # 0, ~(M(k) < B[i].targetOff)
      PROVE  LET t == Take(i, k)
             IN  /\ t \in Int /\ t <= k /\ M(k) \in Nat /\ M(k) + t <= at[i]
                 /\ t = k \/ M(k) + t = at[i]
                 /\ M(k) < at[i] => t > 0
                 /\ t > 0 => /\ Backed(Piece(B[i], M(k), t), base, lits, x, q + n - k)
                             /\ Piece(B[i], M(k), t).len = t
  <2>1. PICK mm, t : mm = M(k) /\ t = Take(i, k)
    OBVIOUS
  <2>2. mm \in Nat /\ k \in Nat /\ k <= n /\ mm + k = from + n
    BY <1>0, <2>1
  <2>3. /\ at[i - 1] \in Nat /\ at[i] \in Nat /\ B[i].targetOff = at[i - 1] /\ B[i].len \in Nat
        /\ at[i] = at[i - 1] + B[i].len
    BY <1>2, <1>3, <1>4, <1>5
  <2>4. at[i - 1] <= mm
    BY <1>9, <2>1, <2>2, <2>3
  <2>5. PICK u : u = Min({B[i].targetOff + B[i].len, M(k) + k})
    OBVIOUS
  <2>6. u \in Int /\ u <= at[i] /\ u <= mm + k /\ (u = at[i] \/ u = mm + k)
    <3>1. B[i].targetOff + B[i].len \in Int /\ M(k) + k \in Int
      BY <2>1, <2>2, <2>3
    <3>2. /\ u \in Int /\ u <= B[i].targetOff + B[i].len /\ u <= M(k) + k
          /\ (u = B[i].targetOff + B[i].len \/ u = M(k) + k)
      BY <2>5, <3>1, MinOf
    <3> HIDE DEF M
    <3> QED BY <2>1, <2>3, <3>2
  <2>7. t = u - mm
    BY <2>1, <2>5
  <2>8. t \in Int /\ t <= k /\ mm + t <= at[i] /\ (t = k \/ mm + t = at[i]) /\ (mm < at[i] => t > 0)
    BY <1>9, <2>2, <2>3, <2>6, <2>7
  <2>9. ASSUME t > 0
        PROVE  Backed(Piece(B[i], mm, t), base, lits, x, q + n - k) /\ Piece(B[i], mm, t).len = t
    <3>1. PICK a : a = n - k
      OBVIOUS
    <3>2. t \in Nat /\ t # 0 /\ a \in Nat /\ a + t <= n /\ from + a = mm /\ q + a \in Nat /\ q + a = q + n - k
      BY <1>0, <2>2, <2>8, <2>9, <3>1
    <3>3. Same(y, from + a, x, q + a, t)
      BY <1>0, <1>1, <1>6, <3>2, SamePart
    <3>4. Same(y, mm, x, q + a, t)
      BY <3>2, <3>3
    <3>5. mm + t <= at[i - 1] + B[i].len
      BY <2>3, <2>8
    <3>6. PieceOf(B[i], base, lits, y, at[i - 1], x, mm, t, q + a)
      BY <1>0, <1>1, <1>2, <2>2, <2>3, <2>4, <3>2, <3>4, <3>5 DEF PieceOf
    <3> QED BY <3>2, <3>6, PieceIs
  <2> HIDE DEF M, Take
  <2> QED BY <2>1, <2>2, <2>8, <2>9
<1> HIDE DEF P
<1>10. ASSUME NEW i \in 1 .. N, NEW k \in 0 .. n, k # 0, ~Bad(i, k)
       PROVE  /\ Take(i, k) \in 1 .. k /\ P(i, k) \in Seq(Segment)
              /\ i + 1 \in 1 .. N + 1 /\ k - Take(i, k) \in 0 .. n
              /\ Lies(P(i, k), base, lits, x, q + n - k, q + n - k + Take(i, k))
  <2>1. ~(M(k) < B[i].targetOff) /\ ~(Take(i, k) <= 0)
    BY <1>10
  <2> HIDE DEF M, Take, Bad
  <2>2. PICK t : t = Take(i, k)
    OBVIOUS
  <2>3. /\ t \in Int /\ t <= k
        /\ t > 0 => Backed(Piece(B[i], M(k), t), base, lits, x, q + n - k) /\ Piece(B[i], M(k), t).len = t
    BY <1>9, <1>10, <2>1, <2>2
  <2>4. t > 0 /\ t \in 1 .. k /\ k \in Nat /\ k <= n
    BY <1>0, <2>1, <2>2, <2>3
  <2>5. P(i, k) = <<Piece(B[i], M(k), t)>>
    BY <2>2 DEF P
  <2>6. q + n - k \in Nat
    BY <1>0, <2>4
  <2>7. Lies(P(i, k), base, lits, x, q + n - k, q + n - k + t)
    <3>1. PICK z, c : z = Piece(B[i], M(k), t) /\ c = q + n - k
      OBVIOUS
    <3>2. Backed(z, base, lits, x, c) /\ z.len = t /\ c \in Nat
      BY <2>3, <2>4, <2>6, <3>1
    <3>3. Lies(<<z>>, base, lits, x, c, c + z.len)
      BY <3>2, LiesOne
    <3> QED BY <2>5, <3>1, <3>2, <3>3
  <2>8. P(i, k) \in Seq(Segment)
    BY <2>7 DEF Lies
  <2>9. i + 1 \in 1 .. N + 1 /\ k - t \in 0 .. n
    BY <1>0, <1>1, <2>4 DEF N
  <2> QED BY <2>2, <2>4, <2>7, <2>8, <2>9
<1> HIDE DEF M, Take, Bad
<1>11. \E r : Eq(r)
  <2> DEFINE stop == {e \in D : e[2] = 0 \/ e[1] > N \/ Bad(e[1], e[2])}
             mu == [e \in D |-> e[2]]
             leaf == [e \in D |-> IF e[2] = 0 THEN << >> ELSE Gap]
             next == [e \in D |-> <<e[1] + 1, e[2] - Take(e[1], e[2])>>]
             comb == [e \in D |-> [t \in T |-> IF t = Gap THEN Gap ELSE P(e[1], e[2]) \o t]]
  <2>1. ASSUME NEW e \in D \ stop
        PROVE  next[e] \in D /\ mu[next[e]] < mu[e] /\ comb[e] \in [T -> T]
    <3>1. PICK i \in 1 .. N + 1, k \in 0 .. n : e = <<i, k>>
      OBVIOUS
    <3>2. i \in 1 .. N /\ k # 0 /\ ~Bad(i, k) /\ e[1] = i /\ e[2] = k /\ e \in D
      BY <1>1, <3>1 DEF N
    <3>3. /\ Take(i, k) \in 1 .. k /\ P(i, k) \in Seq(Segment)
          /\ i + 1 \in 1 .. N + 1 /\ k - Take(i, k) \in 0 .. n
      BY <1>10, <3>2
    <3>4. next[e] = <<i + 1, k - Take(i, k)>> /\ next[e] \in D
      BY <3>2, <3>3
    <3>5. mu[next[e]] = k - Take(i, k) /\ mu[e] = k /\ k - Take(i, k) < k
      BY <1>0, <3>2, <3>3, <3>4
    <3>6. \A t \in Seq(Segment) : P(i, k) \o t \in Seq(Segment)
      BY <3>3, ConcatProperties
    <3>7. comb[e] = [t \in T |-> IF t = Gap THEN Gap ELSE P(i, k) \o t]
      BY <3>2
    <3>8. comb[e] \in [T -> T]
      BY <3>6, <3>7
    <3> QED BY <3>4, <3>5, <3>8
  <2>2. mu \in [D -> Nat] /\ leaf \in [D -> T]
    <3>1. \A e \in D : e[2] \in Nat
      BY <1>0
    <3>2. << >> \in T /\ Gap \in T
      OBVIOUS
    <3> QED BY <3>1, <3>2
  <2>3. Decreases(D, T, mu, stop, leaf, next, comb)
    <3> HIDE DEF D, T, stop, mu, leaf, next, comb
    <3> QED BY <2>1, <2>2 DEF Decreases
  <2>4. PICK f : Recurs(D, T, stop, leaf, next, comb, f)
    <3> HIDE DEF D, T, stop, mu, leaf, next, comb
    <3> QED BY <2>3, Recursion
  <2>5. ASSUME NEW e \in D
        PROVE  f[e] = IF e[2] = 0 THEN << >>
                      ELSE IF e[1] > N THEN Gap
                      ELSE IF Bad(e[1], e[2]) THEN Gap
                      ELSE IF f[<<e[1] + 1, e[2] - Take(e[1], e[2])>>] = Gap THEN Gap
                      ELSE P(e[1], e[2]) \o f[<<e[1] + 1, e[2] - Take(e[1], e[2])>>]
    <3>1. CASE e \in stop
      <4>1. f[e] = leaf[e]
        BY <2>4, <3>1 DEF Recurs
      <4> QED BY <3>1, <4>1
    <3>2. CASE e \notin stop
      <4>1. next[e] \in D /\ next[e] = <<e[1] + 1, e[2] - Take(e[1], e[2])>>
        BY <2>1, <3>2
      <4>2. f[e] = comb[e][f[next[e]]] /\ f[next[e]] \in T
        BY <2>4, <3>2, <4>1 DEF Recurs
      <4>3. f[e] = IF f[next[e]] = Gap THEN Gap ELSE P(e[1], e[2]) \o f[next[e]]
        BY <4>2
      <4> HIDE DEF next, comb, leaf, mu
      <4> QED BY <3>2, <4>1, <4>3
    <3> QED BY <3>1, <3>2
  <2>6. f = [e \in D |-> f[e]]
    BY <2>4 DEF Recurs
  <2>7. Eq(f)
    BY <2>5, <2>6, Zenon
  <2> QED BY <2>7
<1>12. Eq(walk)
  BY <1>11
<1> HIDE DEF walk
<1> DEFINE In(i, k) == k = 0 \/ (i \in 1 .. N /\ at[i - 1] <= M(k) /\ M(k) < at[i])
           Good(i, k) == Lies(walk[<<i, k>>], base, lits, x, q + n - k, q + n)
           Done == {k \in Nat : k <= n => \A i \in 1 .. N + 1 : In(i, k) => Good(i, k)}
<1>13. ASSUME NEW k \in Nat, \A l \in Nat : l < k => l \in Done PROVE k \in Done
  <2>1. SUFFICES ASSUME k <= n, NEW i \in 1 .. N + 1, In(i, k) PROVE Good(i, k)
    OBVIOUS
  <2>2. k \in 0 .. n /\ <<i, k>> \in D /\ <<i, k>>[1] = i /\ <<i, k>>[2] = k
    BY <1>0, <2>1
  <2>3. walk[<<i, k>>] = IF k = 0 THEN << >> ELSE IF i > N THEN Gap ELSE IF Bad(i, k) THEN Gap
                         ELSE IF walk[<<i + 1, k - Take(i, k)>>] = Gap THEN Gap
                         ELSE P(i, k) \o walk[<<i + 1, k - Take(i, k)>>]
    <3> HIDE DEF D
    <3> QED BY <1>12, <2>2
  <2>4. q + n - k \in Nat
    BY <1>0, <2>1
  <2>5. CASE k = 0
    <3>1. walk[<<i, k>>] = << >>
      BY <2>3, <2>5
    <3>2. q + n - k = q + n /\ q + n \in Nat
      BY <1>0, <2>5
    <3> QED BY <3>1, <3>2, LiesNone
  <2>6. CASE k # 0
    <3>1. i \in 1 .. N /\ at[i - 1] <= M(k) /\ M(k) < at[i]
      BY <2>1, <2>6
    <3>2. PICK t, mm : t = Take(i, k) /\ mm = M(k)
      OBVIOUS
    <3>3. mm \in Nat /\ mm + k = from + n
      BY <1>0, <2>1, <3>2 DEF M
    <3>4. at[i - 1] \in Nat /\ at[i] \in Nat /\ B[i].targetOff = at[i - 1]
      BY <1>2, <1>5, <3>1
    <3>5. ~(M(k) < B[i].targetOff)
      BY <3>1, <3>2, <3>3, <3>4
    <3>6. t \in Int /\ t <= k /\ mm + t <= at[i] /\ (t = k \/ mm + t = at[i]) /\ t > 0
      <4>1. LET e == Take(i, k)
            IN  /\ e \in Int /\ e <= k /\ M(k) \in Nat /\ M(k) + e <= at[i]
                /\ e = k \/ M(k) + e = at[i]
                /\ M(k) < at[i] => e > 0
        BY <1>9, <2>2, <2>6, <3>1, <3>5
      <4> QED BY <3>1, <3>2, <4>1
    <3>7. ~Bad(i, k)
      BY <3>2, <3>5, <3>6 DEF Bad
    <3>8. Lies(P(i, k), base, lits, x, q + n - k, q + n - k + t)
      BY <1>10, <2>2, <2>6, <3>1, <3>2, <3>7
    <3>9. ~(i > N)
      BY <1>1, <3>1 DEF N
    <3>10. PICK rest : rest = walk[<<i + 1, k - t>>]
      OBVIOUS
    <3>11. walk[<<i, k>>] = IF rest = Gap THEN Gap ELSE P(i, k) \o rest
      BY <2>3, <2>6, <3>2, <3>7, <3>9, <3>10
    <3>12. k - t \in Nat /\ k - t < k /\ k - t <= n /\ i + 1 \in 1 .. N + 1
      BY <1>0, <1>1, <2>1, <3>1, <3>6 DEF N
    <3>13. M(k - t) = mm + t
      BY <1>0, <2>1, <3>2, <3>3, <3>6 DEF M
    <3>14. In(i + 1, k - t)
      <4>1. CASE t = k
        BY <3>6, <4>1
      <4>2. CASE t # k
        <5>1. mm + t = at[i] /\ at[i] < Len(y)
          BY <1>0, <1>1, <1>6, <2>1, <3>3, <3>6, <4>2
        <5>2. i # N
          BY <1>1, <1>2, <5>1
        <5>3. i + 1 \in 1 .. N /\ (i + 1) - 1 = i
          <6>1. N \in Nat
            BY <1>1 DEF N
          <6> QED BY <3>1, <5>2, <6>1
        <5>4. at[i] < at[i + 1]
          BY <1>5, <5>3
        <5> QED BY <3>4, <3>13, <5>1, <5>3, <5>4
      <4> QED BY <4>1, <4>2
    <3>15. Good(i + 1, k - t)
      <4>1. k - t \in Done
        BY <1>13, <3>12
      <4> HIDE DEF Good, In
      <4> QED BY <3>12, <3>14, <4>1
    <3>16. Lies(rest, base, lits, x, q + n - k + t, q + n)
      <4>1. q + n - (k - t) = q + n - k + t
        BY <1>0, <2>1, <3>6
      <4>2. Lies(rest, base, lits, x, q + n - (k - t), q + n)
        BY <3>10, <3>15
      <4> QED BY <4>1, <4>2
    <3>17. rest # Gap
      BY <1>8, <3>16 DEF Lies
    <3>18. Meet(P(i, k), rest, base, lits, x, q + n - k, q + n - k + t, q + n)
      BY <3>8, <3>16 DEF Meet
    <3>19. Lies(P(i, k) \o rest, base, lits, x, q + n - k, q + n)
      BY <3>18, LiesJoin
    <3> QED BY <3>11, <3>17, <3>19
  <2> QED BY <2>5, <2>6
<1> HIDE DEF Done, Good, In
<1>14. n \in Done
  BY <1>0, <1>13, StrongInduction
<1>15. SegAt(B, from) \in 1 .. N + 1 /\ In(SegAt(B, from), n)
  <2>1. {e \in DOMAIN B : B[e].targetOff <= from} = {e \in 1 .. N : at[e - 1] <= from}
    BY <1>1, <1>2 DEF N
  <2> DEFINE i == Max({1} \cup {e \in 1 .. N : at[e - 1] <= from})
  <2>2. SegAt(B, from) = i
    BY <2>1 DEF SegAt
  <2>3. CASE n = 0
    <3>1. {1} \cup {e \in 1 .. N : at[e - 1] <= from} \subseteq 0 .. N + 1
      BY <1>1 DEF N
    <3>2. N + 1 \in Nat
      BY <1>1 DEF N
    <3>3. i \in {1} \cup {e \in 1 .. N : at[e - 1] <= from}
      BY <3>1, <3>2, Greatest
    <3>4. i \in 1 .. N + 1
      <4> HIDE DEF i
      <4> QED BY <1>1, <3>3 DEF N
    <3> HIDE DEF i
    <3> QED BY <2>2, <2>3, <3>4 DEF In
  <2>4. CASE n # 0
    <3>1. from < at[N] /\ N # 0
      BY <1>0, <1>1, <1>2, <1>3, <1>6, <2>4
    <3>2. N \in Nat
      BY <1>1 DEF N
    <3>3. i \in 1 .. N /\ at[i - 1] <= from /\ from < at[i]
      BY <1>0, <1>3, <3>1, <3>2, RangeOf
    <3>4. M(n) = from
      BY <1>0 DEF M
    <3> HIDE DEF i
    <3>5. i \in 1 .. N + 1
      BY <3>2, <3>3
    <3> QED BY <2>2, <3>3, <3>4, <3>5 DEF In
  <2> QED BY <2>3, <2>4
<1>16. Good(SegAt(B, from), n)
  BY <1>0, <1>14, <1>15 DEF Done
<1>17. q + n - n = q
  BY <1>0
<1>18. Lies(Rewrite(B, from, n), base, lits, x, q, q + n)
  BY <1>7, <1>16, <1>17 DEF Good
<1>19. Rewrite(B, from, n) # Gap
  BY <1>8, <1>18 DEF Lies
<1> QED BY <1>18, <1>19 DEF B

-----------------------------------------------------------------------------
(***************************************************************************)
(* Composing: a delta over what is below it.                               *)
(***************************************************************************)
LEMMA LiesStill ==
  ASSUME NEW s, NEW base, NEW lits \in Seq(Seq(Byte)), NEW l \in Seq(Byte), NEW x, NEW a, NEW b,
         Lies(s, base, lits, x, a, b)
  PROVE  Lies(s, base, Append(lits, l), x, a, b)
<1>1. PICK at : /\ EndToEnd(s, a, at) /\ at[Len(s)] = b
                /\ \A i \in 1 .. Len(s) : Backed(s[i], base, lits, x, at[i - 1])
  BY DEF Lies
<1>2. \A i \in 1 .. Len(s) : Backed(s[i], base, Append(lits, l), x, at[i - 1])
  BY <1>1, BackedStill
<1> QED BY <1>1, <1>2 DEF Lies

\* Run after run, the first at 0.
Chained(parts, at, base, lits, x) ==
  /\ parts \in Seq(Seq(Segment)) /\ at \in [0 .. Len(parts) -> Nat] /\ at[0] = 0
  /\ \A i \in 1 .. Len(parts) : Lies(parts[i], base, lits, x, at[i - 1], at[i])

\* Flattened, they describe all of it.
LEMMA ChainLies ==
  ASSUME NEW parts, NEW at, NEW base, NEW lits, NEW x, Chained(parts, at, base, lits, x)
  PROVE  Lies(FlattenSeq(parts), base, lits, x, 0, at[Len(parts)])
<1> DEFINE n == Len(parts)
           T == Seq(Segment)
           op == [i \in 1 .. n |-> [t \in T |-> t \o parts[i]]]
<1>1. /\ parts \in Seq(Seq(Segment)) /\ n \in Nat /\ at \in [0 .. n -> Nat] /\ at[0] = 0
      /\ \A i \in 1 .. n : parts[i] \in Seq(Segment)
  BY DEF Chained
<1>2. << >> \in T /\ \A i \in 1 .. n : op[i] \in [T -> T]
  BY <1>1, ConcatProperties
<1>3. PICK acc : Totals(n, T, << >>, op, acc)
  <2> HIDE DEF op, n, T
  <2> QED BY <1>1, <1>2, Accumulates, Zenon
<1>4. acc \in [0 .. n -> T] /\ acc[0] = << >> /\ \A i \in 1 .. n : acc[i] = acc[i - 1] \o parts[i]
  <2>1. ASSUME NEW i \in 1 .. n PROVE acc[i] = acc[i - 1] \o parts[i]
    <3>1. i - 1 \in 0 .. n /\ acc \in [0 .. n -> T]
      BY <1>1, <1>3 DEF Totals
    <3>2. acc[i - 1] \in T /\ acc[i] = op[i][acc[i - 1]]
      BY <1>3, <3>1 DEF Totals
    <3> QED BY <3>2
  <2> QED BY <1>3, <2>1 DEF Totals
<1> HIDE DEF n, op
<1> DEFINE Done == {i \in Nat : i <= n => Lies(acc[i], base, lits, x, 0, at[i])}
<1>5. 0 \in Done
  BY <1>1, <1>4, LiesNone
<1>6. ASSUME NEW i \in Nat, i \in Done PROVE i + 1 \in Done
  <2>1. SUFFICES ASSUME i + 1 <= n PROVE Lies(acc[i + 1], base, lits, x, 0, at[i + 1])
    OBVIOUS
  <2>2. i + 1 \in 1 .. n /\ (i + 1) - 1 = i /\ i <= n
    BY <1>1, <2>1 DEF n
  <2>3. Lies(acc[i], base, lits, x, 0, at[i])
    BY <1>6, <2>2
  <2>4. Lies(parts[i + 1], base, lits, x, at[i], at[i + 1])
    BY <2>2 DEF Chained, n
  <2>5. Meet(acc[i], parts[i + 1], base, lits, x, 0, at[i], at[i + 1])
    BY <2>3, <2>4 DEF Meet
  <2>6. acc[i + 1] = acc[i] \o parts[i + 1]
    BY <1>4, <2>2
  <2> QED BY <2>5, <2>6, LiesJoin
<1> HIDE DEF Done
<1>7. n \in Done
  BY <1>1, <1>5, <1>6, Induction DEF n
<1>8. Lies(acc[n], base, lits, x, 0, at[n])
  BY <1>1, <1>7 DEF Done, n
<1>9. FlattenSeq(parts) = acc[n]
  BY <1>1, <1>4, FlattenIs DEF n
<1> QED BY <1>8, <1>9 DEF n

\* Segments that lie end to end serve what they describe.
LEMMA SumsServe ==
  ASSUME NEW s, NEW base, NEW lits, NEW x \in Seq(Byte), Lies(s, base, lits, x, 0, Len(x))
  PROVE  /\ SizeOf(s) = Len(x) /\ PrefixSums(s) \in Seq(Segment)
         /\ \E at : /\ EndToEnd(PrefixSums(s), 0, at) /\ at[Len(PrefixSums(s))] = Len(x)
                    /\ \A i \in 1 .. Len(PrefixSums(s)) :
                         /\ PrefixSums(s)[i].targetOff = at[i - 1]
                         /\ Backed(PrefixSums(s)[i], base, lits, x, at[i - 1])
<1>1. s \in Seq(Segment) /\ Len(s) \in Nat /\ DOMAIN s = 1 .. Len(s)
  BY DEF Lies
<1>2. PICK at : /\ EndToEnd(s, 0, at) /\ at[Len(s)] = Len(x)
                /\ \A i \in 1 .. Len(s) : Backed(s[i], base, lits, x, at[i - 1])
  BY DEF Lies
<1>3. at \in [0 .. Len(s) -> Nat] /\ at[0] = 0 /\ \A i \in 1 .. Len(s) : at[i] = at[i - 1] + s[i].len
  BY <1>2 DEF EndToEnd
<1>4. \A i \in 1 .. Len(s) : s[i] \in Segment /\ s[i].len \in Nat
  BY <1>2 DEF Backed, Segment
<1>5. SizeOf(s) = Len(x)
  BY <1>1, <1>2, <1>4, SizeIs
<1>6. PICK u : u = PrefixSums(s)
  OBVIOUS
<1>7. u = [i \in 1 .. Len(s) |-> [s[i] EXCEPT !.targetOff = SizeOf(SubSeq(s, 1, i - 1))]]
  BY <1>1, <1>6 DEF PrefixSums
<1>8. ASSUME NEW i \in 1 .. Len(s)
      PROVE  /\ u[i] \in Segment /\ u[i].len = s[i].len /\ u[i].targetOff = at[i - 1]
             /\ Backed(u[i], base, lits, x, at[i - 1])
  <2>1. SizeOf(SubSeq(s, 1, i - 1)) = at[i - 1]
    <3>1. i \in 1 .. (Len(s) + 1)
      BY <1>1
    <3> QED BY <1>1, <1>2, <1>4, <3>1, PrefixIs
  <2>2. at[i - 1] \in Nat
    <3>1. i - 1 \in 0 .. Len(s)
      BY <1>1
    <3> QED BY <1>3, <3>1
  <2>3. u[i] = [s[i] EXCEPT !.targetOff = at[i - 1]]
    BY <1>7, <2>1
  <2>4. /\ u[i] \in Segment /\ u[i].kind = s[i].kind /\ u[i].len = s[i].len /\ u[i].srcOff = s[i].srcOff
        /\ u[i].addSrc = s[i].addSrc /\ u[i].targetOff = at[i - 1]
    BY <1>4, <2>2, <2>3 DEF Segment
  <2> QED BY <1>2, <2>4 DEF Backed
<1>9. u \in Seq(Segment) /\ Len(u) = Len(s)
  BY <1>1, <1>7, <1>8
<1>10. EndToEnd(u, 0, at)
  BY <1>3, <1>8, <1>9 DEF EndToEnd
<1> QED BY <1>2, <1>5, <1>6, <1>8, <1>9, <1>10

\* A segment of a delta file, before it is composed.
RawSegment == [kind : {"COPY", "ADD"}, len : Nat, srcOff : Nat]

\* The segments s describe the first b bytes of x over y and lits l.
Describes(s, y, l, x, b) ==
  /\ s \in Seq(RawSegment) /\ y \in Seq(Byte) /\ l \in Seq(Byte) /\ x \in Seq(Byte)
  /\ \E at : /\ EndToEnd(s, 0, at) /\ at[Len(s)] = b
             /\ \A i \in 1 .. Len(s) :
                  /\ s[i].len # 0
                  /\ s[i].kind = "COPY" => Same(y, s[i].srcOff, x, at[i - 1], s[i].len)
                  /\ s[i].kind = "ADD" => Same(l, s[i].srcOff, x, at[i - 1], s[i].len)

\* A delta as ParseDelta recovers it, with any number of frames.
DeltaFile ==
  [targetSize : Nat, baseSize : Nat, segs : Seq(RawSegment), blocks : {CutBlocks(l) : l \in Seq(Byte)}, frames : Int]

\* d makes x of y, with literals l.
Makes(d, y, l, x) ==
  /\ d \in DeltaFile /\ d.baseSize = Len(y) /\ d.targetSize = Len(x)
  /\ d.blocks = CutBlocks(l) /\ d.frames = Len(d.blocks)
  /\ Describes(d.segs, y, l, x, Len(x))

\* m is a source of y: the base itself, or a chain over it.
Source(m, base, lits, y) ==
  /\ m.adds \in Seq(DeltaFile) /\ Len(m.adds) = Len(lits) /\ m.size = Len(y)
  /\ base \in Seq(Byte) /\ lits \in Seq(Seq(Byte)) /\ y \in Seq(Byte)
  /\ IF lits = << >> THEN base = y ELSE Serves(m, base, lits, y)

\* How many blocks there are.
LEMMA BlocksCount ==
  ASSUME NEW x \in Seq(Byte)
  PROVE  Len(CutBlocks(x)) \in Nat
<1>1. Len(x) \in Nat /\ BlockSize \in Nat /\ BlockSize # 0
  BY DeltaAssumption
<1>2. Len(x) + BlockSize - 1 \in Nat
  BY <1>1
<1>3. (Len(x) + BlockSize - 1) \div BlockSize \in Nat
  BY <1>1, <1>2, Divided
<1> QED BY <1>3 DEF CutBlocks

\* d over the source m of y.
Over(d, m, base, lits, y, l, x) == Source(m, base, lits, y) /\ Makes(d, y, l, x)

\* The parts that Flatten makes of the segments of d describe x.
LEMMA FlattenLies ==
  ASSUME NEW d, NEW m, NEW base, NEW lits, NEW y, NEW l, NEW x, Over(d, m, base, lits, y, l, x)
  PROVE  /\ \A i \in DOMAIN Flatten(d, m) : Flatten(d, m)[i] # Gap
         /\ Lies(FlattenSeq(Flatten(d, m)), base, Append(lits, l), x, 0, Len(x))
         /\ SizeOf(d.segs) = Len(x)
<1> DEFINE s == d.segs
           n == Len(s)
           new == Append(lits, l)
<1>1. /\ m.adds \in Seq(DeltaFile) /\ Len(m.adds) = Len(lits)
      /\ base \in Seq(Byte) /\ lits \in Seq(Seq(Byte)) /\ y \in Seq(Byte)
      /\ s \in Seq(RawSegment) /\ l \in Seq(Byte) /\ x \in Seq(Byte)
  BY DEF Over, Source, Makes, Describes
<1>2. PICK at : /\ EndToEnd(s, 0, at) /\ at[n] = Len(x)
                /\ \A i \in 1 .. n :
                     /\ s[i].len # 0
                     /\ s[i].kind = "COPY" => Same(y, s[i].srcOff, x, at[i - 1], s[i].len)
                     /\ s[i].kind = "ADD" => Same(l, s[i].srcOff, x, at[i - 1], s[i].len)
  BY DEF Over, Makes, Describes
<1>3. /\ n \in Nat /\ DOMAIN s = 1 .. n /\ at \in [0 .. n -> Nat] /\ at[0] = 0
      /\ \A i \in 1 .. n : at[i] = at[i - 1] + s[i].len
  BY <1>1, <1>2 DEF EndToEnd
<1>4. \A i \in 1 .. n : s[i] \in RawSegment /\ s[i].len \in Nat /\ s[i].srcOff \in Nat /\ s[i].kind \in {"COPY", "ADD"}
  <2>1. \A i \in 1 .. n : s[i] \in RawSegment
    BY <1>1, ElementOfSeq
  <2> QED BY <2>1 DEF RawSegment
<1>5. SizeOf(s) = Len(x)
  BY <1>2, <1>3, <1>4, SizeIs
<1>6. /\ new \in Seq(Seq(Byte)) /\ Len(new) = Len(lits) + 1 /\ new[Len(lits) + 1] = l
      /\ Len(lits) \in Nat /\ Len(lits) + 1 \in 1 .. Len(new)
  BY <1>1, AppendProperties
<1> HIDE DEF new
<1>7. PICK parts : parts = Flatten(d, m)
  OBVIOUS
<1> DEFINE flat(i) == IF s[i].kind = "ADD" THEN <<Seg("ADD", s[i].len, s[i].srcOff, Len(lits) + 1)>>
                      ELSE IF Len(lits) + 1 = 1 THEN <<Seg("COPY", s[i].len, s[i].srcOff, 0)>>
                      ELSE Rewrite(m.segs, s[i].srcOff, s[i].len)
<1>8. DOMAIN parts = 1 .. n /\ \A i \in 1 .. n : parts[i] = flat(i)
  BY <1>1, <1>3, <1>7 DEF Flatten
<1>9. ASSUME NEW i \in 1 .. n
      PROVE  parts[i] # Gap /\ Lies(parts[i], base, new, x, at[i - 1], at[i])
  <2>1. PICK c, e : c = at[i - 1] /\ e = s[i]
    OBVIOUS
  <2>2. /\ c \in Nat /\ at[i] = c + e.len /\ e.len \in Nat /\ e.len # 0 /\ e.srcOff \in Nat
        /\ e.kind \in {"COPY", "ADD"}
    <3>1. i - 1 \in 0 .. n
      BY <1>3
    <3> QED BY <1>2, <1>3, <1>4, <2>1, <3>1
  <2>3. ASSUME NEW z, Backed(z, base, new, x, c), z.len = e.len, parts[i] = <<z>>
        PROVE  parts[i] # Gap /\ Lies(parts[i], base, new, x, at[i - 1], at[i])
    <3>1. Lies(<<z>>, base, new, x, c, c + z.len)
      BY <2>2, <2>3, LiesOne
    <3>2. z.kind # "GAP"
      BY <2>3 DEF Backed, Segment
    <3>3. <<z>> # Gap
      BY <3>2 DEF Gap, Seg
    <3> QED BY <2>1, <2>2, <2>3, <3>1, <3>3
  <2>4. CASE e.kind = "ADD"
    <3>1. PICK z : z = Seg("ADD", e.len, e.srcOff, Len(lits) + 1)
      OBVIOUS
    <3>2. /\ z.kind = "ADD" /\ z.len = e.len /\ z.srcOff = e.srcOff /\ z.addSrc = Len(lits) + 1
          /\ z \in Segment
      BY <1>6, <2>2, <3>1 DEF Seg, Segment
    <3>3. Same(l, e.srcOff, x, c, e.len)
      BY <1>2, <2>1, <2>4
    <3>4. Backed(z, base, new, x, c)
      BY <1>6, <2>2, <3>2, <3>3 DEF Backed
    <3>5. parts[i] = <<z>>
      BY <1>8, <2>1, <2>4, <3>1
    <3> QED BY <2>3, <3>2, <3>4, <3>5
  <2>5. CASE e.kind = "COPY" /\ Len(lits) = 0
    <3>1. PICK z : z = Seg("COPY", e.len, e.srcOff, 0)
      OBVIOUS
    <3>2. z.kind = "COPY" /\ z.len = e.len /\ z.srcOff = e.srcOff /\ z \in Segment
      BY <2>2, <3>1 DEF Seg, Segment
    <3>3. base = y
      <4>1. lits = << >>
        BY <1>1, <2>5, EmptySeq
      <4> QED BY <4>1 DEF Over, Source
    <3>4. Same(base, e.srcOff, x, c, e.len)
      BY <1>2, <2>1, <2>5, <3>3
    <3>5. Backed(z, base, new, x, c)
      BY <2>2, <3>2, <3>4 DEF Backed
    <3>6. parts[i] = <<z>>
      <4>1. Len(lits) + 1 = 1 /\ s[i].kind # "ADD"
        BY <2>1, <2>5
      <4> QED BY <1>8, <2>1, <3>1, <4>1
    <3> QED BY <2>3, <3>2, <3>5, <3>6
  <2>6. CASE e.kind = "COPY" /\ Len(lits) # 0
    <3>1. Serves(m, base, lits, y)
      <4>1. lits # << >>
        BY <2>6
      <4> QED BY <4>1 DEF Over, Source
    <3>2. Same(y, e.srcOff, x, c, e.len)
      BY <1>2, <2>1, <2>6
    <3>3. CopyOver(m, base, lits, y, e.srcOff, e.len, x, c)
      BY <1>1, <2>2, <3>1, <3>2 DEF CopyOver
    <3>4. parts[i] = Rewrite(m.segs, e.srcOff, e.len)
      <4>1. Len(lits) + 1 # 1 /\ s[i].kind # "ADD"
        BY <1>6, <2>1, <2>6
      <4> QED BY <1>8, <2>1, <4>1
    <3>5. parts[i] # Gap /\ Lies(parts[i], base, lits, x, c, c + e.len)
      BY <3>3, <3>4, RewriteIs
    <3>6. Lies(parts[i], base, new, x, c, c + e.len)
      BY <1>1, <3>5, LiesStill DEF new
    <3> QED BY <2>1, <2>2, <3>5, <3>6
  <2> QED BY <2>2, <2>4, <2>5, <2>6
<1> HIDE DEF flat
<1>10. parts \in Seq(Seq(Segment)) /\ Len(parts) = n
  <2>1. \A i \in 1 .. n : parts[i] \in Seq(Segment)
    BY <1>9 DEF Lies
  <2>2. parts = [i \in 1 .. n |-> parts[i]]
    BY <1>7, <1>8 DEF Flatten
  <2>3. parts \in [1 .. n -> Seq(Segment)]
    BY <2>1, <2>2
  <2> QED BY <1>3, <2>3
<1>11. Chained(parts, at, base, new, x)
  BY <1>3, <1>9, <1>10 DEF Chained
<1>12. Lies(FlattenSeq(parts), base, new, x, 0, Len(x))
  BY <1>2, <1>10, <1>11, ChainLies
<1> QED BY <1>5, <1>7, <1>8, <1>9, <1>12 DEF new

\* Maps, refused ones among them.
FlatMap == [ok : BOOLEAN, size : Nat, segs : Seq(Segment), adds : Seq(DeltaFile)]

\* c is a source of x, made by d over m.
Created(c, d, m, base, lits, l, x) ==
  /\ c \in FlatMap /\ c.ok = TRUE /\ c.adds = Append(m.adds, d)
  /\ Append(lits, l) # << >> /\ Source(c, base, Append(lits, l), x)

\* Create accepts a delta over a source of the version it was made over, and
\* what comes of it is a source of the version it makes.
LEMMA CreateIs ==
  ASSUME NEW d, NEW m, NEW base, NEW lits, NEW y, NEW l, NEW x, Over(d, m, base, lits, y, l, x)
  PROVE  Created(Create(d, m), d, m, base, lits, l, x)
<1>1. /\ m.adds \in Seq(DeltaFile) /\ Len(m.adds) = Len(lits) /\ m.size = Len(y)
      /\ base \in Seq(Byte) /\ lits \in Seq(Seq(Byte)) /\ y \in Seq(Byte)
      /\ d \in DeltaFile /\ d.baseSize = Len(y) /\ d.targetSize = Len(x)
      /\ d.blocks = CutBlocks(l) /\ d.frames = Len(d.blocks)
      /\ l \in Seq(Byte) /\ x \in Seq(Byte)
  BY DEF Over, Source, Makes, Describes
<1>2. PICK flat, new : flat = FlattenSeq(Flatten(d, m)) /\ new = Append(lits, l)
  OBVIOUS
<1>3. /\ \A i \in DOMAIN Flatten(d, m) : Flatten(d, m)[i] # Gap
      /\ Lies(flat, base, new, x, 0, Len(x)) /\ SizeOf(d.segs) = Len(x)
  BY <1>2, FlattenLies
<1>4. SizeOf(flat) = Len(x)
  BY <1>1, <1>3, SumsServe
<1>5. Parses(d)
  <2>1. d.frames \in Nat
    BY <1>1, BlocksCount
  <2> QED BY <1>1, <1>3, <2>1 DEF Parses
<1>6. PICK c : c = Create(d, m)
  OBVIOUS
<1>7. c = [ok |-> TRUE, size |-> Len(x), segs |-> PrefixSums(flat), adds |-> Append(m.adds, d)]
  BY <1>1, <1>2, <1>3, <1>4, <1>5, <1>6 DEF Create, Compose
<1>8. c.ok = TRUE /\ c.size = Len(x) /\ c.segs = PrefixSums(flat) /\ c.adds = Append(m.adds, d)
  BY <1>7
<1>9. /\ c.adds \in Seq(DeltaFile) /\ Len(c.adds) = Len(m.adds) + 1
      /\ \A i \in 1 .. Len(m.adds) : c.adds[i] = m.adds[i]
      /\ c.adds[Len(m.adds) + 1] = d
  BY <1>1, <1>8, AppendProperties
<1>10. /\ new \in Seq(Seq(Byte)) /\ Len(new) = Len(lits) + 1 /\ new # << >> /\ Len(lits) \in Nat
       /\ \A i \in 1 .. Len(lits) : new[i] = lits[i]
       /\ new[Len(lits) + 1] = l
  BY <1>1, <1>2, AppendProperties
<1>11. ASSUME NEW a \in 1 .. Len(new)
       PROVE  c.adds[a].blocks = CutBlocks(new[a]) /\ c.adds[a].frames \in Int
  <2>1. CASE a = Len(lits) + 1
    <3>1. Len(CutBlocks(l)) \in Nat
      BY <1>1, BlocksCount
    <3> QED BY <1>1, <1>9, <1>10, <2>1, <3>1
  <2>2. CASE a # Len(lits) + 1
    <3>0. a \in 1 .. Len(lits)
      BY <1>10, <2>2
    <3>1. a \in 1 .. Len(lits) /\ c.adds[a] = m.adds[a] /\ new[a] = lits[a]
      BY <1>1, <1>9, <1>10, <3>0
    <3>2. lits # << >>
      BY <3>1
    <3>3. Serves(m, base, lits, y)
      BY <3>2 DEF Over, Source
    <3> QED BY <3>1, <3>3 DEF Serves
  <2> QED BY <2>1, <2>2
<1>12. Serves(c, base, new, x)
  <2>1. /\ PrefixSums(flat) \in Seq(Segment)
        /\ \E at : /\ EndToEnd(PrefixSums(flat), 0, at) /\ at[Len(PrefixSums(flat))] = Len(x)
                   /\ \A i \in 1 .. Len(PrefixSums(flat)) :
                        /\ PrefixSums(flat)[i].targetOff = at[i - 1]
                        /\ Backed(PrefixSums(flat)[i], base, new, x, at[i - 1])
    BY <1>1, <1>3, SumsServe
  <2> QED BY <1>1, <1>8, <1>10, <1>11, <2>1 DEF Serves
<1>13. Source(c, base, new, x)
  BY <1>1, <1>8, <1>9, <1>10, <1>12 DEF Source
<1>14. c \in FlatMap
  <2>1. PrefixSums(flat) \in Seq(Segment) /\ Append(m.adds, d) \in Seq(DeltaFile) /\ Len(x) \in Nat
    BY <1>1, <1>8, <1>9, <1>12 DEF Serves
  <2> QED BY <1>7, <2>1 DEF FlatMap
<1> QED BY <1>2, <1>6, <1>8, <1>10, <1>13, <1>14 DEF Created

-----------------------------------------------------------------------------
(***************************************************************************)
(* The rolling hash.                                                       *)
(***************************************************************************)
LEMMA Modulus ==
  /\ HashMod \in Nat /\ HashMod # 0 /\ RKR \in Nat /\ Anchor \in Nat /\ Anchor # 0
  /\ Byte \subseteq Nat
BY DeltaAssumption

\* Remainders: what they are, and that multiples of the modulus do not count.
LEMMA Remainder ==
  ASSUME NEW a \in Int, NEW m \in Nat, m # 0
  PROVE  /\ (a % m) \in 0 .. (m - 1) /\ (a \div m) \in Int
         /\ a = (a \div m) * m + (a % m)
OBVIOUS

\* Numbers a multiple of m apart have one remainder.
LEMMA SameRemainder ==
  ASSUME NEW a \in Int, NEW b \in Int, NEW q \in Int, NEW m \in Nat, m # 0, a = b + q * m
  PROVE  (a % m) = (b % m)
<1>1. PICK u, v, r, s : u = a \div m /\ v = b \div m /\ r = a % m /\ s = b % m
  OBVIOUS
<1>2. /\ u \in Int /\ v \in Int /\ r \in 0 .. (m - 1) /\ s \in 0 .. (m - 1)
      /\ a = u * m + r /\ b = v * m + s
  BY <1>1, Remainder
<1>3. PICK e : e = u - v - q
  OBVIOUS
<1>4. e \in Int /\ e * m = u * m - v * m - q * m
  BY <1>2, <1>3
<1>5. e * m = s - r /\ u * m \in Int /\ v * m \in Int /\ q * m \in Int
  BY <1>2, <1>4
<1>6. e = 0
  <2>1. e * m < m /\ e * m > -m
    BY <1>2, <1>5
  <2>2. e >= 1 => e * m >= m
    BY <1>4
  <2>3. e <= -1 => e * m <= -m
    BY <1>4
  <2> QED BY <1>4, <2>1, <2>2, <2>3
<1> QED BY <1>1, <1>2, <1>5, <1>6

\* The running hash of the n bytes of x behind o.
Hashes(x, o, n, acc) ==
  /\ acc \in [0 .. n -> 0 .. (HashMod - 1)] /\ acc[0] = 0
  /\ \A i \in 1 .. n : acc[i] = (acc[i - 1] * RKR + x[o + i]) % HashMod

\* There is one for any bytes.
LEMMA HashExists ==
  ASSUME NEW x \in Seq(Byte), NEW o \in Nat, NEW n \in Nat, o + n <= Len(x)
  PROVE  \E acc : Hashes(x, o, n, acc)
<1> DEFINE T == 0 .. (HashMod - 1)
           op == [i \in 1 .. n |-> [t \in T |-> (t * RKR + x[o + i]) % HashMod]]
<1>1. 0 \in T
  BY Modulus
<1>2. \A i \in 1 .. n : op[i] \in [T -> T]
  <2>1. ASSUME NEW i \in 1 .. n, NEW t \in T PROVE (t * RKR + x[o + i]) % HashMod \in T
    <3>1. x[o + i] \in Nat
      <4>1. o + i \in 1 .. Len(x)
        OBVIOUS
      <4> QED BY <4>1, ElementOfSeq, Modulus
    <3>2. t * RKR + x[o + i] \in Int
      BY <3>1, Modulus
    <3> QED BY <3>2, Modulus, Remainder
  <2> QED BY <2>1
<1>3. PICK acc : Totals(n, T, 0, op, acc)
  <2> HIDE DEF op, T
  <2> QED BY <1>1, <1>2, Accumulates, Zenon
<1>4. ASSUME NEW i \in 1 .. n PROVE acc[i] = (acc[i - 1] * RKR + x[o + i]) % HashMod
  <2>1. i - 1 \in 0 .. n
    OBVIOUS
  <2>2. acc[i - 1] \in T /\ acc[i] = op[i][acc[i - 1]]
    BY <1>3, <2>1 DEF Totals
  <2> QED BY <2>2
<1> QED BY <1>3, <1>4 DEF Totals, Hashes

\* HashWin is the last of them.
LEMMA HashIs ==
  ASSUME NEW x \in Seq(Byte), NEW o \in Nat, o + Anchor <= Len(x), NEW acc, Hashes(x, o, Anchor, acc)
  PROVE  HashWin(x, o) = acc[Anchor]
<1> DEFINE n == Anchor
           T == 0 .. (HashMod - 1)
           op == [i \in 1 .. n |-> [t \in T |-> (t * RKR + x[o + i]) % HashMod]]
<1>1. PICK s : s = Bytes(x, o, Anchor)
  OBVIOUS
<1>2. DOMAIN s = 1 .. n /\ n \in Nat /\ \A i \in 1 .. n : s[i] = x[o + i]
  BY <1>1, BytesAre, Modulus
<1> DEFINE Eq(g) == g = [S \in SUBSET DOMAIN s |-> IF S = {} THEN 0 ELSE (g[S \ {Max(S)}] * RKR + s[Max(S)]) % HashMod]
           iter == CHOOSE g : Eq(g)
<1>3. HashWin(x, o) = iter[DOMAIN s]
  BY <1>1 DEF HashWin, FoldLeft, MapThenFoldSet
<1>4. 0 \in T /\ \A i \in 1 .. n : op[i] \in [T -> T]
  <2>1. ASSUME NEW i \in 1 .. n, NEW t \in T PROVE (t * RKR + x[o + i]) % HashMod \in T
    <3>1. x[o + i] \in Nat
      <4>1. o + i \in 1 .. Len(x)
        BY <1>2
      <4> QED BY <4>1, ElementOfSeq, Modulus
    <3>2. t * RKR + x[o + i] \in Int
      BY <3>1, Modulus
    <3> QED BY <3>2, Modulus, Remainder
  <2>2. 0 \in T
    BY Modulus
  <2>3. \A i \in 1 .. n : op[i] \in [T -> T]
    BY <2>1
  <2> QED BY <2>2, <2>3
<1>5. ASSUME NEW S \in SUBSET (1 .. n), S # {}
      PROVE  Max(S) \in 1 .. n
  <2>1. S \subseteq 0 .. n
    OBVIOUS
  <2>2. Max(S) \in S
    BY <1>2, <1>5, <2>1, Greatest
  <2> QED BY <2>2
<1>6. \E g : Eq(g)
  <2>1. PICK f : Folds(n, T, 0, op, f)
    <3> HIDE DEF op, n, T
    <3> QED BY <1>2, <1>4, FoldExists, Zenon
  <2>2. ASSUME NEW S \in SUBSET DOMAIN s
        PROVE  f[S] = IF S = {} THEN 0 ELSE (f[S \ {Max(S)}] * RKR + s[Max(S)]) % HashMod
    <3>1. CASE S # {}
      <4>1. Max(S) \in 1 .. n /\ S \in SUBSET (1 .. n) /\ S \ {Max(S)} \in SUBSET (1 .. n)
        BY <1>2, <1>5, <3>1
      <4>2. f[S \ {Max(S)}] \in T /\ f[S] = op[Max(S)][f[S \ {Max(S)}]]
        BY <2>1, <3>1, <4>1 DEF Folds
      <4>3. f[S] = (f[S \ {Max(S)}] * RKR + x[o + Max(S)]) % HashMod
        BY <4>1, <4>2
      <4> QED BY <1>2, <3>1, <4>1, <4>3
    <3> QED BY <1>2, <2>1, <3>1 DEF Folds
  <2>3. f = [S \in SUBSET DOMAIN s |-> f[S]]
    BY <1>2, <2>1 DEF Folds
  <2>4. Eq(f)
    BY <2>2, <2>3, Zenon
  <2> QED BY <2>4
<1>7. Eq(iter)
  BY <1>6
<1> HIDE DEF iter
<1>8. iter[{}] = 0
  BY <1>7
<1>9. Totals(n, T, 0, op, acc)
  <2>1. ASSUME NEW i \in 1 .. n PROVE acc[i] = op[i][acc[i - 1]]
    <3>1. i - 1 \in 0 .. n
      BY <1>2
    <3>2. acc[i - 1] \in T /\ acc[i] = (acc[i - 1] * RKR + x[o + i]) % HashMod
      BY <3>1 DEF Hashes
    <3> QED BY <3>2
  <2> QED BY <2>1 DEF Totals, Hashes
<1>10. \A S \in SUBSET (1 .. n) :
         S # {} /\ iter[S \ {Max(S)}] \in T => iter[S] = op[Max(S)][iter[S \ {Max(S)}]]
  <2>1. ASSUME NEW S \in SUBSET (1 .. n), S # {}, iter[S \ {Max(S)}] \in T
        PROVE  iter[S] = op[Max(S)][iter[S \ {Max(S)}]]
    <3>1. Max(S) \in 1 .. n
      BY <1>5, <2>1
    <3>2. iter[S] = (iter[S \ {Max(S)}] * RKR + s[Max(S)]) % HashMod
      BY <1>2, <1>7, <2>1
    <3> QED BY <1>2, <2>1, <3>1, <3>2
  <2> QED BY <2>1
<1>11. Unfolds(n, T, 0, op, acc, iter)
  <2> HIDE DEF op, n, T
  <2> QED BY <1>2, <1>4, <1>8, <1>9, <1>10 DEF Unfolds
<1>12. iter[1 .. n] = acc[n]
  <2> HIDE DEF n, op, T
  <2> QED BY <1>11, FoldTotals
<1> QED BY <1>2, <1>3, <1>12

\* The powers of the base.
Powers(n, pow) ==
  /\ pow \in [0 .. n -> Nat] /\ pow[0] = 1
  /\ \A i \in 1 .. n : pow[i] = (pow[i - 1] * RKR) % HashMod

\* There are powers of any exponent.
LEMMA PowersExist ==
  ASSUME NEW n \in Nat
  PROVE  \E pow : Powers(n, pow)
<1> DEFINE op == [i \in 1 .. n |-> [t \in Nat |-> (t * RKR) % HashMod]]
<1>1. \A i \in 1 .. n : op[i] \in [Nat -> Nat]
  <2>1. ASSUME NEW t \in Nat PROVE (t * RKR) % HashMod \in Nat
    <3>1. t * RKR \in Int
      BY Modulus
    <3>2. (t * RKR) % HashMod \in 0 .. (HashMod - 1)
      BY <3>1, Modulus, Remainder
    <3> QED BY <3>2, Modulus
  <2> QED BY <2>1
<1>2. PICK pow : Totals(n, Nat, 1, op, pow)
  <2>1. 1 \in Nat
    OBVIOUS
  <2> HIDE DEF op
  <2> QED BY <1>1, <2>1, Accumulates, Zenon
<1>3. ASSUME NEW i \in 1 .. n PROVE pow[i] = (pow[i - 1] * RKR) % HashMod
  <2>1. i - 1 \in 0 .. n
    OBVIOUS
  <2>2. pow[i - 1] \in Nat /\ pow[i] = op[i][pow[i - 1]]
    BY <1>2, <2>1 DEF Totals
  <2> QED BY <2>2
<1> QED BY <1>2, <1>3 DEF Totals, Powers

\* PowR is the last of them.
LEMMA PowIs ==
  ASSUME NEW n \in Nat, NEW pow, Powers(n, pow)
  PROVE  PowR(n) = pow[n]
<1> DEFINE Eq(g) == g = [i \in 0 .. n |-> IF i = 0 THEN 1 ELSE (g[i - 1] * RKR) % HashMod]
           f == CHOOSE g : Eq(g)
<1>1. PowR(n) = f[n]
  BY DEF PowR
<1>2. Eq(pow)
  <2>1. pow = [i \in 0 .. n |-> pow[i]]
    BY DEF Powers
  <2>2. \A i \in 0 .. n : pow[i] = IF i = 0 THEN 1 ELSE (pow[i - 1] * RKR) % HashMod
    BY DEF Powers
  <2> QED BY <2>1, <2>2, Zenon
<1>3. Eq(f)
  BY <1>2
<1> HIDE DEF f
<1> DEFINE Done == {i \in Nat : i <= n => f[i] = pow[i]}
<1>4. 0 \in Done
  BY <1>3 DEF Powers
<1>5. ASSUME NEW i \in Nat, i \in Done PROVE i + 1 \in Done
  <2>1. SUFFICES ASSUME i + 1 <= n PROVE f[i + 1] = pow[i + 1]
    OBVIOUS
  <2>2. i + 1 \in 1 .. n /\ i + 1 \in 0 .. n /\ (i + 1) - 1 = i /\ i + 1 # 0
    BY <2>1
  <2>3. f[i] = pow[i]
    BY <1>5, <2>1
  <2>4. f[i + 1] = (f[i] * RKR) % HashMod /\ pow[i + 1] = (pow[i] * RKR) % HashMod
    BY <1>3, <2>2 DEF Powers
  <2> QED BY <2>3, <2>4
<1> HIDE DEF Done
<1>6. n \in Done
  BY <1>4, <1>5, Induction
<1> QED BY <1>1, <1>6 DEF Done

\* Numbers that differ by a multiple of HashMod.
Congruent(a, b) == a \in Int /\ b \in Int /\ \E q \in Int : a = b + q * HashMod

\* A remainder is congruent to what it is the remainder of.
LEMMA CongruentToRemainder ==
  ASSUME NEW a \in Int
  PROVE  Congruent(a % HashMod, a) /\ Congruent(a, a % HashMod)
<1>1. PICK q, r : q = a \div HashMod /\ r = a % HashMod
  OBVIOUS
<1>2. q \in Int /\ r \in Int /\ a = q * HashMod + r
  <2>1. r \in 0 .. (HashMod - 1) /\ q \in Int /\ a = q * HashMod + r
    BY <1>1, Modulus, Remainder
  <2> QED BY <2>1, Modulus
<1>3. -q \in Int /\ (-q) * HashMod = -(q * HashMod) /\ q * HashMod \in Int
  BY <1>2, Modulus
<1>4. r = a + (-q) * HashMod /\ a = r + q * HashMod
  BY <1>2, <1>3
<1> QED BY <1>1, <1>2, <1>3, <1>4 DEF Congruent

\* Congruence is transitive.
LEMMA CongruentTwice ==
  ASSUME NEW a, NEW b, NEW c, Congruent(a, b), Congruent(b, c)
  PROVE  Congruent(a, c)
<1>1. PICK q \in Int, r \in Int : a = b + q * HashMod /\ b = c + r * HashMod
  BY DEF Congruent
<1>2. a \in Int /\ b \in Int /\ c \in Int /\ HashMod \in Int
  BY Modulus DEF Congruent
<1>3. q + r \in Int /\ (q + r) * HashMod = q * HashMod + r * HashMod
  BY <1>2
<1>4. a = c + (q + r) * HashMod
  BY <1>1, <1>2, <1>3
<1> QED BY <1>2, <1>3, <1>4 DEF Congruent

\* Products and sums.
LEMMA CongruentScaled ==
  ASSUME NEW a, NEW b, Congruent(a, b), NEW k \in Int, NEW c \in Int
  PROVE  Congruent(a * k + c, b * k + c)
<1>1. PICK q \in Int : a = b + q * HashMod
  BY DEF Congruent
<1>2. a \in Int /\ b \in Int /\ HashMod \in Int
  BY Modulus DEF Congruent
<1>3. a * k = b * k + (q * HashMod) * k
  BY <1>1, <1>2
<1>4. (q * HashMod) * k = (q * k) * HashMod /\ q * k \in Int
  BY <1>2
<1>5. a * k + c \in Int /\ b * k + c \in Int
  BY <1>2
<1>6. a * k + c = (b * k + c) + (q * k) * HashMod
  BY <1>2, <1>3, <1>4
<1> QED BY <1>4, <1>5, <1>6 DEF Congruent

\* Congruent numbers have one hash.
LEMMA CongruentAre ==
  ASSUME NEW a, NEW b, Congruent(a, b)
  PROVE  (a % HashMod) = (b % HashMod)
<1>1. PICK q \in Int : a = b + q * HashMod
  BY DEF Congruent
<1>2. a \in Int /\ b \in Int
  BY DEF Congruent
<1>3. HashMod \in Nat /\ HashMod # 0
  BY Modulus
<1>4. PICK m : m = HashMod
  OBVIOUS
<1>5. m \in Nat /\ m # 0 /\ a = b + q * m
  BY <1>1, <1>3, <1>4
<1>6. (a % m) = (b % m)
  BY <1>2, <1>5, SameRemainder
<1> QED BY <1>4, <1>6

\* Rolling the hash of the window at o gives the hash of the window at o + 1.
LEMMA RollIs ==
  ASSUME NEW x \in Seq(Byte), NEW o \in Nat, o + Anchor < Len(x)
  PROVE  Roll(x, o, HashWin(x, o)) = HashWin(x, o + 1)
<1> DEFINE n == Anchor
<1>0. /\ n \in Nat /\ n # 0 /\ n - 1 \in Nat /\ HashMod \in Nat /\ HashMod # 0 /\ RKR \in Nat
      /\ Len(x) \in Nat /\ o + n <= Len(x) /\ (o + 1) + n <= Len(x) /\ o + 1 \in Nat
  BY Modulus
<1>1. \A i \in 1 .. Len(x) : x[i] \in Nat
  BY ElementOfSeq, Modulus
<1>2. PICK f : Hashes(x, o, n, f)
  BY <1>0, HashExists
<1>3. PICK g : Hashes(x, o + 1, n, g)
  BY <1>0, HashExists
<1>4. PICK pow : Powers(n - 1, pow)
  BY <1>0, PowersExist
<1>5. PICK c : c = x[o + 1]
  OBVIOUS
<1>6. c \in Nat
  <2>1. o + 1 \in 1 .. Len(x)
    BY <1>0
  <2> QED BY <1>1, <1>5, <2>1
<1>7. \A i \in 0 .. n : f[i] \in Int /\ g[i] \in Int
  <2>1. f \in [0 .. n -> 0 .. (HashMod - 1)] /\ g \in [0 .. n -> 0 .. (HashMod - 1)]
    BY <1>2, <1>3 DEF Hashes
  <2>2. 0 .. (HashMod - 1) \subseteq Int
    OBVIOUS
  <2> QED BY <2>1, <2>2
<1> DEFINE Done == {i \in Nat : i <= n - 1 => Congruent(f[i + 1], g[i] + c * pow[i])}
<1>8. 0 \in Done
  <2>1. f[1] = (0 * RKR + c) % HashMod
    <3>1. 1 \in 1 .. n /\ 1 - 1 = 0
      BY <1>0
    <3> QED BY <1>2, <1>5, <3>1 DEF Hashes
  <2>2. 0 * RKR + c = c /\ g[0] + c * pow[0] = c
    BY <1>0, <1>3, <1>4, <1>6 DEF Hashes, Powers
  <2>3. Congruent(f[0 + 1], g[0] + c * pow[0])
    BY <1>6, <2>1, <2>2, CongruentToRemainder
  <2> QED BY <2>3
<1>9. ASSUME NEW i \in Nat, i \in Done PROVE i + 1 \in Done
  <2>1. SUFFICES ASSUME i + 1 <= n - 1 PROVE Congruent(f[(i + 1) + 1], g[i + 1] + c * pow[i + 1])
    OBVIOUS
  <2>2. /\ i + 2 \in 1 .. n /\ i + 1 \in 1 .. n /\ (i + 2) - 1 = i + 1 /\ (i + 1) - 1 = i /\ (i + 1) + 1 = i + 2
        /\ i + 1 \in 0 .. n /\ i \in 0 .. n /\ i + 1 \in 1 .. (n - 1) /\ i <= n - 1
    BY <1>0, <2>1
  <2>3. PICK b : b = x[o + (i + 2)]
    OBVIOUS
  <2>4. b \in Int /\ b = x[(o + 1) + (i + 1)]
    <3>1. o + (i + 2) \in 1 .. Len(x) /\ o + (i + 2) = (o + 1) + (i + 1)
      BY <1>0, <2>2
    <3> QED BY <1>1, <2>3, <3>1
  <2>5. /\ f[i + 2] = (f[i + 1] * RKR + b) % HashMod
        /\ g[i + 1] = (g[i] * RKR + b) % HashMod
        /\ pow[i + 1] = (pow[i] * RKR) % HashMod
    BY <1>2, <1>3, <1>4, <2>2, <2>3, <2>4 DEF Hashes, Powers
  <2>6. PICK u, v, w, r : u = f[i + 1] /\ v = g[i] /\ w = pow[i] /\ r = RKR
    OBVIOUS
  <2>7. u \in Int /\ v \in Int /\ w \in Nat /\ r \in Int
    <3>1. i \in 0 .. (n - 1)
      BY <1>0, <2>2
    <3> QED BY <1>0, <1>4, <1>7, <2>2, <2>6, <3>1 DEF Powers
  <2>8. Congruent(u, v + c * w)
    BY <1>9, <2>2, <2>6
  <2>9. Congruent(u * r + b, (v + c * w) * r + b)
    BY <2>4, <2>7, <2>8, CongruentScaled
  <2>10. u * r + b \in Int /\ v * r + b \in Int /\ w * r \in Int
    BY <2>4, <2>7
  <2>11. Congruent(f[i + 2], u * r + b)
    BY <2>5, <2>6, <2>10, CongruentToRemainder
  <2>12. Congruent(v * r + b, g[i + 1])
    BY <2>5, <2>6, <2>10, CongruentToRemainder
  <2>13. Congruent(w * r, pow[i + 1])
    BY <2>5, <2>6, <2>10, CongruentToRemainder
  <2>14. PICK G, P : G = g[i + 1] /\ P = pow[i + 1]
    OBVIOUS
  <2>15. G \in Int /\ P \in Int
    BY <2>12, <2>13, <2>14 DEF Congruent
  <2>16. Congruent((v + c * w) * r + b, G + c * P)
    <3>1. Congruent((w * r) * c + (v * r + b), P * c + (v * r + b))
      <4>1. PICK e, k : e = w * r /\ k = v * r + b
        OBVIOUS
      <4>2. Congruent(e, P) /\ c \in Int /\ k \in Int
        BY <1>6, <2>10, <2>13, <2>14, <4>1
      <4>3. Congruent(e * c + k, P * c + k)
        BY <4>2, CongruentScaled
      <4> QED BY <4>1, <4>3
    <3>2. Congruent((v * r + b) * 1 + P * c, G * 1 + P * c)
      <4>1. P * c \in Int /\ 1 \in Int
        BY <1>6, <2>15
      <4> QED BY <2>12, <2>14, <4>1, CongruentScaled
    <3>3. (v + c * w) * r + b = (w * r) * c + (v * r + b)
      <4>1. (v + c * w) * r = v * r + (c * w) * r
        BY <1>6, <2>7
      <4>2. (c * w) * r = (w * r) * c
        BY <1>6, <2>7
      <4> QED BY <1>6, <2>4, <2>7, <4>1, <4>2
    <3>4. P * c + (v * r + b) = (v * r + b) * 1 + P * c /\ G * 1 + P * c = G + c * P
      BY <1>6, <2>10, <2>15
    <3> QED BY <3>1, <3>2, <3>3, <3>4, CongruentTwice
  <2>17. Congruent(f[i + 2], G + c * P)
    BY <2>9, <2>11, <2>16, CongruentTwice
  <2> QED BY <2>2, <2>14, <2>17
<1> HIDE DEF Done
<1>10. n - 1 \in Done
  BY <1>0, <1>8, <1>9, Induction
<1>11. Congruent(f[n], g[n - 1] + c * pow[n - 1])
  <2>1. (n - 1) + 1 = n /\ n - 1 <= n - 1
    BY <1>0
  <2> QED BY <1>10, <2>1 DEF Done
<1>12. HashWin(x, o) = f[n] /\ HashWin(x, o + 1) = g[n] /\ PowR(n - 1) = pow[n - 1]
  BY <1>0, <1>2, <1>3, <1>4, HashIs, PowIs
<1>13. PICK b, w, v, r : b = x[o + n + 1] /\ w = pow[n - 1] /\ v = g[n - 1] /\ r = RKR
  OBVIOUS
<1>14. b \in Int /\ w \in Int /\ v \in Int /\ r \in Int /\ f[n] \in Int
  <2>1. o + n + 1 \in 1 .. Len(x) /\ n - 1 \in 0 .. (n - 1) /\ n - 1 \in 0 .. n /\ n \in 0 .. n
    BY <1>0
  <2> QED BY <1>0, <1>1, <1>4, <1>7, <1>13, <2>1 DEF Powers
<1>15. Congruent(f[n] - c * w, v)
  <2>1. -(c * w) \in Int /\ c * w \in Int /\ 1 \in Int
    BY <1>6, <1>14
  <2>2. Congruent(f[n] * 1 + (-(c * w)), (v + c * w) * 1 + (-(c * w)))
    BY <1>11, <1>13, <2>1, CongruentScaled
  <2>3. f[n] * 1 + (-(c * w)) = f[n] - c * w /\ (v + c * w) * 1 + (-(c * w)) = v
    BY <1>14, <2>1
  <2> QED BY <2>2, <2>3
<1>16. Congruent((f[n] - c * w) * r + b, v * r + b)
  BY <1>14, <1>15, CongruentScaled
<1>17. ((f[n] - c * w) * r + b) % HashMod = (v * r + b) % HashMod
  BY <1>16, CongruentAre
<1>18. g[n] = (v * r + b) % HashMod
  <2>1. n \in 1 .. n /\ (o + 1) + n = o + n + 1
    BY <1>0
  <2> QED BY <1>3, <1>13, <2>1 DEF Hashes
<1> QED BY <1>5, <1>12, <1>13, <1>17, <1>18 DEF Roll

-----------------------------------------------------------------------------
(***************************************************************************)
(* Scanning.                                                               *)
(***************************************************************************)
\* Segment r has the next bytes.
More(s, y, l, x, b, r) ==
  /\ Describes(s, y, l, x, b) /\ r \in RawSegment /\ r.len # 0
  /\ r.kind = "COPY" => Same(y, r.srcOff, x, b, r.len)
  /\ r.kind = "ADD" => Same(l, r.srcOff, x, b, r.len)

\* Emitted, it extends what is described by its length.
LEMMA DescribesMore ==
  ASSUME NEW s, NEW y, NEW l, NEW x, NEW b, NEW r, More(s, y, l, x, b, r)
  PROVE  Describes(Append(s, r), y, l, x, b + r.len)
<1>1. /\ s \in Seq(RawSegment) /\ y \in Seq(Byte) /\ l \in Seq(Byte) /\ x \in Seq(Byte)
      /\ r \in RawSegment /\ r.len # 0
      /\ r.kind = "COPY" => Same(y, r.srcOff, x, b, r.len)
      /\ r.kind = "ADD" => Same(l, r.srcOff, x, b, r.len)
  BY DEF More, Describes
<1>2. PICK f : /\ EndToEnd(s, 0, f) /\ f[Len(s)] = b
               /\ \A i \in 1 .. Len(s) :
                    /\ s[i].len # 0
                    /\ s[i].kind = "COPY" => Same(y, s[i].srcOff, x, f[i - 1], s[i].len)
                    /\ s[i].kind = "ADD" => Same(l, s[i].srcOff, x, f[i - 1], s[i].len)
  BY DEF More, Describes
<1>3. PICK n, u : n = Len(s) /\ u = Append(s, r)
  OBVIOUS
<1>4. /\ n \in Nat /\ u \in Seq(RawSegment) /\ Len(u) = n + 1 /\ u[n + 1] = r
      /\ \A i \in 1 .. n : u[i] = s[i]
  BY <1>1, <1>3, AppendProperties
<1>5. f \in [0 .. n -> Nat] /\ f[0] = 0 /\ f[n] = b /\ \A i \in 1 .. n : f[i] = f[i - 1] + s[i].len
  BY <1>2, <1>3 DEF EndToEnd
<1>6. b \in Nat /\ r.len \in Nat
  BY <1>1, <1>4, <1>5 DEF RawSegment
<1> DEFINE at == [i \in 0 .. n + 1 |-> IF i = n + 1 THEN b + r.len ELSE f[i]]
<1>7. at \in [0 .. n + 1 -> Nat] /\ at[0] = 0 /\ at[n + 1] = b + r.len
  <2>1. \A i \in 0 .. n + 1 : i # n + 1 => i \in 0 .. n
    BY <1>4
  <2>2. 0 \in 0 .. n + 1 /\ 0 # n + 1 /\ n + 1 \in 0 .. n + 1
    BY <1>4
  <2> QED BY <1>5, <1>6, <2>1, <2>2
<1>8. ASSUME NEW i \in 1 .. n + 1
      PROVE  /\ at[i] = at[i - 1] + u[i].len /\ u[i].len # 0
             /\ u[i].kind = "COPY" => Same(y, u[i].srcOff, x, at[i - 1], u[i].len)
             /\ u[i].kind = "ADD" => Same(l, u[i].srcOff, x, at[i - 1], u[i].len)
  <2>1. i \in 0 .. n + 1 /\ i - 1 \in 0 .. n + 1 /\ i - 1 # n + 1
    BY <1>4
  <2>2. CASE i = n + 1
    <3>1. at[i - 1] = b /\ at[i] = b + r.len /\ u[i] = r
      BY <1>4, <1>5, <2>1, <2>2
    <3> HIDE DEF at
    <3> QED BY <1>1, <3>1
  <2>3. CASE i # n + 1
    <3>1. i \in 1 .. n /\ at[i - 1] = f[i - 1] /\ at[i] = f[i] /\ u[i] = s[i]
      BY <1>4, <2>1, <2>3
    <3> HIDE DEF at
    <3> QED BY <1>2, <1>3, <1>5, <3>1
  <2> QED BY <2>2, <2>3
<1> HIDE DEF at
<1>9. EndToEnd(u, 0, at) /\ at[Len(u)] = b + r.len
  BY <1>4, <1>7, <1>8 DEF EndToEnd
<1> QED BY <1>1, <1>3, <1>4, <1>8, <1>9 DEF Describes

\* More literals.
LEMMA DescribesStill ==
  ASSUME NEW s, NEW y, NEW l, NEW x, NEW b, Describes(s, y, l, x, b), NEW w \in Seq(Byte)
  PROVE  Describes(s, y, l \o w, x, b)
<1>1. s \in Seq(RawSegment) /\ y \in Seq(Byte) /\ l \in Seq(Byte) /\ x \in Seq(Byte)
  BY DEF Describes
<1>2. PICK at : /\ EndToEnd(s, 0, at) /\ at[Len(s)] = b
                /\ \A i \in 1 .. Len(s) :
                     /\ s[i].len # 0
                     /\ s[i].kind = "COPY" => Same(y, s[i].srcOff, x, at[i - 1], s[i].len)
                     /\ s[i].kind = "ADD" => Same(l, s[i].srcOff, x, at[i - 1], s[i].len)
  BY DEF Describes
<1>3. PICK u : u = l \o w
  OBVIOUS
<1>4. u \in Seq(Byte) /\ Len(u) = Len(l) + Len(w) /\ Len(l) \in Nat /\ Len(w) \in Nat
      /\ \A j \in 1 .. Len(l) + Len(w) : u[j] = IF j <= Len(l) THEN l[j] ELSE w[j - Len(l)]
  BY <1>1, <1>3, ConcatProperties
<1>5. ASSUME NEW i \in 1 .. Len(s), s[i].kind = "ADD"
      PROVE  Same(u, s[i].srcOff, x, at[i - 1], s[i].len)
  <2>1. PICK o, n, q : o = s[i].srcOff /\ n = s[i].len /\ q = at[i - 1]
    OBVIOUS
  <2>2. s[i] \in RawSegment
    BY <1>1, ElementOfSeq
  <2>3. o \in Nat /\ n \in Nat
    BY <2>1, <2>2 DEF RawSegment
  <2>4. Same(l, o, x, q, n)
    BY <1>2, <1>5, <2>1
  <2>5. o + n <= Len(l) /\ q + n <= Len(x) /\ \A j \in 1 .. n : l[o + j] = x[q + j]
    BY <2>4 DEF Same
  <2>6. ASSUME NEW j \in 1 .. n PROVE u[o + j] = x[q + j]
    <3>1. o + j \in 1 .. Len(l) + Len(w) /\ o + j <= Len(l)
      BY <1>4, <2>3, <2>5
    <3>2. u[o + j] = l[o + j]
      BY <1>4, <3>1
    <3> QED BY <2>5, <3>2
  <2>7. o + n <= Len(u)
    BY <1>4, <2>3, <2>5
  <2> QED BY <2>1, <2>5, <2>6, <2>7 DEF Same
<1> QED BY <1>1, <1>2, <1>3, <1>4, <1>5 DEF Describes

\* emitAdd of the literals up to `to`.
LEMMA EmitIs ==
  ASSUME NEW y, NEW from \in Nat, NEW to \in Nat, Describes(segs, y, lit, target, from),
         from <= to, to <= Len(target)
  PROVE  Describes(EmitAdd(from, to).segs, y, EmitAdd(from, to).lit, target, to)
<1>1. segs \in Seq(RawSegment) /\ y \in Seq(Byte) /\ lit \in Seq(Byte) /\ target \in Seq(Byte)
  BY DEF Describes
<1>2. CASE to <= from
  <2>1. to = from
    BY <1>2
  <2> QED BY <1>2, <2>1 DEF EmitAdd
<1>3. CASE ~(to <= from)
  <2>1. PICK n, w, u : n = to - from /\ w = Bytes(target, from, n) /\ u = lit \o w
    OBVIOUS
  <2>2. n \in Nat /\ n # 0 /\ from + n <= Len(target) /\ from + n = to
    BY <1>3, <2>1
  <2>3. w \in Seq(Byte) /\ Len(w) = n /\ \A j \in 1 .. n : w[j] = target[from + j]
    <3>1. PICK x : x = target
      OBVIOUS
    <3>2. x \in Seq(Byte) /\ from + n <= Len(x)
      BY <1>1, <2>2, <3>1
    <3>3. w = Bytes(x, from, n)
      BY <2>1, <3>1
    <3>4. w \in Seq(Byte) /\ Len(w) = n /\ \A j \in 1 .. n : w[j] = x[from + j]
      BY <2>2, <3>2, <3>3, BytesAre
    <3> QED BY <3>1, <3>4
  <2>4. Describes(segs, y, u, target, from)
    BY <2>1, <2>3, DescribesStill
  <2>5. PICK r : r = [kind |-> "ADD", len |-> n, srcOff |-> Len(lit)]
    OBVIOUS
  <2>6. Len(lit) \in Nat
    BY <1>1
  <2>7. r \in RawSegment /\ r.len = n /\ r.kind = "ADD" /\ r.srcOff = Len(lit)
    BY <2>2, <2>5, <2>6 DEF RawSegment
  <2>8. /\ u \in Seq(Byte) /\ Len(u) = Len(lit) + n
        /\ \A j \in 1 .. Len(lit) + n : u[j] = IF j <= Len(lit) THEN lit[j] ELSE w[j - Len(lit)]
    <3>1. PICK k : k = lit
      OBVIOUS
    <3>2. k \in Seq(Byte) /\ w \in Seq(Byte) /\ u = k \o w /\ Len(w) = n
      BY <1>1, <2>1, <2>3, <3>1
    <3>3. /\ u \in Seq(Byte) /\ Len(u) = Len(k) + Len(w)
          /\ \A j \in 1 .. Len(k) + Len(w) : u[j] = IF j <= Len(k) THEN k[j] ELSE w[j - Len(k)]
      BY <3>2, ConcatProperties
    <3> QED BY <3>1, <3>2, <3>3
  <2>9. Same(u, Len(lit), target, from, n)
    <3>1. ASSUME NEW j \in 1 .. n PROVE u[Len(lit) + j] = target[from + j]
      <4>1. Len(lit) + j \in 1 .. Len(lit) + n /\ ~(Len(lit) + j <= Len(lit)) /\ (Len(lit) + j) - Len(lit) = j
        BY <2>2, <2>6
      <4> QED BY <2>3, <2>8, <4>1
    <3>2. Len(lit) + n <= Len(u)
      BY <2>2, <2>6, <2>8
    <3> QED BY <2>2, <3>1, <3>2 DEF Same
  <2>10. More(segs, y, u, target, from, r)
    BY <2>2, <2>4, <2>7, <2>9 DEF More
  <2>11. Describes(Append(segs, r), y, u, target, from + n)
    BY <2>7, <2>10, DescribesMore
  <2>12. EmitAdd(from, to) = [segs |-> Append(segs, r), lit |-> u]
    BY <1>3, <2>1, <2>5 DEF EmitAdd
  <2> QED BY <2>2, <2>11, <2>12
<1> QED BY <1>2, <1>3

\* Ranges that meet.
LEMMA SameJoin ==
  ASSUME NEW src, NEW x, NEW o \in Nat, NEW q \in Nat, NEW a \in Nat, NEW b \in Nat,
         Same(src, o, x, q, a), Same(src, o + a, x, q + a, b), Len(src) \in Nat, Len(x) \in Nat
  PROVE  Same(src, o, x, q, a + b)
<1>1. o + (a + b) <= Len(src) /\ q + (a + b) <= Len(x)
  BY DEF Same
<1>2. ASSUME NEW j \in 1 .. (a + b) PROVE src[o + j] = x[q + j]
  <2>1. CASE j <= a
    <3>1. j \in 1 .. a
      BY <2>1
    <3> QED BY <3>1 DEF Same
  <2>2. CASE ~(j <= a)
    <3>1. PICK k : k = j - a
      OBVIOUS
    <3>2. k \in 1 .. b /\ (o + a) + k = o + j /\ (q + a) + k = q + j
      BY <2>2, <3>1
    <3>3. src[(o + a) + k] = x[(q + a) + k]
      BY <3>2 DEF Same
    <3> QED BY <3>2, <3>3
  <2> QED BY <2>1, <2>2
<1> QED BY <1>1, <1>2 DEF Same

\* The scan stands at p; what is emitted describes the bytes before litStart.
Scanning ==
  /\ p \in Nat /\ litStart \in Nat /\ litStart <= p /\ p <= Len(target)
  /\ Describes(segs, Newest, lit, target, litStart)

\* A match is extended back over equal bytes, of the pending literals only.
LEMMA BackIs ==
  ASSUME Scanning, NEW o \in Nat, o <= Len(Newest)
  PROVE  /\ BackLen(o) \in Nat /\ BackLen(o) <= p - litStart /\ BackLen(o) <= o
         /\ Same(Newest, o - BackLen(o), target, p - BackLen(o), BackLen(o))
<1>1. PICK y, x : y = Newest /\ x = target
  OBVIOUS
<1>2. y \in Seq(Byte) /\ x \in Seq(Byte)
  BY <1>1 DEF Scanning, Describes
<1>3. p \in Nat /\ litStart \in Nat /\ litStart <= p /\ p <= Len(x) /\ o <= Len(y)
  BY <1>1 DEF Scanning
<1>4. PICK k : k = Min({p - litStart, o})
  OBVIOUS
<1>5. p - litStart \in Int /\ o \in Int
  BY <1>3
<1>6. k \in Nat /\ k <= p - litStart /\ k <= o
  <2>1. PICK a : a = p - litStart
    OBVIOUS
  <2>2. a \in Int /\ k = Min({a, o}) /\ a >= 0
    BY <1>3, <1>4, <1>5, <2>1
  <2>3. k \in Int /\ k <= a /\ k <= o /\ (k = a \/ k = o)
    BY <1>5, <2>2, MinOf
  <2> QED BY <1>5, <2>1, <2>2, <2>3
<1>7. PICK T : T = {n \in 0 .. k : Bytes(y, o - n, n) = Bytes(x, p - n, n)}
  OBVIOUS
<1>8. 0 \in T
  <2>1. Bytes(y, o, 0) = << >> /\ Bytes(x, p, 0) = << >>
    BY <1>3, NoBytes
  <2>2. o - 0 = o /\ p - 0 = p /\ 0 \in 0 .. k
    BY <1>3, <1>6
  <2> QED BY <1>7, <2>1, <2>2
<1>9. T \subseteq 0 .. k /\ T # {}
  BY <1>7, <1>8
<1>10. PICK b : b = Max(T)
  OBVIOUS
<1>11. b \in T
  BY <1>6, <1>9, <1>10, Greatest
<1>12. b \in 0 .. k /\ Bytes(y, o - b, b) = Bytes(x, p - b, b)
  BY <1>7, <1>11
<1>13. BackLen(o) = b
  BY <1>1, <1>4, <1>7, <1>10 DEF BackLen
<1>14. PICK c, d : c = o - b /\ d = p - b
  OBVIOUS
<1>15. b \in Nat /\ c \in Nat /\ d \in Nat /\ c + b <= Len(y) /\ d + b <= Len(x) /\ b <= p - litStart /\ b <= o
  BY <1>2, <1>3, <1>6, <1>12, <1>14
<1>16. Same(y, c, x, d, b)
  <2>1. Bytes(y, c, b) = Bytes(x, d, b)
    BY <1>12, <1>14
  <2> QED BY <1>2, <1>15, <2>1, BytesSame
<1> QED BY <1>1, <1>13, <1>14, <1>15, <1>16

\* And forward over equal bytes, the window among them.
LEMMA ForwardIs ==
  ASSUME Scanning, NEW o \in Nat, o + Anchor <= Len(Newest), p + Anchor <= Len(target),
         Bytes(Newest, o, Anchor) = Bytes(target, p, Anchor)
  PROVE  /\ ForwardLen(o) \in Nat /\ Anchor <= ForwardLen(o)
         /\ Same(Newest, o, target, p, ForwardLen(o))
<1>1. PICK y, x : y = Newest /\ x = target
  OBVIOUS
<1>2. y \in Seq(Byte) /\ x \in Seq(Byte)
  BY <1>1 DEF Scanning, Describes
<1>3. p \in Nat /\ o + Anchor <= Len(y) /\ p + Anchor <= Len(x) /\ Bytes(y, o, Anchor) = Bytes(x, p, Anchor)
  BY <1>1 DEF Scanning
<1>4. Anchor \in Nat /\ Len(x) \in Nat /\ Len(y) \in Nat
  BY <1>2, Modulus
<1> DEFINE Fits(n) == o + n <= Len(y) /\ p + n <= Len(x) /\ Bytes(y, o, n) = Bytes(x, p, n)
<1>5. PICK T : T = {n \in 0 .. Len(x) : Fits(n)}
  OBVIOUS
<1>6. Anchor \in T
  BY <1>3, <1>4, <1>5
<1>7. PICK n : n = Max(T)
  OBVIOUS
<1>8. n \in T /\ \A i \in T : i <= n
  <2>1. T \subseteq 0 .. Len(x) /\ T # {}
    BY <1>5, <1>6
  <2> QED BY <1>4, <1>7, <2>1, Greatest
<1>9. n \in Nat /\ n <= Len(x) /\ Fits(n) /\ Anchor <= n
  BY <1>5, <1>6, <1>8
<1>10. o + n = Len(y) \/ p + n = Len(x) \/ y[o + n + 1] # x[p + n + 1]
  <2>1. SUFFICES ASSUME o + n # Len(y), p + n # Len(x), y[o + n + 1] = x[p + n + 1] PROVE FALSE
    OBVIOUS
  <2>2. o + n <= Len(y) /\ p + n <= Len(x) /\ Bytes(y, o, n) = Bytes(x, p, n)
    BY <1>9
  <2> HIDE DEF Fits
  <2>3. Same(y, o, x, p, n)
    BY <1>2, <1>3, <1>9, <2>2, BytesSame
  <2>4. Same(y, o + n, x, p + n, 1)
    <3>1. o + n + 1 <= Len(y) /\ p + n + 1 <= Len(x)
      BY <1>3, <1>4, <1>9, <2>1, <2>2
    <3>2. \A j \in 1 .. 1 : y[o + n + j] = x[p + n + j]
      BY <2>1
    <3> QED BY <3>1, <3>2 DEF Same
  <2>5. PICK k : k = n + 1
    OBVIOUS
  <2>6. Same(y, o, x, p, k)
    BY <1>3, <1>4, <1>9, <2>3, <2>4, <2>5, SameJoin
  <2>7. k \in Nat /\ k \in 0 .. Len(x) /\ o + k <= Len(y) /\ p + k <= Len(x) /\ ~(k <= n)
    BY <1>3, <1>4, <1>9, <2>5, <2>6 DEF Same
  <2>8. Bytes(y, o, k) = Bytes(x, p, k)
    BY <1>2, <1>3, <2>6, <2>7, SameBytes
  <2>9. k \in T
    BY <1>5, <2>7, <2>8 DEF Fits
  <2> QED BY <1>8, <2>7, <2>9
<1> DEFINE Ends(i) == /\ Fits(i)
                      /\ o + i = Len(y) \/ p + i = Len(x) \/ y[o + i + 1] # x[p + i + 1]
<1>11. n \in Anchor .. Len(x) /\ Ends(n)
  BY <1>4, <1>9, <1>10
<1>12. PICK f : f = CHOOSE i \in Anchor .. Len(x) : Ends(i)
  OBVIOUS
<1>13. f \in Anchor .. Len(x) /\ Ends(f)
  <2> HIDE DEF Ends
  <2> QED BY <1>11, <1>12
<1>14. ForwardLen(o) = f
  BY <1>1, <1>12 DEF ForwardLen
<1>15. f \in Nat /\ Anchor <= f /\ o + f <= Len(y) /\ p + f <= Len(x) /\ Bytes(y, o, f) = Bytes(x, p, f)
  BY <1>4, <1>13
<1>16. Same(y, o, x, p, f)
  BY <1>2, <1>3, <1>15, BytesSame
<1> QED BY <1>1, <1>14, <1>15, <1>16

\* The hash of a window is below the modulus, rolled or not.
LEMMA HashRange ==
  /\ \A x \in Seq(Byte) : \A o \in Nat : o + Anchor <= Len(x) => HashWin(x, o) \in 0 .. (HashMod - 1)
  /\ 0 \in 0 .. (HashMod - 1)
<1>1. HashMod \in Nat /\ HashMod # 0 /\ Anchor \in Nat
  BY Modulus
<1>2. ASSUME NEW x \in Seq(Byte), NEW o \in Nat, o + Anchor <= Len(x)
      PROVE  HashWin(x, o) \in 0 .. (HashMod - 1)
  <2>1. PICK acc : Hashes(x, o, Anchor, acc)
    BY <1>1, <1>2, HashExists
  <2>2. HashWin(x, o) = acc[Anchor]
    BY <1>2, <2>1, HashIs
  <2>3. Anchor \in 0 .. Anchor
    BY <1>1
  <2> QED BY <2>1, <2>2, <2>3 DEF Hashes
<1> QED BY <1>1, <1>2

\* What Match emits describes the bytes up to where it goes on.
LEMMA MatchIs ==
  ASSUME Scanning, NEW o \in Nat, Window, Matches(o)
  PROVE  LET e == EmitAdd(litStart, p - BackLen(o))
             r == [kind |-> "COPY", len |-> ForwardLen(o) + BackLen(o), srcOff |-> o - BackLen(o)]
         IN  /\ Describes(Append(e.segs, r), Newest, e.lit, target, p + ForwardLen(o))
             /\ ForwardLen(o) \in Nat /\ p + ForwardLen(o) <= Len(target)
<1>1. PICK y, x : y = Newest /\ x = target
  OBVIOUS
<1>2. y \in Seq(Byte) /\ x \in Seq(Byte)
  BY <1>1 DEF Scanning, Describes
<1>3. p \in Nat /\ litStart \in Nat /\ litStart <= p /\ p <= Len(x)
      /\ Describes(segs, Newest, lit, target, litStart)
  BY <1>1 DEF Scanning
<1>4. Anchor \in Nat /\ Len(x) \in Nat /\ Len(y) \in Nat /\ Anchor # 0
  BY <1>2, Modulus
<1>5. o + Anchor <= Len(y) /\ p + Anchor <= Len(x) /\ Bytes(Newest, o, Anchor) = Bytes(target, p, Anchor)
  BY <1>1 DEF Window, Matches, IndexFind
<1>6. PICK f, b, c, d : f = ForwardLen(o) /\ b = BackLen(o) /\ c = o - b /\ d = p - b
  OBVIOUS
<1>7. f \in Nat /\ Anchor <= f /\ Same(y, o, x, p, f)
  BY <1>1, <1>5, <1>6, ForwardIs
<1>8. b \in Nat /\ b <= p - litStart /\ b <= o /\ Same(y, c, x, d, b)
  <2>1. o <= Len(Newest)
    BY <1>1, <1>4, <1>5
  <2> QED BY <1>1, <1>6, <2>1, BackIs
<1>9. c \in Nat /\ d \in Nat /\ c + b = o /\ d + b = p /\ litStart <= d /\ d <= Len(x)
  BY <1>3, <1>4, <1>6, <1>8
<1>10. PICK n : n = f + b
  OBVIOUS
<1>11. Same(y, c, x, d, n)
  <2>1. b + f = n
    BY <1>7, <1>8, <1>10
  <2>2. Same(y, c + b, x, d + b, f)
    BY <1>7, <1>9
  <2>3. Same(y, c, x, d, b + f)
    BY <1>4, <1>7, <1>8, <1>9, <2>2, SameJoin
  <2> QED BY <2>1, <2>3
<1>12. PICK e : e = EmitAdd(litStart, d)
  OBVIOUS
<1>13. Describes(e.segs, y, e.lit, x, d)
  <2>1. Describes(EmitAdd(litStart, d).segs, Newest, EmitAdd(litStart, d).lit, target, d)
    BY <1>1, <1>3, <1>9, EmitIs
  <2> QED BY <1>1, <1>12, <2>1
<1>14. PICK r : r = [kind |-> "COPY", len |-> n, srcOff |-> c]
  OBVIOUS
<1>15. n \in Nat /\ n # 0
  BY <1>4, <1>7, <1>8, <1>10
<1>16. More(e.segs, y, e.lit, x, d, r)
  <2>1. r \in RawSegment /\ r.len = n /\ r.srcOff = c /\ r.kind = "COPY"
    BY <1>9, <1>14, <1>15 DEF RawSegment
  <2> QED BY <1>11, <1>13, <1>15, <2>1 DEF More
<1>17. Describes(Append(e.segs, r), y, e.lit, x, d + n)
  <2>1. r.len = n
    BY <1>14
  <2> QED BY <1>16, <2>1, DescribesMore
<1>18. d + n = p + f /\ p + f <= Len(x)
  BY <1>3, <1>7, <1>8, <1>9, <1>10 DEF Same
<1>19. EmitAdd(litStart, p - BackLen(o)) = e
       /\ [kind |-> "COPY", len |-> ForwardLen(o) + BackLen(o), srcOff |-> o - BackLen(o)] = r
  BY <1>6, <1>10, <1>12, <1>14
<1>20. Describes(Append(e.segs, r), Newest, e.lit, target, p + ForwardLen(o))
  BY <1>1, <1>6, <1>17, <1>18
<1>21. ForwardLen(o) \in Nat /\ p + ForwardLen(o) <= Len(target)
  BY <1>1, <1>6, <1>7, <1>18
<1> QED BY <1>19, <1>20, <1>21

\* The delta that GenerateDelta makes of a finished scan.
Made(e) ==
  [targetSize |-> Len(target), baseSize |-> Len(Newest), segs |-> e.segs,
   blocks |-> CutBlocks(e.lit), frames |-> Len(CutBlocks(e.lit))]

\* It makes the target of the newest version.
LEMMA MadeIs ==
  ASSUME Scanning
  PROVE  LET e == EmitAdd(litStart, Len(target)) IN Makes(Made(e), Newest, e.lit, target)
<1>1. PICK e : e = EmitAdd(litStart, Len(target))
  OBVIOUS
<1>2. /\ target \in Seq(Byte) /\ Newest \in Seq(Byte) /\ litStart \in Nat /\ litStart <= p
      /\ p \in Nat /\ p <= Len(target) /\ Describes(segs, Newest, lit, target, litStart)
  BY DEF Scanning, Describes
<1>3. Len(target) \in Nat /\ Len(Newest) \in Nat
  BY <1>2
<1>4. Describes(e.segs, Newest, e.lit, target, Len(target))
  <2>1. litStart <= Len(target) /\ Len(target) <= Len(target)
    BY <1>2, <1>3
  <2> QED BY <1>1, <1>2, <1>3, <2>1, EmitIs
<1>5. e.segs \in Seq(RawSegment) /\ e.lit \in Seq(Byte)
  BY <1>4 DEF Describes
<1>6. Len(CutBlocks(e.lit)) \in Nat
  BY <1>5, BlocksCount
<1>7. Made(e) \in DeltaFile
  BY <1>3, <1>5, <1>6 DEF Made, DeltaFile
<1>8. /\ Made(e).targetSize = Len(target) /\ Made(e).baseSize = Len(Newest) /\ Made(e).segs = e.segs
      /\ Made(e).blocks = CutBlocks(e.lit) /\ Made(e).frames = Len(CutBlocks(e.lit))
  BY DEF Made
<1>9. Makes(Made(e), Newest, e.lit, target)
  BY <1>4, <1>7, <1>8 DEF Makes
<1> QED BY <1>1, <1>9

-----------------------------------------------------------------------------
(***************************************************************************)
(* The inductive invariant.                                                *)
(***************************************************************************)
\* The versions vs, the deltas ds that make each of the one before it, and the
\* map m that they compose to, with the literals of each.
Chain(vs, ds, m, lits) ==
  /\ lits \in Seq(Seq(Byte)) /\ Len(vs) = Len(lits) + 1
  /\ Source(m, vs[1], lits, vs[Len(vs)]) /\ Framed(m, lits) /\ m.adds = ds
  /\ \A i \in 1 .. Len(lits) : Makes(ds[i], vs[i], lits[i], vs[i + 1])
  /\ lits = << >> => m.segs = << >>

\* One more delta for a chain.
NextInChain(vs, ds, m, lits, d, l, x) ==
  /\ vs \in Seq(Seq(Byte)) /\ Chain(vs, ds, m, lits) /\ Makes(d, vs[Len(vs)], l, x)

\* Create puts it on top.
LEMMA ChainMore ==
  ASSUME NEW vs, NEW ds, NEW m, NEW lits, NEW d, NEW l, NEW x, NextInChain(vs, ds, m, lits, d, l, x)
  PROVE  LET c == Create(d, m)
         IN  /\ c \in FlatMap /\ c.ok = TRUE /\ Serves(c, vs[1], Append(lits, l), x)
             /\ Chain(Append(vs, x), Append(ds, d), c, Append(lits, l))
<1>1. PICK n, y : n = Len(lits) /\ y = vs[Len(vs)]
  OBVIOUS
<1>2. /\ vs \in Seq(Seq(Byte)) /\ lits \in Seq(Seq(Byte)) /\ Len(vs) = n + 1 /\ n \in Nat
      /\ Source(m, vs[1], lits, y) /\ Framed(m, lits) /\ m.adds = ds
      /\ \A i \in 1 .. n : Makes(ds[i], vs[i], lits[i], vs[i + 1])
      /\ Makes(d, y, l, x)
  BY <1>1 DEF NextInChain, Chain
<1>3. l \in Seq(Byte) /\ x \in Seq(Byte) /\ d \in DeltaFile /\ d.frames = Len(d.blocks)
  BY <1>2 DEF Makes, Describes
<1>4. ds \in Seq(DeltaFile) /\ Len(ds) = n
  BY <1>1, <1>2 DEF Source
<1>5. PICK c, new, us, es : c = Create(d, m) /\ new = Append(lits, l) /\ us = Append(vs, x) /\ es = Append(ds, d)
  OBVIOUS
<1>6. Over(d, m, vs[1], lits, y, l, x)
  BY <1>2 DEF Over
<1>7. /\ c \in FlatMap /\ c.ok = TRUE /\ c.adds = es
      /\ Source(c, vs[1], new, x) /\ new # << >>
      /\ \A i \in 1 .. n + 1 : c.adds[i] = IF i = n + 1 THEN d ELSE m.adds[i]
  <2>1. PICK b : b = vs[1]
    OBVIOUS
  <2>2. Over(d, m, b, lits, y, l, x)
    BY <1>6, <2>1
  <2>3. Created(c, d, m, b, lits, l, x)
    BY <1>5, <2>2, CreateIs
  <2>4. c \in FlatMap /\ c.ok = TRUE /\ c.adds = Append(m.adds, d) /\ new # << >> /\ Source(c, b, new, x)
    BY <1>5, <2>3 DEF Created
  <2>5. c.adds = es
    BY <1>2, <1>5, <2>4
  <2>6. ASSUME NEW i \in 1 .. n + 1 PROVE es[i] = IF i = n + 1 THEN d ELSE m.adds[i]
    <3>1. ds \in Seq(DeltaFile) /\ Len(ds) = n
      BY <1>4
    <3>2. es[n + 1] = d /\ \A j \in 1 .. n : es[j] = ds[j]
      BY <1>3, <1>5, <3>1, AppendProperties
    <3>3. i # n + 1 => i \in 1 .. n
      BY <1>2
    <3> QED BY <1>2, <3>2, <3>3
  <2> QED BY <2>1, <2>4, <2>5, <2>6
<1>8. /\ new \in Seq(Seq(Byte)) /\ Len(new) = n + 1 /\ new[n + 1] = l
      /\ \A i \in 1 .. n : new[i] = lits[i]
  BY <1>1, <1>2, <1>3, <1>5, AppendProperties
<1>9. /\ us \in Seq(Seq(Byte)) /\ Len(us) = n + 2 /\ us[n + 2] = x
      /\ \A i \in 1 .. n + 1 : us[i] = vs[i]
  <2>1. us \in Seq(Seq(Byte)) /\ Len(us) = Len(vs) + 1 /\ us[Len(vs) + 1] = x
        /\ \A i \in 1 .. Len(vs) : us[i] = vs[i]
    BY <1>2, <1>3, <1>5, AppendProperties
  <2>2. Len(vs) + 1 = n + 2
    BY <1>2
  <2> QED BY <1>2, <2>1, <2>2
<1>10. es[n + 1] = d /\ \A i \in 1 .. n : es[i] = ds[i]
  BY <1>3, <1>4, <1>5, AppendProperties
<1>11. Framed(c, new)
  <2>1. ASSUME NEW a \in 1 .. n + 1 PROVE c.adds[a].frames >= Len(c.adds[a].blocks)
    <3>1. CASE a = n + 1
      <4>1. Len(d.blocks) \in Nat
        <5>1. Len(CutBlocks(l)) \in Nat
          BY <1>3, BlocksCount
        <5> QED BY <1>2, <5>1 DEF Makes
      <4> QED BY <1>3, <1>7, <3>1, <4>1
    <3>2. CASE a # n + 1
      <4>1. a \in 1 .. n
        BY <1>2, <3>2
      <4>2. m.adds[a].frames >= Len(m.adds[a].blocks)
        BY <1>1, <1>2, <4>1 DEF Framed
      <4> QED BY <1>7, <3>2, <4>2
    <3> QED BY <3>1, <3>2
  <2> QED BY <1>8, <2>1 DEF Framed
<1>12. ASSUME NEW i \in 1 .. n + 1 PROVE Makes(es[i], us[i], new[i], us[i + 1])
  <2>1. CASE i = n + 1
    <3>1. es[i] = d /\ us[i] = y /\ new[i] = l /\ us[i + 1] = x
      <4>1. i + 1 = n + 2 /\ n + 1 \in 1 .. n + 1 /\ vs[n + 1] = y
        BY <1>1, <1>2, <2>1
      <4> QED BY <1>8, <1>9, <1>10, <2>1, <4>1
    <3> QED BY <1>2, <3>1
  <2>2. CASE i # n + 1
    <3>1. i \in 1 .. n /\ i + 1 \in 1 .. n + 1
      BY <1>2, <2>2
    <3>2. es[i] = ds[i] /\ us[i] = vs[i] /\ new[i] = lits[i] /\ us[i + 1] = vs[i + 1]
      BY <1>8, <1>9, <1>10, <3>1
    <3> QED BY <1>2, <3>1, <3>2
  <2> QED BY <2>1, <2>2
<1>13. us[1] = vs[1] /\ us[Len(us)] = x
  BY <1>2, <1>9
<1>14. Chain(us, es, c, new)
  <2>1. Len(us) = Len(new) + 1
    BY <1>2, <1>8, <1>9
  <2> QED BY <1>7, <1>8, <1>11, <1>12, <1>13, <2>1 DEF Chain
<1>15. Serves(c, vs[1], new, x)
  BY <1>7 DEF Source
<1> QED BY <1>5, <1>7, <1>14, <1>15

\* What has been published.
Published(vs, ps, ds, m) ==
  /\ vs \in Seq(Versions) /\ vs # << >> /\ m \in FlatMap
  /\ Whole(ps) /\ \E cut : Holding(ps, vs[1], cut)
  /\ \E lits : Chain(vs, ds, m, lits)

\* The base in one part or in three.
LEMMA BaseHolds ==
  ASSUME NEW x \in Seq(Byte), NEW c \in 0 .. Len(x), NEW ps \in {<<Part(x)>>, InParts(x, c)}
  PROVE  Whole(ps) /\ \E cut : Holding(ps, x, cut)
<1>1. Len(x) \in Nat /\ c \in Nat /\ c <= Len(x)
  OBVIOUS
<1>2. CASE ps = <<Part(x)>>
  <2>1. Len(ps) = 1 /\ ps[1] = [file |-> x, len |-> Len(x)] /\ ps # << >>
    BY <1>2 DEF Part
  <2>2. ps \in Seq([file : Seq(Byte), len : Nat])
    BY <1>1, <1>2 DEF Part
  <2> DEFINE cut == [i \in 0 .. 1 |-> IF i = 0 THEN 0 ELSE Len(x)]
  <2>3. cut \in [0 .. 1 -> Nat] /\ cut[0] = 0 /\ cut[1] = Len(x)
    BY <1>1
  <2> HIDE DEF cut
  <2>4. EndToEnd(ps, 0, cut)
    BY <1>1, <2>1, <2>3 DEF EndToEnd
  <2>5. ASSUME NEW i \in 1 .. 1, NEW j \in Nat \ {0}, j <= ps[i].len
        PROVE  ps[i].file[j] = x[cut[i - 1] + j]
    BY <2>1, <2>3
  <2>6. Holding(ps, x, cut)
    BY <2>1, <2>2, <2>3, <2>4, <2>5 DEF Holding
  <2>7. Whole(ps)
    BY <1>1, <2>1 DEF Whole
  <2> QED BY <2>6, <2>7
<1>3. CASE ps = InParts(x, c)
  <2>1. PICK u, w, z : u = Bytes(x, 0, c) /\ w = Bytes(x, c, Len(x) - c) /\ z = << >>
    OBVIOUS
  <2>2. u \in Seq(Byte) /\ Len(u) = c /\ \A j \in 1 .. c : u[j] = x[0 + j]
    BY <1>1, <2>1, BytesAre
  <2>3. w \in Seq(Byte) /\ Len(w) = Len(x) - c /\ \A j \in 1 .. Len(x) - c : w[j] = x[c + j]
    <3>1. PICK n : n = Len(x) - c
      OBVIOUS
    <3>2. n \in Nat /\ c + n <= Len(x) /\ w = Bytes(x, c, n)
      BY <1>1, <2>1, <3>1
    <3>3. /\ Bytes(x, c, n) \in Seq(Byte) /\ Len(Bytes(x, c, n)) = n
          /\ \A j \in 1 .. n : Bytes(x, c, n)[j] = x[c + j]
      <4>1. x \in Seq(Byte) /\ c \in Nat /\ n \in Nat /\ c + n <= Len(x)
        BY <1>1, <3>2
      <4> QED BY <4>1, BytesAre
    <3> QED BY <3>1, <3>2, <3>3
  <2>4. z \in Seq(Byte) /\ Len(z) = 0
    BY <2>1
  <2>5. SubSeq(x, 1, c) = u /\ SubSeq(x, c + 1, Len(x)) = w
    <3>1. 0 + 1 = 1 /\ 0 + c = c /\ c + (Len(x) - c) = Len(x)
      BY <1>1
    <3> QED BY <2>1, <3>1 DEF Bytes
  <2>6. PICK a, b, e : /\ a = [file |-> u, len |-> Len(u)] /\ b = [file |-> z, len |-> Len(z)]
                       /\ e = [file |-> w, len |-> Len(w)]
    OBVIOUS
  <2>7. ps = <<a, b, e>>
    BY <1>3, <2>1, <2>5, <2>6 DEF InParts, Part
  <2>8. /\ a \in [file : Seq(Byte), len : Nat] /\ b \in [file : Seq(Byte), len : Nat]
        /\ e \in [file : Seq(Byte), len : Nat]
    BY <1>1, <2>2, <2>3, <2>4, <2>6
  <2>9. /\ ps \in Seq([file : Seq(Byte), len : Nat]) /\ Len(ps) = 3 /\ ps # << >>
        /\ ps[1] = a /\ ps[2] = b /\ ps[3] = e
    BY <2>7, <2>8
  <2>10. /\ a.file = u /\ a.len = c /\ b.file = z /\ b.len = 0 /\ e.file = w /\ e.len = Len(x) - c
         /\ Len(a.file) = c /\ Len(b.file) = 0 /\ Len(e.file) = Len(x) - c
    BY <2>2, <2>3, <2>4, <2>6
  <2> DEFINE cut == [i \in 0 .. 3 |-> IF i = 0 THEN 0 ELSE IF i = 3 THEN Len(x) ELSE c]
  <2>11. cut \in [0 .. 3 -> Nat] /\ cut[0] = 0 /\ cut[1] = c /\ cut[2] = c /\ cut[3] = Len(x)
    BY <1>1
  <2> HIDE DEF cut
  <2>12. \A i \in 1 .. 3 : i = 1 \/ i = 2 \/ i = 3
    OBVIOUS
  <2>13. EndToEnd(ps, 0, cut)
    <3>1. \A i \in 1 .. 3 : cut[i] = cut[i - 1] + ps[i].len
      BY <1>1, <2>9, <2>10, <2>11, <2>12
    <3> QED BY <2>9, <2>11, <3>1 DEF EndToEnd
  <2>14. ASSUME NEW i \in 1 .. 3, NEW j \in Nat \ {0}, j <= ps[i].len
         PROVE  ps[i].file[j] = x[cut[i - 1] + j]
    <3>1. CASE i = 1
      <4>1. j \in 1 .. c /\ 0 + j = j
        BY <1>1, <2>9, <2>10, <2>14, <3>1
      <4> QED BY <2>2, <2>9, <2>10, <2>11, <3>1, <4>1
    <3>2. CASE i = 2
      BY <2>9, <2>10, <2>14, <3>2
    <3>3. CASE i = 3
      <4>1. j \in 1 .. Len(x) - c
        BY <1>1, <2>9, <2>10, <2>14, <3>3
      <4>2. cut[i - 1] = c /\ ps[i].file = w
        BY <2>9, <2>10, <2>11, <3>3
      <4> QED BY <2>3, <4>1, <4>2
    <3> QED BY <2>12, <3>1, <3>2, <3>3
  <2>15. Holding(ps, x, cut)
    BY <2>9, <2>11, <2>13, <2>14 DEF Holding
  <2>16. Whole(ps)
    <3>1. \A i \in 1 .. 3 : ps[i].len <= Len(ps[i].file)
      BY <1>1, <2>9, <2>10, <2>12
    <3> QED BY <2>9, <3>1 DEF Whole
  <2> QED BY <2>15, <2>16
<1> QED BY <1>2, <1>3

\* Reading all of it.
LEMMA ReadAll ==
  ASSUME NEW x \in Seq(Byte)
  PROVE  ReadFile(x, 0, Len(x)) = x
<1>1. PICK n, k : n = Len(x) /\ k = Min({n, Max({0, n - 0})})
  OBVIOUS
<1>2. n \in Nat /\ n - 0 = n
  BY <1>1
<1>3. Max({0, n - 0}) = n
  BY <1>2, MaxOfZero
<1>4. k = n
  <2>1. PICK b : b = Max({0, n - 0})
    OBVIOUS
  <2>2. k = Min({n, b}) /\ b = n /\ b \in Int
    BY <1>1, <1>2, <1>3, <2>1
  <2>3. k = n \/ k = b
    BY <1>2, <2>2, MinOf
  <2> QED BY <2>2, <2>3
<1>5. Bytes(x, 0, n) \in Seq(Byte) /\ Len(Bytes(x, 0, n)) = n /\ \A j \in 1 .. n : Bytes(x, 0, n)[j] = x[0 + j]
  <2>1. 0 \in Nat /\ 0 + n <= Len(x)
    BY <1>1, <1>2
  <2> QED BY <1>2, <2>1, BytesAre
<1>6. \A j \in 1 .. n : 0 + j = j
  BY <1>2
<1>7. Bytes(x, 0, n) = x
  <2>1. \A j \in 1 .. n : Bytes(x, 0, n)[j] = x[j]
    BY <1>5, <1>6
  <2> QED BY <1>1, <1>5, <2>1, EqualBytes
<1> QED BY <1>1, <1>4, <1>7 DEF ReadFile

\* The scan of a version may be finished.
Finishing ==
  Scanning /\ target \in Versions /\ Published(versions, BaseSrc, deltas, map)

\* Its delta verifies, and goes on top.
LEMMA FinishIs ==
  ASSUME Finishing, NEW d, d = Made(EmitAdd(litStart, Len(target)))
  PROVE  /\ VerifyDelta(Create(d, map), BaseSrc, target)
         /\ Published(Append(versions, target), BaseSrc, Append(deltas, d), Create(d, map))
<1>1. PICK vs, ds, m, x, ps : vs = versions /\ ds = deltas /\ m = map /\ x = target /\ ps = BaseSrc
  OBVIOUS
<1>2. vs \in Seq(Versions) /\ vs # << >> /\ Whole(ps) /\ x \in Versions
  BY <1>1 DEF Finishing, Published
<1>3. PICK cut : Holding(ps, vs[1], cut)
  BY <1>1 DEF Finishing, Published
<1>4. PICK lits : Chain(vs, ds, m, lits)
  BY <1>1 DEF Finishing, Published
<1>5. vs \in Seq(Seq(Byte)) /\ x \in Seq(Byte)
  BY <1>2, DeltaAssumption
<1>6. PICK e, l : e = EmitAdd(litStart, Len(target)) /\ l = e.lit
  OBVIOUS
<1>7. Makes(d, vs[Len(vs)], l, x)
  <2>1. Newest = vs[Len(vs)]
    BY <1>1 DEF Newest
  <2>2. Makes(Made(e), Newest, e.lit, target)
    BY <1>6, MadeIs DEF Finishing
  <2> QED BY <1>1, <1>6, <2>1, <2>2
<1>8. PICK c, new, us, es : c = Create(d, m) /\ new = Append(lits, l) /\ us = Append(vs, x) /\ es = Append(ds, d)
  OBVIOUS
<1>9. c \in FlatMap /\ c.ok = TRUE /\ Serves(c, vs[1], new, x) /\ Chain(us, es, c, new)
  <2>1. NextInChain(vs, ds, m, lits, d, l, x)
    BY <1>4, <1>5, <1>7 DEF NextInChain
  <2> QED BY <1>8, <2>1, ChainMore
<1>10. VerifyDelta(c, ps, x)
  <2>1. c.size = Len(x) /\ Len(x) \in Nat
    BY <1>5, <1>9 DEF Serves
  <2>2. Framed(c, new)
    BY <1>9 DEF Chain
  <2>3. PICK b : b = vs[1]
    OBVIOUS
  <2>4. Pread(c, ps, 0, Len(x)) = ReadFile(x, 0, Len(x))
    BY <1>2, <1>3, <1>9, <2>1, <2>2, <2>3, PreadIs
  <2>5. Pread(c, ps, 0, Len(x)) = x
    BY <1>5, <2>4, ReadAll
  <2> QED BY <1>9, <2>1, <2>5 DEF VerifyDelta
<1>11. us \in Seq(Versions) /\ us # << >> /\ us[1] = vs[1]
  <2>1. us \in Seq(Versions) /\ Len(us) = Len(vs) + 1 /\ \A i \in 1 .. Len(vs) : us[i] = vs[i]
    BY <1>2, <1>8, AppendProperties
  <2>2. 1 \in 1 .. Len(vs) /\ Len(vs) \in Nat
    BY <1>2
  <2> QED BY <2>1, <2>2
<1>12. Published(us, ps, es, c)
  BY <1>2, <1>3, <1>9, <1>11 DEF Published
<1> QED BY <1>1, <1>8, <1>10, <1>12

\* The scan, and its hash.
Scanned ==
  stage = "scan" =>
    Scanning /\ target \in Versions /\ (Window => h = HashWin(target, p))

\* What holds in every state.
Inv ==
  /\ stage \in {"idle", "scan"} /\ h \in 0 .. (HashMod - 1)
  /\ Scanned
  /\ Published(versions, BaseSrc, deltas, map)

\* The oldest version, in one file or in three.
LEMMA InvInit == Init => Inv
<1> SUFFICES ASSUME Init PROVE Inv
  OBVIOUS
<1>1. PICK x : x \in Versions /\ versions = <<x>>
  BY DEF Init
<1>2. x \in Seq(Byte)
  BY <1>1, DeltaAssumption
<1>3. Whole(BaseSrc) /\ \E cut : Holding(BaseSrc, x, cut)
  <2>1. versions[1] = x
    BY <1>1
  <2>2. CASE BaseSrc \in {<<Part(versions[1])>>}
    <3>1. 0 \in 0 .. Len(x) /\ BaseSrc \in {<<Part(x)>>, InParts(x, 0)}
      BY <1>2, <2>1, <2>2
    <3> QED BY <1>2, <3>1, BaseHolds
  <2>3. CASE \E c \in Cuts : BaseSrc = InParts(versions[1], Min({c, Len(versions[1])}))
    <3>1. PICK c \in Cuts : BaseSrc = InParts(x, Min({c, Len(x)}))
      BY <2>1, <2>3
    <3>2. c \in Nat /\ Len(x) \in Nat
      BY <1>2, DeltaAssumption
    <3>3. PICK k : k = Min({c, Len(x)})
      OBVIOUS
    <3>4. k \in 0 .. Len(x)
      <4>1. PICK b : b = Len(x)
        OBVIOUS
      <4>2. k = Min({c, b}) /\ c \in Int /\ b \in Int
        BY <3>2, <3>3, <4>1
      <4>3. k \in Int /\ k <= b /\ (k = c \/ k = b)
        BY <4>2, MinOf
      <4> QED BY <3>2, <4>1, <4>3
    <3>5. BaseSrc \in {<<Part(x)>>, InParts(x, k)}
      BY <3>1, <3>3
    <3> QED BY <1>2, <3>4, <3>5, BaseHolds
  <2> QED BY <2>2, <2>3 DEF Init
<1>4. map = [ok |-> TRUE, size |-> Len(x), segs |-> << >>, adds |-> << >>]
  <2>1. TotalSize(BaseSrc) = Len(x)
    BY <1>3, TotalIs
  <2> QED BY <2>1 DEF Init, Plain
<1>5. map \in FlatMap
  <2>1. Len(x) \in Nat /\ << >> \in Seq(Segment) /\ << >> \in Seq(DeltaFile)
    BY <1>2
  <2> QED BY <1>4, <2>1 DEF FlatMap
<1>6. Chain(<<x>>, << >>, map, << >>)
  <2>1. PICK lits : lits = << >>
    OBVIOUS
  <2>2. lits \in Seq(Seq(Byte)) /\ Len(lits) = 0
    BY <2>1
  <2>3. map.adds = << >> /\ map.size = Len(x) /\ map.segs = << >> /\ map.adds \in Seq(DeltaFile) /\ Len(map.adds) = 0
    BY <1>4
  <2>4. PICK vs : vs = <<x>>
    OBVIOUS
  <2>5. Len(vs) = 1 /\ vs[1] = x /\ vs[Len(vs)] = x
    BY <2>4
  <2>6. Source(map, x, lits, x)
    BY <1>2, <2>1, <2>2, <2>3 DEF Source
  <2>7. Framed(map, lits)
    BY <2>2 DEF Framed
  <2>8. \A i \in 1 .. Len(lits) : FALSE
    BY <2>2
  <2>9. Chain(vs, << >>, map, lits)
    BY <2>2, <2>3, <2>5, <2>6, <2>7, <2>8 DEF Chain
  <2> QED BY <2>1, <2>4, <2>9
<1>7. Published(versions, BaseSrc, deltas, map)
  <2>1. versions \in Seq(Versions) /\ versions # << >> /\ versions[1] = x /\ deltas = << >>
    BY <1>1 DEF Init
  <2> QED BY <1>1, <1>3, <1>5, <1>6, <2>1 DEF Published
<1>8. stage = "idle" /\ h = 0
  BY DEF Init
<1> QED BY <1>7, <1>8, HashRange DEF Inv, Scanned

\* GenerateDelta begins a scan.
LEMMA InvStart ==
  ASSUME Inv, NEW t \in Versions, Start(t)
  PROVE  Inv'
<1>1. PICK x : x = t
  OBVIOUS
<1>2. x \in Seq(Byte) /\ x \in Versions /\ Len(x) \in Nat
  BY <1>1, DeltaAssumption
<1>3. /\ stage' = "scan" /\ target' = x /\ p' = 0 /\ litStart' = 0 /\ segs' = << >> /\ lit' = << >>
      /\ versions' = versions /\ BaseSrc' = BaseSrc /\ deltas' = deltas /\ map' = map
      /\ h' = IF Len(x) >= Anchor THEN HashWin(x, 0) ELSE 0
  BY <1>1 DEF Start
<1>4. Published(versions, BaseSrc, deltas, map)
  BY DEF Inv
<1>5. Newest \in Seq(Byte)
  <2>1. versions \in Seq(Versions) /\ Len(versions) \in 1 .. Len(versions)
    BY <1>4 DEF Published
  <2>2. versions[Len(versions)] \in Versions
    BY <2>1, ElementOfSeq
  <2> QED BY <2>2, DeltaAssumption DEF Newest
<1>6. Describes(<< >>, Newest, << >>, x, 0)
  <2>1. PICK s, l : s = << >> /\ l = << >>
    OBVIOUS
  <2>2. s \in Seq(RawSegment) /\ l \in Seq(Byte) /\ Len(s) = 0
    BY <2>1
  <2> DEFINE at == [i \in 0 .. 0 |-> 0]
  <2>3. at \in [0 .. 0 -> Nat] /\ at[0] = 0
    OBVIOUS
  <2> HIDE DEF at
  <2>4. EndToEnd(s, 0, at) /\ at[Len(s)] = 0
    BY <2>2, <2>3 DEF EndToEnd
  <2>5. \A i \in 1 .. Len(s) : FALSE
    BY <2>2
  <2>6. Describes(s, Newest, l, x, 0)
    BY <1>2, <1>5, <2>2, <2>4, <2>5 DEF Describes
  <2> QED BY <2>1, <2>6
<1>7. Newest' = Newest
  BY <1>3 DEF Newest
<1>8. Scanning'
  BY <1>2, <1>3, <1>6, <1>7 DEF Scanning
<1>9. Anchor \in Nat /\ (Window <=> p + Anchor <= Len(target))
  BY Modulus DEF Window
<1>10. Window' <=> p' + Anchor <= Len(target')
  BY DEF Window
<1>11. Window' => h' = HashWin(target', p')
  <2>1. p' + Anchor <= Len(target') => Len(x) >= Anchor
    BY <1>2, <1>3, <1>9
  <2> QED BY <1>3, <1>10, <2>1
<1>12. h' \in 0 .. (HashMod - 1)
  <2>1. Len(x) >= Anchor => 0 + Anchor <= Len(x)
    BY <1>2, <1>9
  <2>2. Len(x) >= Anchor => HashWin(x, 0) \in 0 .. (HashMod - 1)
    BY <1>2, <2>1, HashRange
  <2> QED BY <1>3, <2>2, HashRange
<1> QED BY <1>2, <1>3, <1>4, <1>8, <1>11, <1>12 DEF Inv, Scanned

\* It emits literals and a copy, and goes on behind the match.
LEMMA InvMatch ==
  ASSUME Inv, NEW o \in 0 .. Len(Newest), Match(o)
  PROVE  Inv'
<1> DEFINE f == ForwardLen(o)
           b == BackLen(o)
           e == EmitAdd(litStart, p - b)
           r == [kind |-> "COPY", len |-> f + b, srcOff |-> o - b]
<1>1. /\ stage = "scan" /\ Window /\ Matches(o) /\ stage' = "scan" /\ target' = target
      /\ versions' = versions /\ BaseSrc' = BaseSrc /\ deltas' = deltas /\ map' = map
      /\ lit' = e.lit /\ segs' = Append(e.segs, r) /\ p' = p + f /\ litStart' = p + f
      /\ h' = IF p + f + Anchor <= Len(target) THEN HashWin(target, p + f) ELSE h
  BY DEF Match
<1>2. Scanning /\ target \in Versions /\ Published(versions, BaseSrc, deltas, map) /\ h \in 0 .. (HashMod - 1)
  BY <1>1 DEF Inv, Scanned
<1>3. o \in Nat
  OBVIOUS
<1>4. /\ Describes(Append(e.segs, r), Newest, e.lit, target, p + f)
      /\ f \in Nat /\ p + f <= Len(target)
  BY <1>1, <1>2, <1>3, MatchIs
<1> HIDE DEF f, b, e, r
<1>5. p \in Nat /\ target \in Seq(Byte)
  BY <1>2, DeltaAssumption DEF Scanning
<1>6. PICK q : q = p + f
  OBVIOUS
<1>7. q \in Nat /\ q <= Len(target) /\ Anchor \in Nat
  BY <1>4, <1>5, <1>6, Modulus
<1>8. Newest' = Newest
  BY <1>1 DEF Newest
<1>9. Scanning'
  BY <1>1, <1>4, <1>6, <1>7, <1>8 DEF Scanning
<1>10. h' = IF q + Anchor <= Len(target) THEN HashWin(target, q) ELSE h
  BY <1>1, <1>6
<1>11. Window' <=> q + Anchor <= Len(target)
  BY <1>1, <1>6 DEF Window
<1>12. Window' => h' = HashWin(target', p')
  BY <1>1, <1>6, <1>10, <1>11
<1>13. h' \in 0 .. (HashMod - 1)
  BY <1>2, <1>5, <1>7, <1>10, HashRange
<1> QED BY <1>1, <1>2, <1>9, <1>12, <1>13 DEF Inv, Scanned

\* It rolls the hash by one byte.
LEMMA InvMiss ==
  ASSUME Inv, Miss
  PROVE  Inv'
<1>1. /\ stage = "scan" /\ Window /\ stage' = "scan" /\ target' = target
      /\ versions' = versions /\ BaseSrc' = BaseSrc /\ deltas' = deltas /\ map' = map
      /\ lit' = lit /\ segs' = segs /\ p' = p + 1 /\ litStart' = litStart
      /\ h' = IF p + Anchor < Len(target) THEN Roll(target, p, h) ELSE h
  BY DEF Miss
<1>2. /\ Scanning /\ target \in Versions /\ Published(versions, BaseSrc, deltas, map)
      /\ h \in 0 .. (HashMod - 1) /\ h = HashWin(target, p)
  BY <1>1 DEF Inv, Scanned
<1>3. p \in Nat /\ target \in Seq(Byte) /\ Anchor \in Nat /\ Anchor # 0 /\ Len(target) \in Nat
  BY <1>2, Modulus, DeltaAssumption DEF Scanning
<1>4. p + Anchor <= Len(target)
  BY <1>1 DEF Window
<1>5. PICK q, x : q = p + 1 /\ x = target
  OBVIOUS
<1>6. q \in Nat /\ q <= Len(x) /\ litStart <= q
  BY <1>2, <1>3, <1>4, <1>5 DEF Scanning
<1>7. Newest' = Newest
  BY <1>1 DEF Newest
<1>8. Scanning'
  BY <1>1, <1>2, <1>5, <1>6, <1>7 DEF Scanning
<1>9. p + Anchor < Len(target) => h' = HashWin(x, q)
  BY <1>1, <1>2, <1>3, <1>5, RollIs
<1>10. Window' <=> p + Anchor < Len(target)
  <2>1. Window' <=> q + Anchor <= Len(x)
    BY <1>1, <1>5 DEF Window
  <2> QED BY <1>3, <1>5, <2>1
<1>11. Window' => h' = HashWin(target', p')
  BY <1>1, <1>5, <1>9, <1>10
<1>12. h' \in 0 .. (HashMod - 1)
  <2>1. p + Anchor < Len(target) => q + Anchor <= Len(x)
    BY <1>3, <1>5
  <2> QED BY <1>1, <1>2, <1>3, <1>5, <1>6, <1>9, <2>1, HashRange
<1> QED BY <1>1, <1>2, <1>8, <1>11, <1>12 DEF Inv, Scanned

\* It returns, and what it made is composed and published.
LEMMA InvFinish ==
  ASSUME Inv, Finish
  PROVE  Inv'
<1>1. PICK d : d = Made(EmitAdd(litStart, Len(target)))
  OBVIOUS
<1>2. stage = "scan"
  BY DEF Finish
<1>3. Finishing
  BY <1>2 DEF Inv, Scanned, Finishing
<1>4. /\ VerifyDelta(Create(d, map), BaseSrc, target)
      /\ Published(Append(versions, target), BaseSrc, Append(deltas, d), Create(d, map))
  BY <1>1, <1>3, FinishIs
<1>5. /\ stage' = "idle" /\ versions' = Append(versions, target) /\ deltas' = Append(deltas, d)
      /\ map' = Create(d, map) /\ BaseSrc' = BaseSrc /\ h' = 0
  BY <1>1, <1>4 DEF Finish, Made, Return
<1> QED BY <1>4, <1>5, HashRange DEF Inv, Scanned

\* Every step keeps the invariant.
LEMMA InvNext == Inv /\ [Next]_vars => Inv'
<1> SUFFICES ASSUME Inv, [Next]_vars PROVE Inv'
  OBVIOUS
<1>1. ASSUME NEW t \in Versions, Start(t) PROVE Inv'
  BY <1>1, InvStart
<1>2. ASSUME NEW o \in 0 .. Len(Newest), Match(o) PROVE Inv'
  BY <1>2, InvMatch
<1>3. CASE Miss
  BY <1>3, InvMiss
<1>4. CASE Finish
  BY <1>4, InvFinish
<1>5. CASE Cancel
  BY <1>5, HashRange DEF Cancel, Return, Inv, Scanned
<1>6. CASE UNCHANGED vars
  BY <1>6 DEF vars, Inv, Scanned, Scanning, Window, Newest
<1> QED BY <1>1, <1>2, <1>3, <1>4, <1>5, <1>6 DEF Next

\* The invariant holds in every state of GenerateDelta and Create.
THEOREM Invariant == Spec => []Inv
BY InvInit, InvNext, PTL DEF Spec

-----------------------------------------------------------------------------
(***************************************************************************)
(* What follows from it.                                                   *)
(***************************************************************************)
\* GenerateDelta never makes a delta that Create or VerifyDelta refuses.
THEOREM NeverRejectedHolds == Spec => []NeverRejected
<1>1. Inv => NeverRejected
  BY DEF Inv, NeverRejected
<1> QED BY <1>1, Invariant, PTL

\* The rolling hash never drifts from the hash of the window it stands for.
THEOREM HashIsOfWindowHolds == Spec => []HashIsOfWindow
<1>1. Inv => HashIsOfWindow
  BY DEF Inv, Scanned, HashIsOfWindow
<1> QED BY <1>1, Invariant, PTL

\* What the segments s give, put together.
Given(s, y, l) ==
  FlattenSeq([i \in DOMAIN s |-> IF s[i].kind = "ADD" THEN Bytes(l, s[i].srcOff, s[i].len)
                                 ELSE Bytes(y, s[i].srcOff, s[i].len)])

\* Segments that describe the first b bytes give them.
LEMMA DescribesGives ==
  ASSUME NEW s, NEW y, NEW l, NEW x, NEW b, Describes(s, y, l, x, b)
  PROVE  Given(s, y, l) = Bytes(x, 0, b)
<1>1. s \in Seq(RawSegment) /\ y \in Seq(Byte) /\ l \in Seq(Byte) /\ x \in Seq(Byte)
  BY DEF Describes
<1>2. PICK at : /\ EndToEnd(s, 0, at) /\ at[Len(s)] = b
                /\ \A i \in 1 .. Len(s) :
                     /\ s[i].len # 0
                     /\ s[i].kind = "COPY" => Same(y, s[i].srcOff, x, at[i - 1], s[i].len)
                     /\ s[i].kind = "ADD" => Same(l, s[i].srcOff, x, at[i - 1], s[i].len)
  BY DEF Describes
<1>3. PICK n : n = Len(s)
  OBVIOUS
<1>4. /\ n \in Nat /\ DOMAIN s = 1 .. n /\ at \in [0 .. n -> Nat] /\ at[0] = 0 /\ at[n] = b
      /\ \A i \in 1 .. n : at[i] = at[i - 1] + s[i].len
  BY <1>1, <1>2, <1>3 DEF EndToEnd
<1> DEFINE part(i) == IF s[i].kind = "ADD" THEN Bytes(l, s[i].srcOff, s[i].len)
                      ELSE Bytes(y, s[i].srcOff, s[i].len)
           parts == [i \in DOMAIN s |-> part(i)]
           acc == [i \in 0 .. n |-> Bytes(x, 0, at[i])]
<1>5. ASSUME NEW i \in 1 .. n
      PROVE  /\ at[i - 1] \in Nat /\ at[i] \in Nat /\ at[i] <= Len(x) /\ at[i - 1] <= Len(x)
             /\ part(i) \in Seq(Byte) /\ Bytes(x, 0, at[i]) = Bytes(x, 0, at[i - 1]) \o part(i)
  <2>1. PICK k, o, q, r : k = s[i].len /\ o = s[i].srcOff /\ q = at[i - 1] /\ r = at[i]
    OBVIOUS
  <2>2. s[i] \in RawSegment
    BY <1>1, <1>3, ElementOfSeq
  <2>3. k \in Nat /\ o \in Nat /\ s[i].kind \in {"COPY", "ADD"}
    BY <2>1, <2>2 DEF RawSegment
  <2>4. q \in Nat /\ r = q + k
    <3>1. i - 1 \in 0 .. n
      BY <1>4
    <3> QED BY <1>4, <2>1, <3>1
  <2>5. PICK src : src = IF s[i].kind = "ADD" THEN l ELSE y
    OBVIOUS
  <2>6. src \in Seq(Byte) /\ Same(src, o, x, q, k) /\ part(i) = Bytes(src, o, k)
    BY <1>1, <1>2, <1>3, <2>1, <2>3, <2>5
  <2>7. part(i) = Bytes(x, q, k)
    <3>1. src \in Seq(Byte) /\ x \in Seq(Byte) /\ o \in Nat /\ q \in Nat /\ k \in Nat /\ Same(src, o, x, q, k)
      BY <1>1, <2>3, <2>4, <2>6
    <3>2. Bytes(src, o, k) = Bytes(x, q, k)
      BY <3>1, SameBytes
    <3> HIDE DEF part
    <3> QED BY <2>6, <3>2
  <2>8. q + k <= Len(x) /\ Len(x) \in Nat
    BY <1>1, <2>6 DEF Same
  <2>9. Bytes(x, q, k) \in Seq(Byte)
    BY <1>1, <2>3, <2>4, <2>8, BytesAre
  <2>10. Bytes(x, 0, q) \o Bytes(x, q, k) = Bytes(x, 0, r)
    <3>1. 0 + q = q /\ 0 + q + k <= Len(x) /\ 0 \in Nat
      BY <2>3, <2>4, <2>8
    <3>2. Bytes(x, 0, q) \o Bytes(x, 0 + q, k) = Bytes(x, 0, q + k)
      BY <1>1, <2>3, <2>4, <3>1, BytesJoin
    <3> QED BY <2>4, <3>1, <3>2
  <2>11. r \in Nat /\ r <= Len(x) /\ q <= Len(x)
    BY <2>3, <2>4, <2>8
  <2> HIDE DEF part
  <2> QED BY <2>1, <2>4, <2>7, <2>9, <2>10, <2>11
<1>6. parts \in Seq(Seq(Byte)) /\ Len(parts) = n /\ \A i \in 1 .. n : parts[i] = part(i)
  <2> HIDE DEF part
  <2> QED BY <1>4, <1>5
<1>7. \A i \in 0 .. n : at[i] \in Nat /\ at[i] <= Len(x)
  <2>1. ASSUME NEW i \in 0 .. n PROVE at[i] \in Nat /\ at[i] <= Len(x)
    <3>1. CASE i = 0
      BY <1>1, <1>4, <3>1
    <3>2. CASE i # 0
      <4>1. i \in 1 .. n
        BY <1>4, <3>2
      <4> HIDE DEF part
      <4> QED BY <1>5, <4>1
    <3> QED BY <3>1, <3>2
  <2> QED BY <2>1
<1>8. acc \in [0 .. n -> Seq(Byte)]
  <2>1. ASSUME NEW i \in 0 .. n PROVE Bytes(x, 0, at[i]) \in Seq(Byte)
    <3>1. PICK q : q = at[i]
      OBVIOUS
    <3>2. 0 \in Nat /\ q \in Nat /\ 0 + q <= Len(x)
      BY <1>7, <3>1
    <3>3. Bytes(x, 0, q) \in Seq(Byte)
      BY <1>1, <3>2, BytesAre
    <3> QED BY <3>1, <3>3
  <2> QED BY <2>1
<1>9. acc[0] = << >>
  <2>1. Bytes(x, 0, 0) = << >>
    BY NoBytes
  <2> QED BY <1>4, <2>1
<1>10. \A i \in 1 .. n : acc[i] = acc[i - 1] \o parts[i]
  <2>1. ASSUME NEW i \in 1 .. n PROVE acc[i] = acc[i - 1] \o parts[i]
    <3>1. i \in 0 .. n /\ i - 1 \in 0 .. n
      BY <1>4
    <3>2. acc[i] = Bytes(x, 0, at[i]) /\ acc[i - 1] = Bytes(x, 0, at[i - 1])
      BY <3>1
    <3> HIDE DEF part, parts, acc
    <3> QED BY <1>5, <1>6, <3>2
  <2> QED BY <2>1
<1>11. acc[n] = Bytes(x, 0, b)
  BY <1>4
<1>12. FlattenSeq(parts) = Bytes(x, 0, b)
  <2> HIDE DEF parts, acc
  <2>1. FlattenSeq(parts) = acc[Len(parts)]
    BY <1>6, <1>8, <1>9, <1>10, FlattenIs
  <2> QED BY <1>6, <1>11, <2>1
<1> QED BY <1>12 DEF Given

\* The scan never emits a byte twice and leaves none out.
THEOREM ScanCoversHolds == Spec => []ScanCovers
<1>1. Inv => ScanCovers
  <2> SUFFICES ASSUME Inv, stage = "scan"
               PROVE  litStart <= p /\ Given(segs, Newest, lit) = Bytes(target, 0, litStart)
    BY DEF ScanCovers, Given
  <2>1. litStart <= p /\ Describes(segs, Newest, lit, target, litStart)
    BY DEF Inv, Scanned, Scanning
  <2> QED BY <2>1, DescribesGives
<1> QED BY <1>1, Invariant, PTL

\* What is published has the bytes of the newest version below its map.
Serving(lits, cut) ==
  /\ Serves(map, versions[1], lits, Newest) /\ Holding(BaseSrc, versions[1], cut)
  /\ Whole(BaseSrc) /\ Framed(map, lits)
  /\ map \in FlatMap /\ Len(map.adds) = Len(lits)
  /\ versions[1] \in Seq(Byte) /\ Newest \in Seq(Byte)

\* A chain with a delta has them.
LEMMA Publishes ==
  ASSUME Inv, Len(versions) > 1
  PROVE  \E lits, cut : Serving(lits, cut)
<1>1. PICK lits : Chain(versions, deltas, map, lits)
  BY DEF Inv, Published
<1>2. PICK cut : Holding(BaseSrc, versions[1], cut)
  BY DEF Inv, Published
<1>3. /\ lits \in Seq(Seq(Byte)) /\ Len(versions) = Len(lits) + 1
      /\ Source(map, versions[1], lits, Newest) /\ Framed(map, lits)
  BY <1>1 DEF Chain, Newest
<1>4. lits # << >>
  BY <1>3
<1>5. Serves(map, versions[1], lits, Newest) /\ Len(map.adds) = Len(lits)
  BY <1>3, <1>4 DEF Source
<1>6. versions[1] \in Seq(Byte) /\ Newest \in Seq(Byte)
  BY <1>5 DEF Serves
<1>7. Serving(lits, cut)
  BY <1>2, <1>3, <1>5, <1>6 DEF Inv, Published, Serving
<1> QED BY <1>7

\* Every read of a chain, at any offset and of any length, returns the bytes of
\* the newest version, however many deltas lie below it.
THEOREM ReadsNewestHolds == Spec => []ReadsNewest
<1>1. Inv => ReadsNewest
  <2> SUFFICES ASSUME Inv, Len(versions) > 1,
                      NEW off \in 0 .. (Len(Newest) + 1), NEW n \in 0 .. (Len(Newest) + 1)
               PROVE  Pread(map, BaseSrc, off, n) = ReadFile(Newest, off, n)
    BY DEF ReadsNewest
  <2>1. PICK lits, cut : Serving(lits, cut)
    BY Publishes
  <2>2. PICK m, ps, base, x : m = map /\ ps = BaseSrc /\ base = versions[1] /\ x = Newest
    OBVIOUS
  <2>3. Serves(m, base, lits, x) /\ Holding(ps, base, cut) /\ Whole(ps) /\ Framed(m, lits)
    BY <2>1, <2>2 DEF Serving
  <2>4. off \in Nat /\ n \in Nat
    OBVIOUS
  <2>5. Pread(m, ps, off, n) = ReadFile(x, off, n)
    BY <2>3, <2>4, PreadIs
  <2> QED BY <2>2, <2>5
<1> QED BY <1>1, Invariant, PTL

\* A read in x through a map is right or fails.
LEMMA RightIs ==
  ASSUME NEW m, NEW ps, NEW base, NEW lits, NEW cut, Serves(m, base, lits, Newest), Holding(ps, base, cut)
  PROVE  RightOrFails(m, ps)
<1>1. PICK x : x = Newest
  OBVIOUS
<1>2. x \in Seq(Byte) /\ Len(x) \in Nat /\ Serves(m, base, lits, x)
  <2>1. Serves(m, base, lits, x)
    BY <1>1
  <2>2. x \in Seq(Byte)
    BY <2>1 DEF Serves
  <2> QED BY <2>1, <2>2
<1>3. ASSUME NEW off \in 0 .. (Len(x) - 1), NEW n \in {1, Len(x) - off}
      PROVE  Pread(m, ps, off, n) \in {ReadFile(x, off, n), EIO}
  <2>1. off \in Nat /\ n \in Nat
    BY <1>2
  <2> QED BY <1>2, <2>1, PreadIs
<1> QED BY <1>1, <1>3 DEF RightOrFails

\* A part of the base with another file, the same up to where both go.
Changed(ps, base, cut, i, g) ==
  /\ Holding(ps, base, cut) /\ Whole(ps) /\ i \in 1 .. Len(ps) /\ g \in Seq(Byte)
  /\ \A j \in Nat \ {0} : j <= ps[i].len /\ j <= Len(g) => g[j] = ps[i].file[j]

\* It still holds the base as far as it goes.
LEMMA HoldingStill ==
  ASSUME NEW ps, NEW base, NEW cut, NEW i, NEW g, Changed(ps, base, cut, i, g)
  PROVE  Holding([ps EXCEPT ![i].file = g], base, cut)
<1>1. PICK n, k, q : n = Len(ps) /\ k = ps[i].len /\ q = [ps EXCEPT ![i].file = g]
  OBVIOUS
<1>2. /\ ps \in Seq([file : Seq(Byte), len : Nat]) /\ ps # << >> /\ base \in Seq(Byte)
      /\ EndToEnd(ps, 0, cut) /\ cut[n] = Len(base) /\ n \in Nat
      /\ i \in 1 .. n /\ g \in Seq(Byte)
  BY <1>1 DEF Changed, Holding
<1>3. ps[i] \in [file : Seq(Byte), len : Nat] /\ \A j \in 1 .. n : ps[j] \in [file : Seq(Byte), len : Nat]
  BY <1>1, <1>2, ElementOfSeq
<1>4. PICK r : r = [file |-> g, len |-> k]
  OBVIOUS
<1>5. r \in [file : Seq(Byte), len : Nat] /\ r.file = g /\ r.len = k
  BY <1>1, <1>2, <1>3, <1>4
<1>6. q = [ps EXCEPT ![i] = r]
  <2>1. [ps[i] EXCEPT !.file = g] = r
    BY <1>1, <1>3, <1>4
  <2>2. q = [ps EXCEPT ![i] = [ps[i] EXCEPT !.file = g]]
    BY <1>1
  <2> QED BY <2>1, <2>2
<1>7. DOMAIN ps = 1 .. n
  BY <1>1, <1>2
<1>8. q[i] = r /\ \A j \in 1 .. n : j # i => q[j] = ps[j]
  BY <1>2, <1>6, <1>7
<1>9. q \in Seq([file : Seq(Byte), len : Nat]) /\ Len(q) = n /\ q # << >>
  <2>1. PICK R : R = [file : Seq(Byte), len : Nat]
    OBVIOUS
  <2>2. ps \in [1 .. n -> R] /\ r \in R
    <3>1. ps \in Seq(R) /\ r \in R
      BY <1>2, <1>5, <2>1
    <3> QED BY <1>1, <3>1
  <2>3. q \in [1 .. n -> R]
    BY <1>6, <2>2
  <2>4. q \in Seq(R) /\ Len(q) = n
    BY <1>2, <2>3
  <2>5. q # << >>
    BY <1>2, <2>4
  <2> QED BY <2>1, <2>4, <2>5
<1>10. \A j \in 1 .. n : q[j].len = ps[j].len
  BY <1>1, <1>5, <1>8
<1>11. EndToEnd(q, 0, cut)
  BY <1>1, <1>2, <1>9, <1>10 DEF EndToEnd
<1>12. ASSUME NEW a \in 1 .. n, NEW j \in Nat \ {0}, j <= q[a].len, j <= Len(q[a].file)
       PROVE  q[a].file[j] = base[cut[a - 1] + j]
  <2>1. j <= ps[a].len /\ ps[a].len \in Nat /\ Len(ps[a].file) \in Nat
    BY <1>3, <1>10, <1>12
  <2>2. j <= Len(ps[a].file)
    <3>1. ps[a].len <= Len(ps[a].file)
      BY <1>1 DEF Changed, Whole
    <3> QED BY <2>1, <3>1
  <2>3. ps[a].file[j] = base[cut[a - 1] + j]
    BY <1>1, <2>1, <2>2 DEF Changed, Holding
  <2>4. CASE a = i
    <3>1. j <= Len(g) /\ q[a].file = g
      BY <1>5, <1>8, <1>12, <2>4
    <3>2. g[j] = ps[i].file[j]
      BY <2>1, <2>4, <3>1 DEF Changed
    <3> QED BY <2>3, <2>4, <3>1, <3>2
  <2>5. CASE a # i
    BY <1>8, <2>3, <2>5
  <2> QED BY <2>4, <2>5
<1>13. Holding(q, base, cut)
  BY <1>2, <1>9, <1>11, <1>12 DEF Holding
<1> QED BY <1>1, <1>13

\* A map whose delta i has n frames left still describes the same.
LEMMA ServesStill ==
  ASSUME NEW m \in FlatMap, NEW base, NEW lits, NEW x, Serves(m, base, lits, x),
         NEW i \in 1 .. Len(m.adds), NEW n \in Int
  PROVE  Serves([m EXCEPT !.adds[i].frames = n], base, lits, x)
<1>1. PICK c, ads, k : c = [m EXCEPT !.adds[i].frames = n] /\ ads = m.adds /\ k = Len(m.adds)
  OBVIOUS
<1>2. ads \in Seq(DeltaFile) /\ DOMAIN ads = 1 .. k /\ i \in 1 .. k
  BY <1>1 DEF FlatMap
<1>3. ads[i] \in DeltaFile
  BY <1>1, <1>2, ElementOfSeq
<1>4. c.size = m.size /\ c.segs = m.segs /\ c.adds = [ads EXCEPT ![i].frames = n]
  BY <1>1 DEF FlatMap
<1>5. /\ c.adds[i].blocks = ads[i].blocks /\ c.adds[i].frames = n
      /\ \A a \in 1 .. k : a # i => c.adds[a] = ads[a]
  BY <1>2, <1>3, <1>4 DEF DeltaFile
<1>6. ASSUME NEW a \in 1 .. Len(lits)
      PROVE  c.adds[a].blocks = CutBlocks(lits[a]) /\ c.adds[a].frames \in Int
  <2>1. ads[a].blocks = CutBlocks(lits[a]) /\ ads[a].frames \in Int
    BY <1>1 DEF Serves
  <2>2. CASE a = i
    BY <1>5, <2>1, <2>2
  <2>3. CASE a # i
    <3>1. c.adds[a] = ads[a]
      BY <1>2, <1>4, <2>3
    <3> QED BY <2>1, <3>1
  <2> QED BY <2>2, <2>3
<1>7. Serves(c, base, lits, x)
  BY <1>4, <1>6 DEF Serves
<1> QED BY <1>1, <1>7

\* A base file cut short or grown, or a delta that lost frames, while it is
\* mounted: every read still returns the newest version's bytes or fails.
THEOREM DamageIsSeenHolds == Spec => []DamageIsSeen
<1>1. ASSUME Inv, Len(versions) > 1
      PROVE  /\ \A i \in DOMAIN BaseSrc : \A n \in 0 .. (BaseSrc[i].len - 1) :
                  RightOrFails(map, [BaseSrc EXCEPT ![i].file = SubSeq(BaseSrc[i].file, 1, n)])
             /\ \A i \in DOMAIN BaseSrc, b \in Byte :
                  RightOrFails(map, [BaseSrc EXCEPT ![i].file = Append(BaseSrc[i].file, b)])
             /\ \A i \in DOMAIN map.adds : \A n \in 0 .. (map.adds[i].frames - 1) :
                  RightOrFails([map EXCEPT !.adds[i].frames = n], BaseSrc)
  <2>1. PICK lits, cut : Serving(lits, cut)
    BY <1>1, Publishes
  <2>2. PICK m, ps, base : m = map /\ ps = BaseSrc /\ base = versions[1]
    OBVIOUS
  <2>3. /\ Serves(m, base, lits, Newest) /\ Holding(ps, base, cut) /\ Whole(ps) /\ m \in FlatMap
    BY <2>1, <2>2 DEF Serving
  <2>4. ps \in Seq([file : Seq(Byte), len : Nat]) /\ DOMAIN ps = 1 .. Len(ps)
    BY <2>3 DEF Holding
  <2>5. ASSUME NEW i \in DOMAIN ps
        PROVE  ps[i].file \in Seq(Byte) /\ ps[i].len \in Nat /\ ps[i].len <= Len(ps[i].file) /\ i \in 1 .. Len(ps)
    <3>1. i \in 1 .. Len(ps)
      BY <2>4, <2>5
    <3>2. ps[i] \in [file : Seq(Byte), len : Nat]
      BY <2>4, <3>1, ElementOfSeq
    <3> QED BY <2>3, <3>1, <3>2 DEF Whole
  <2>6. ASSUME NEW i \in DOMAIN ps, NEW n \in 0 .. (ps[i].len - 1)
        PROVE  RightOrFails(m, [ps EXCEPT ![i].file = SubSeq(ps[i].file, 1, n)])
    <3>1. PICK x, g : x = ps[i].file /\ g = SubSeq(ps[i].file, 1, n)
      OBVIOUS
    <3>2. x \in Seq(Byte) /\ n \in Nat /\ 0 + n <= Len(x)
      BY <2>5, <3>1
    <3>3. g = Bytes(x, 0, n)
      BY <3>1, <3>2 DEF Bytes
    <3>4. Bytes(x, 0, n) \in Seq(Byte) /\ Len(Bytes(x, 0, n)) = n /\ \A j \in 1 .. n : Bytes(x, 0, n)[j] = x[0 + j]
      BY <3>2, BytesAre
    <3>5. \A j \in Nat \ {0} : j <= Len(g) => g[j] = x[j]
      BY <3>2, <3>3, <3>4
    <3>6. Changed(ps, base, cut, i, g)
      BY <2>3, <2>5, <3>1, <3>3, <3>4, <3>5 DEF Changed
    <3>7. Holding([ps EXCEPT ![i].file = g], base, cut)
      BY <3>6, HoldingStill
    <3> QED BY <2>3, <3>1, <3>7, RightIs
  <2>7. ASSUME NEW i \in DOMAIN ps, NEW b \in Byte
        PROVE  RightOrFails(m, [ps EXCEPT ![i].file = Append(ps[i].file, b)])
    <3>1. PICK x, g : x = ps[i].file /\ g = Append(ps[i].file, b)
      OBVIOUS
    <3>2. x \in Seq(Byte) /\ ps[i].len <= Len(x) /\ ps[i].len \in Nat /\ Len(x) \in Nat
      BY <2>5, <3>1
    <3>3. g \in Seq(Byte) /\ \A j \in 1 .. Len(x) : g[j] = x[j]
      BY <3>1, <3>2, AppendProperties
    <3>4. \A j \in Nat \ {0} : j <= ps[i].len => g[j] = x[j]
      BY <3>2, <3>3
    <3>5. Changed(ps, base, cut, i, g)
      BY <2>3, <2>5, <3>1, <3>3, <3>4 DEF Changed
    <3>6. Holding([ps EXCEPT ![i].file = g], base, cut)
      BY <3>5, HoldingStill
    <3> QED BY <2>3, <3>1, <3>6, RightIs
  <2>8. ASSUME NEW i \in DOMAIN m.adds, NEW n \in 0 .. (m.adds[i].frames - 1)
        PROVE  RightOrFails([m EXCEPT !.adds[i].frames = n], ps)
    <3>1. i \in 1 .. Len(m.adds) /\ n \in Int
      BY <2>3, <2>8 DEF FlatMap
    <3>2. Serves([m EXCEPT !.adds[i].frames = n], base, lits, Newest)
      BY <2>3, <3>1, ServesStill
    <3> QED BY <2>3, <3>2, RightIs
  <2> QED BY <2>2, <2>6, <2>7, <2>8
<1>2. Inv => DamageIsSeen
  BY <1>1 DEF DamageIsSeen
<1> QED BY <1>2, Invariant, PTL

\* The flat map of a chain is well formed.
LEMMA ServesTyped ==
  ASSUME NEW m, NEW base, NEW lits, NEW x, Serves(m, base, lits, x), NEW i \in DOMAIN m.segs
  PROVE  LET s == m.segs[i]
         IN  /\ s.len > 0 /\ s.targetOff = SizeOf(SubSeq(m.segs, 1, i - 1))
             /\ s.kind = "COPY" => s.srcOff + s.len <= Len(base)
             /\ s.kind = "ADD" => s.addSrc \in 1 .. Len(lits)
<1>1. PICK t, n, s : t = m.segs /\ n = Len(m.segs) /\ s = m.segs[i]
  OBVIOUS
<1>2. t \in Seq(Segment)
  BY <1>1 DEF Serves
<1>3. n \in Nat /\ i \in 1 .. n /\ DOMAIN t = 1 .. n
  BY <1>1, <1>2
<1>4. PICK at : /\ EndToEnd(t, 0, at)
                /\ \A k \in 1 .. n : t[k].targetOff = at[k - 1] /\ Backed(t[k], base, lits, x, at[k - 1])
  BY <1>1 DEF Serves
<1>5. s.targetOff = at[i - 1] /\ Backed(s, base, lits, x, at[i - 1])
  BY <1>1, <1>3, <1>4
<1>6. SizeOf(SubSeq(t, 1, i - 1)) = at[i - 1]
  <2>1. ASSUME NEW k \in 1 .. Len(t) PROVE t[k].len \in Nat
    <3>1. t[k] \in Segment
      BY <1>2, ElementOfSeq
    <3> QED BY <3>1 DEF Segment
  <2>2. i \in 1 .. (Len(t) + 1)
    BY <1>1, <1>3
  <2> QED BY <1>2, <1>4, <2>1, <2>2, PrefixIs
<1>7. s.len \in Nat /\ s.len # 0
  BY <1>5 DEF Backed, Segment
<1>8. s.kind = "COPY" => s.srcOff + s.len <= Len(base)
  BY <1>5 DEF Backed, Same
<1>9. s.kind = "ADD" => s.addSrc \in 1 .. Len(lits)
  BY <1>5 DEF Backed
<1> QED BY <1>1, <1>5, <1>6, <1>7, <1>8, <1>9

\* The flat map of a chain of any length has its segments end to end, none of
\* them empty, its copies in the oldest version, its literals in the chain.
THEOREM TypeCorrect == Spec => []TypeOK
<1>1. Inv => TypeOK
  <2> SUFFICES ASSUME Inv PROVE TypeOK
    OBVIOUS
  <2>1. PICK lits : Chain(versions, deltas, map, lits)
    BY DEF Inv, Published
  <2>2. /\ lits \in Seq(Seq(Byte)) /\ Len(versions) = Len(lits) + 1
        /\ Source(map, versions[1], lits, Newest) /\ (lits = << >> => map.segs = << >>)
    BY <2>1 DEF Chain, Newest
  <2>3. Len(map.adds) = Len(lits) /\ map.adds \in Seq(DeltaFile)
    BY <2>2 DEF Source
  <2>4. Len(lits) \in Nat /\ DOMAIN map.adds = 1 .. Len(lits)
    BY <2>2, <2>3
  <2>5. ASSUME NEW i \in DOMAIN map.segs
        PROVE  LET s == map.segs[i]
               IN  /\ s.len > 0 /\ s.targetOff = SizeOf(SubSeq(map.segs, 1, i - 1))
                   /\ s.kind = "COPY" => s.srcOff + s.len <= Len(versions[1])
                   /\ s.kind = "ADD" => s.addSrc \in DOMAIN map.adds
    <3>1. lits # << >>
      BY <2>2, <2>5
    <3>2. PICK m, base : m = map /\ base = versions[1]
      OBVIOUS
    <3>3. Serves(m, base, lits, Newest)
      BY <2>2, <3>1, <3>2 DEF Source
    <3>4. i \in DOMAIN m.segs
      BY <3>2
    <3>5. LET s == m.segs[i]
          IN  /\ s.len > 0 /\ s.targetOff = SizeOf(SubSeq(m.segs, 1, i - 1))
              /\ s.kind = "COPY" => s.srcOff + s.len <= Len(base)
              /\ s.kind = "ADD" => s.addSrc \in 1 .. Len(lits)
      BY <3>3, <3>4, ServesTyped
    <3> QED BY <2>4, <3>2, <3>5
  <2>6. Len(map.adds) = Len(versions) - 1
    BY <2>2, <2>3, <2>4
  <2>7. stage \in {"idle", "scan", "rejected"} /\ h \in 0 .. (HashMod - 1)
    BY DEF Inv
  <2> QED BY <2>5, <2>6, <2>7 DEF TypeOK
<1> QED BY <1>1, Invariant, PTL

\* The deltas es composed on the parts ps go from a map in T to a map in T.
Mounting(es, ps, T) ==
  /\ DOMAIN es = 1 .. Len(es) /\ Len(es) \in Nat /\ Len(es) # 0
  /\ Plain(ps) \in T /\ \A i \in 1 .. Len(es) : \A m \in T : Create(es[i], m) \in T

\* So what surfaces is the last of them, over a map in T.
LEMMA MountIs ==
  ASSUME NEW es, NEW ps, NEW T, Mounting(es, ps, T)
  PROVE  \E m \in T : MountChain(es, ps) = Create(es[Len(es)], m)
<1> DEFINE n == Len(es)
           base == Plain(ps)
           op == [i \in 1 .. n |-> [m \in T |-> Create(es[i], m)]]
           Eq(g) == g = [S \in SUBSET DOMAIN es |-> IF S = {} THEN base ELSE Create(es[Max(S)], g[S \ {Max(S)}])]
           iter == CHOOSE g : Eq(g)
<1>1. MountChain(es, ps) = iter[DOMAIN es]
  BY DEF MountChain, FoldLeft, MapThenFoldSet
<1>2. /\ n \in Nat /\ n # 0 /\ DOMAIN es = 1 .. n /\ base \in T
      /\ \A i \in 1 .. n : op[i] \in [T -> T]
  BY DEF Mounting
<1>3. ASSUME NEW S \in SUBSET (1 .. n), S # {}
      PROVE  Max(S) \in 1 .. n
  <2>1. S \subseteq 0 .. n
    OBVIOUS
  <2>2. Max(S) \in S
    BY <1>2, <1>3, <2>1, Greatest
  <2> QED BY <2>2
<1>4. \E g : Eq(g)
  <2>1. PICK f : Folds(n, T, base, op, f)
    <3> HIDE DEF op, n, base
    <3> QED BY <1>2, FoldExists, Zenon
  <2>2. ASSUME NEW S \in SUBSET DOMAIN es
        PROVE  f[S] = IF S = {} THEN base ELSE Create(es[Max(S)], f[S \ {Max(S)}])
    <3>1. CASE S # {}
      <4>1. Max(S) \in 1 .. n /\ S \in SUBSET (1 .. n) /\ S \ {Max(S)} \in SUBSET (1 .. n)
        BY <1>2, <1>3, <3>1
      <4>2. f[S \ {Max(S)}] \in T /\ f[S] = op[Max(S)][f[S \ {Max(S)}]]
        BY <2>1, <3>1, <4>1 DEF Folds
      <4> HIDE DEF n, base
      <4> QED BY <3>1, <4>1, <4>2
    <3>2. CASE S = {}
      BY <1>2, <2>1, <3>2 DEF Folds
    <3> QED BY <3>1, <3>2
  <2>3. f = [S \in SUBSET DOMAIN es |-> f[S]]
    BY <1>2, <2>1 DEF Folds
  <2>4. Eq(f)
    BY <2>2, <2>3, Zenon
  <2> QED BY <2>4
<1>5. Eq(iter)
  BY <1>4
<1> HIDE DEF iter
<1>6. iter[{}] = base
  BY <1>5
<1>7. PICK acc : Totals(n, T, base, op, acc)
  <2> HIDE DEF op, n, base
  <2> QED BY <1>2, Accumulates, Zenon
<1>8. \A S \in SUBSET (1 .. n) :
        S # {} /\ iter[S \ {Max(S)}] \in T => iter[S] = op[Max(S)][iter[S \ {Max(S)}]]
  <2>1. ASSUME NEW S \in SUBSET (1 .. n), S # {}, iter[S \ {Max(S)}] \in T
        PROVE  iter[S] = op[Max(S)][iter[S \ {Max(S)}]]
    <3>1. Max(S) \in 1 .. n
      BY <1>3, <2>1
    <3>2. iter[S] = Create(es[Max(S)], iter[S \ {Max(S)}])
      BY <1>2, <1>5, <2>1
    <3> HIDE DEF n, base
    <3> QED BY <2>1, <3>1, <3>2
  <2> QED BY <2>1
<1>9. Unfolds(n, T, base, op, acc, iter)
  <2> HIDE DEF op, n, base
  <2> QED BY <1>2, <1>6, <1>7, <1>8 DEF Unfolds
<1>10. iter[1 .. n] = acc[n]
  <2> HIDE DEF n, op, base
  <2> QED BY <1>9, FoldTotals
<1>11. acc[n - 1] \in T /\ acc[n] = op[n][acc[n - 1]]
  <2>1. n - 1 \in 0 .. n /\ n \in 1 .. n
    BY <1>2
  <2> HIDE DEF n, op, base
  <2> QED BY <1>7, <2>1 DEF Totals
<1>12. acc[n] = Create(es[n], acc[n - 1])
  <2>1. n \in 1 .. n
    BY <1>2
  <2> HIDE DEF n, base
  <2> QED BY <1>11, <2>1
<1> QED BY <1>1, <1>2, <1>10, <1>11, <1>12

\* A chain of versions of different sizes, and its deltas, some of them lost.
Broken(vs, ds, m, lits, ps, cut, lost, es) ==
  /\ vs \in Seq(Seq(Byte)) /\ Chain(vs, ds, m, lits) /\ Holding(ps, vs[1], cut)
  /\ \A i, j \in DOMAIN vs : i # j => Len(vs[i]) # Len(vs[j])
  /\ es = [i \in DOMAIN ds |-> IF i \in lost THEN [ds[i] EXCEPT !.frames = -1] ELSE ds[i]]

\* The maps of its versions.
MapsOf(vs) ==
  {c \in FlatMap : \E j \in 1 .. Len(vs), ls \in Seq(Seq(Byte)) : Source(c, vs[1], ls, vs[j])}

\* A delta is refused, or makes its version.
LEMMA BrokenStep ==
  ASSUME NEW vs, NEW ds, NEW m, NEW lits, NEW ps, NEW cut, NEW lost, NEW es,
         Broken(vs, ds, m, lits, ps, cut, lost, es), NEW i \in 1 .. Len(lits), NEW c \in MapsOf(vs)
  PROVE  \/ Create(es[i], c) = Refused(c)
         \/ \E ls : /\ ls # << >> /\ ls \in Seq(Seq(Byte))
                    /\ Source(Create(es[i], c), vs[1], ls, vs[i + 1]) /\ Create(es[i], c) \in FlatMap
<1>1. PICK d, l, y, x, base : d = ds[i] /\ l = lits[i] /\ y = vs[i] /\ x = vs[i + 1] /\ base = vs[1]
  OBVIOUS
<1>2. /\ vs \in Seq(Seq(Byte)) /\ lits \in Seq(Seq(Byte)) /\ Len(vs) = Len(lits) + 1
      /\ Makes(d, y, l, x) /\ m.adds = ds /\ Len(m.adds) = Len(lits) /\ m.adds \in Seq(DeltaFile)
      /\ \A a, b \in DOMAIN vs : a # b => Len(vs[a]) # Len(vs[b])
  BY <1>1 DEF Broken, Chain, Source
<1>3. i \in DOMAIN ds /\ i \in DOMAIN vs /\ DOMAIN vs = 1 .. Len(vs)
  BY <1>2
<1>4. es[i] = IF i \in lost THEN [d EXCEPT !.frames = -1] ELSE d
  BY <1>1, <1>3 DEF Broken
<1>5. d \in DeltaFile /\ l \in Seq(Byte) /\ d.baseSize = Len(y)
  BY <1>2 DEF Makes, Describes
<1>6. CASE i \in lost
  <2>1. es[i].frames = -1
    BY <1>4, <1>5, <1>6 DEF DeltaFile
  <2>2. ~(es[i].frames >= 0)
    BY <2>1
  <2> QED BY <2>2 DEF Create, Parses
<1>7. CASE i \notin lost /\ d.baseSize # c.size
  BY <1>4, <1>7 DEF Create
<1>8. CASE i \notin lost /\ d.baseSize = c.size
  <2>1. PICK j \in 1 .. Len(vs), ls \in Seq(Seq(Byte)) : Source(c, base, ls, vs[j])
    BY <1>1 DEF MapsOf
  <2>2. Len(vs[j]) = Len(vs[i])
    BY <1>1, <1>5, <1>8, <2>1 DEF Source
  <2>3. j = i
    BY <1>2, <1>3, <2>2
  <2>4. Over(d, c, base, ls, y, l, x)
    BY <1>1, <1>2, <2>1, <2>3 DEF Over
  <2>5. PICK new : new = Append(ls, l)
    OBVIOUS
  <2>6. new \in Seq(Seq(Byte))
    BY <1>5, <2>1, <2>5, AppendProperties
  <2>7. Created(Create(d, c), d, c, base, ls, l, x)
    BY <2>4, CreateIs
  <2>8. new # << >> /\ Source(Create(d, c), base, new, x) /\ Create(d, c) \in FlatMap
    BY <2>5, <2>7 DEF Created
  <2>9. es[i] = d
    BY <1>4, <1>8
  <2> QED BY <1>1, <2>6, <2>8, <2>9
<1> QED BY <1>6, <1>7, <1>8

\* A refused map is what it was, but for its mark.
LEMMA RefusedIs ==
  ASSUME NEW vs, NEW c \in MapsOf(vs)
  PROVE  Refused(c) \in MapsOf(vs) /\ Refused(c).ok = FALSE
<1>1. PICK r : r = Refused(c)
  OBVIOUS
<1>2. c \in FlatMap
  BY DEF MapsOf
<1>3. r \in FlatMap /\ r.ok = FALSE /\ r.size = c.size /\ r.segs = c.segs /\ r.adds = c.adds
  BY <1>1, <1>2 DEF Refused, FlatMap
<1>4. PICK j \in 1 .. Len(vs), ls \in Seq(Seq(Byte)) : Source(c, vs[1], ls, vs[j])
  BY DEF MapsOf
<1>5. PICK base, y : base = vs[1] /\ y = vs[j]
  OBVIOUS
<1>6. Serves(c, base, ls, y) => Serves(r, base, ls, y)
  BY <1>3 DEF Serves
<1>7. Source(r, base, ls, y)
  BY <1>3, <1>4, <1>5, <1>6 DEF Source
<1> QED BY <1>1, <1>3, <1>4, <1>5, <1>7 DEF MapsOf

\* What surfaces of a broken chain is a source of its last version, or refused.
LEMMA BrokenIs ==
  ASSUME NEW vs, NEW ds, NEW m, NEW lits, NEW ps, NEW cut, NEW lost, NEW es,
         Broken(vs, ds, m, lits, ps, cut, lost, es), ds # << >>, MountChain(es, ps).ok
  PROVE  \E ls : ls # << >> /\ Source(MountChain(es, ps), vs[1], ls, vs[Len(vs)])
<1>1. PICK n : n = Len(lits)
  OBVIOUS
<1>2. /\ vs \in Seq(Seq(Byte)) /\ lits \in Seq(Seq(Byte)) /\ Len(vs) = n + 1
      /\ ds \in Seq(DeltaFile) /\ Len(ds) = n /\ Holding(ps, vs[1], cut) /\ vs[1] \in Seq(Byte)
  BY <1>1 DEF Broken, Chain, Source
<1>3. n \in Nat /\ n # 0 /\ n \in 1 .. n /\ DOMAIN ds = 1 .. n /\ 1 \in 1 .. Len(vs)
  BY <1>1, <1>2
<1>4. DOMAIN es = 1 .. n /\ Len(es) = n
  BY <1>3 DEF Broken
<1>5. PICK T : T = MapsOf(vs)
  OBVIOUS
<1>6. Plain(ps) \in T
  <2>1. PICK c, ls : c = Plain(ps) /\ ls = << >>
    OBVIOUS
  <2>2. TotalSize(ps) = Len(vs[1]) /\ Len(vs[1]) \in Nat
    <3>1. PICK base : base = vs[1]
      OBVIOUS
    <3>2. Holding(ps, base, cut)
      BY <1>2, <3>1
    <3>3. TotalSize(ps) = Len(base)
      BY <3>2, TotalIs
    <3> QED BY <1>2, <3>1, <3>3
  <2>3. c = [ok |-> TRUE, size |-> Len(vs[1]), segs |-> << >>, adds |-> << >>]
    BY <2>1, <2>2 DEF Plain
  <2>4. << >> \in Seq(Segment) /\ << >> \in Seq(DeltaFile)
    OBVIOUS
  <2>5. c \in FlatMap /\ c.adds \in Seq(DeltaFile) /\ Len(c.adds) = 0 /\ c.size = Len(vs[1])
    BY <2>2, <2>3, <2>4 DEF FlatMap
  <2>6. ls \in Seq(Seq(Byte)) /\ Len(ls) = 0
    BY <2>1
  <2>7. Source(c, vs[1], ls, vs[1])
    BY <1>2, <2>1, <2>5, <2>6 DEF Source
  <2> QED BY <1>3, <1>5, <2>1, <2>5, <2>6, <2>7 DEF MapsOf
<1>7. ASSUME NEW i \in 1 .. n, NEW c \in T
      PROVE  /\ Create(es[i], c) \in T
             /\ Create(es[i], c).ok =>
                  \E ls : ls # << >> /\ Source(Create(es[i], c), vs[1], ls, vs[i + 1])
  <2>1. \/ Create(es[i], c) = Refused(c)
        \/ \E ls : /\ ls # << >> /\ ls \in Seq(Seq(Byte))
                   /\ Source(Create(es[i], c), vs[1], ls, vs[i + 1]) /\ Create(es[i], c) \in FlatMap
    BY <1>1, <1>5, BrokenStep
  <2>2. CASE Create(es[i], c) = Refused(c)
    <3>1. Refused(c) \in T /\ Refused(c).ok = FALSE
      BY <1>5, RefusedIs
    <3> QED BY <2>2, <3>1
  <2>3. CASE \E ls : /\ ls # << >> /\ ls \in Seq(Seq(Byte))
                     /\ Source(Create(es[i], c), vs[1], ls, vs[i + 1]) /\ Create(es[i], c) \in FlatMap
    <3>1. i + 1 \in 1 .. Len(vs)
      BY <1>2, <1>3
    <3> QED BY <1>5, <2>3, <3>1 DEF MapsOf
  <2> QED BY <2>1, <2>2, <2>3
<1>8. Mounting(es, ps, T)
  BY <1>3, <1>4, <1>6, <1>7 DEF Mounting
<1>9. PICK c \in T : MountChain(es, ps) = Create(es[n], c)
  BY <1>4, <1>8, MountIs
<1> QED BY <1>2, <1>3, <1>7, <1>9

\* A chain of which some deltas cannot be read, whichever they are, is refused
\* or serves the newest version, as long as no two versions have one size.
THEOREM BrokenChainIsRefusedHolds == Spec => []BrokenChainIsRefused
<1>1. Inv => BrokenChainIsRefused
  <2> SUFFICES ASSUME Inv, \A i, j \in DOMAIN versions : i # j => Len(versions[i]) # Len(versions[j]),
                      NEW lost \in SUBSET DOMAIN deltas
               PROVE  LET m == MountChain([i \in DOMAIN deltas |->
                                   IF i \in lost THEN [deltas[i] EXCEPT !.frames = -1] ELSE deltas[i]], BaseSrc)
                      IN  deltas # << >> /\ m.ok => m.size = Len(Newest) /\ RightOrFails(m, BaseSrc)
    BY DEF BrokenChainIsRefused
  <2>1. PICK es : es = [i \in DOMAIN deltas |-> IF i \in lost THEN [deltas[i] EXCEPT !.frames = -1] ELSE deltas[i]]
    OBVIOUS
  <2>2. PICK r : r = MountChain(es, BaseSrc)
    OBVIOUS
  <2>3. SUFFICES ASSUME deltas # << >>, r.ok PROVE r.size = Len(Newest) /\ RightOrFails(r, BaseSrc)
    BY <2>1, <2>2
  <2>4. PICK lits : Chain(versions, deltas, map, lits)
    BY DEF Inv, Published
  <2>5. PICK cut : Holding(BaseSrc, versions[1], cut)
    BY DEF Inv, Published
  <2>6. versions \in Seq(Seq(Byte))
    BY DeltaAssumption DEF Inv, Published
  <2>7. Broken(versions, deltas, map, lits, BaseSrc, cut, lost, es)
    BY <2>1, <2>4, <2>5, <2>6 DEF Broken
  <2>8. PICK ls : ls # << >> /\ Source(r, versions[1], ls, Newest)
    BY <2>2, <2>3, <2>7, BrokenIs DEF Newest
  <2>9. Serves(r, versions[1], ls, Newest) /\ r.size = Len(Newest)
    BY <2>8 DEF Source
  <2>10. PICK base : base = versions[1]
    OBVIOUS
  <2>11. RightOrFails(r, BaseSrc)
    BY <2>5, <2>9, <2>10, RightIs
  <2> QED BY <2>9, <2>11
<1> QED BY <1>1, Invariant, PTL
=============================================================================
