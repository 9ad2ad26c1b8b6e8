--------------------------- MODULE BlockCacheProofs ---------------------------
(***************************************************************************)
(* Proofs about BlockCache, for any number of readers, sources and blocks  *)
(* and any capacity of the cache.                                          *)
(***************************************************************************)
EXTENDS BlockCache, SequenceTheorems, TLAPS

(***************************************************************************)
(* Keys.                                                                   *)
(***************************************************************************)
\* (addSrc << 40) ^ blk names one block: GetAddBlock never takes one block
\* for another.
LEMMA KeyInjective ==
  ASSUME NEW a \in SourceIds, NEW c \in SourceIds, NEW b \in BlockIds, NEW d \in BlockIds,
         KeyOf(a, b) = KeyOf(c, d)
  PROVE  a = c /\ b = d
<1> USE CacheAssumption DEF SourceIds, BlockIds, KeyOf
<1>1. \A x \in Nat : \A y \in Nat : x < y => x * KeyBase + KeyBase <= y * KeyBase
  <2> TAKE x \in Nat
  <2> TAKE y \in Nat
  <2> HAVE x < y
  <2>1. PICK z \in Nat : y = x + 1 + z
    <3>1. y = x + 1 + (y - x - 1) /\ y - x - 1 \in Nat
      OBVIOUS
    <3> QED BY <3>1
  <2>2. y * KeyBase = x * KeyBase + KeyBase + z * KeyBase
    BY <2>1
  <2>3. z * KeyBase >= 0 /\ z * KeyBase \in Int /\ x * KeyBase \in Int
    BY <2>1
  <2> QED BY <2>2, <2>3
<1>2. b < KeyBase /\ d < KeyBase
  OBVIOUS
<1>3. a * KeyBase \in Int /\ c * KeyBase \in Int
  OBVIOUS
<1>4. CASE a < c
  BY <1>1, <1>2, <1>3, <1>4
<1>5. CASE c < a
  BY <1>1, <1>2, <1>3, <1>5
<1>6. CASE a = c
  BY <1>3, <1>6
<1> QED BY <1>4, <1>5, <1>6

\* A source and a block make a key.
LEMMA KeyType ==
  ASSUME NEW a \in SourceIds, NEW b \in BlockIds
  PROVE  KeyOf(a, b) \in Keys
BY DEF Keys

(***************************************************************************)
(* Types.                                                                  *)
(***************************************************************************)
LEMMA TypeInit == Init => TypeOK
<1> SUFFICES ASSUME Init PROVE TypeOK
  OBVIOUS
<1>1. 0 \in SourceIds /\ 0 \in BlockIds
  BY CacheAssumption DEF SourceIds, BlockIds
<1>2. << >> \in Seq(Keys) /\ << >> \in Seq(SourceIds \X BlockIds)
  OBVIOUS
<1> QED BY <1>1, <1>2 DEF Init, TypeOK, NoBlock

\* A decoded block is a block, never the mark of none.
LEMMA PlainType ==
  ASSUME NEW a \in SourceIds, NEW b \in BlockIds
  PROVE  Plain(a, b) \in SourceIds \X BlockIds /\ Plain(a, b) # NoBlock
<1>1. Plain(a, b) \in SourceIds \X BlockIds
  BY DEF Plain
<1>2. Len(Plain(a, b)) = 2 /\ Len(NoBlock) = 0
  BY DEF Plain, NoBlock
<1> QED BY <1>1, <1>2

\* A reader's own state stays typed when it takes a block.
LEMMA TakeType ==
  ASSUME TypeOK, NEW r \in Readers, NEW x \in SourceIds \X BlockIds, Take(r, x),
         blk[r] <= last[r]
  PROVE  /\ got' \in [Readers -> Seq(SourceIds \X BlockIds)]
         /\ pc' \in [Readers -> {"idle", "lookup", "load"}]
         /\ blk' \in [Readers -> BlockIds]
<1>1. Append(got[r], x) \in Seq(SourceIds \X BlockIds)
  BY DEF TypeOK
<1>2. got' \in [Readers -> Seq(SourceIds \X BlockIds)]
  BY <1>1 DEF TypeOK, Take
<1>3. pc' \in [Readers -> {"idle", "lookup", "load"}]
  BY DEF TypeOK, Take
<1>4. blk[r] # last[r] => blk[r] + 1 \in BlockIds
  BY CacheAssumption DEF TypeOK, BlockIds
<1>5. blk' \in [Readers -> BlockIds]
  BY <1>4 DEF TypeOK, Take
<1> QED BY <1>2, <1>3, <1>5

\* The cache and its queue stay typed when a block is inserted.
LEMMA InsertType ==
  ASSUME TypeOK, NEW k \in Keys, NEW x \in SourceIds \X BlockIds, Insert(k, x)
  PROVE  /\ cache' \in [Keys -> (SourceIds \X BlockIds) \cup {NoBlock}]
         /\ fifo' \in Seq(Keys)
<1> DEFINE q == Append(fifo, k)
<1>1. q \in Seq(Keys) /\ q # << >>
  <2>1. fifo \in Seq(Keys)
    BY DEF TypeOK
  <2> QED BY <2>1, AppendProperties
<1>2. Tail(q) \in Seq(Keys) /\ Head(q) \in Keys
  BY <1>1, HeadTailProperties
<1>3. CASE cache[k] # NoBlock
  BY <1>3 DEF Insert, TypeOK
<1>4. CASE cache[k] = NoBlock /\ Len(fifo) + 1 > CacheCap
  BY <1>4, <1>2 DEF Insert, TypeOK
<1>5. CASE cache[k] = NoBlock /\ ~(Len(fifo) + 1 > CacheCap)
  BY <1>5, <1>1 DEF Insert, TypeOK
<1> QED BY <1>3, <1>4, <1>5

(***************************************************************************)
(* The queue is the cache.                                                 *)
(***************************************************************************)
\* The one step that changes the cache keeps QueueIsCache.
LEMMA InsertQueue ==
  ASSUME TypeOK, QueueIsCache,
         NEW k \in Keys, NEW x \in SourceIds \X BlockIds, x # NoBlock, Insert(k, x)
  PROVE  QueueIsCache'
<1> DEFINE n == Len(fifo)
           q == Append(fifo, k)
<1>0. fifo \in Seq(Keys) /\ n \in Nat /\ cache \in [Keys -> (SourceIds \X BlockIds) \cup {NoBlock}]
  BY DEF TypeOK
<1>1. CASE cache[k] # NoBlock
  BY <1>1 DEF Insert, QueueIsCache
<1>2. CASE cache[k] = NoBlock
  <2>1. /\ q \in Seq(Keys) /\ Len(q) = n + 1 /\ q[n + 1] = k
        /\ \A i \in 1 .. n : q[i] = fifo[i]
    BY <1>0
  <2>2. \A i \in 1 .. n : fifo[i] # k
    BY <1>2 DEF QueueIsCache
  <2>3. \A i, j \in 1 .. (n + 1) : q[i] = q[j] => i = j
    <3> SUFFICES ASSUME NEW i \in 1 .. (n + 1), NEW j \in 1 .. (n + 1), q[i] = q[j] PROVE i = j
      OBVIOUS
    <3>1. CASE i \in 1 .. n /\ j \in 1 .. n
      BY <3>1, <2>1 DEF QueueIsCache
    <3>2. CASE i = n + 1 \/ j = n + 1
      BY <3>2, <2>1, <2>2, <1>0
    <3> QED BY <3>1, <3>2, <1>0
  <2>4. CASE ~(n + 1 > CacheCap)
    <3>1. fifo' = q /\ cache' = [cache EXCEPT ![k] = x]
      BY <1>2, <2>4 DEF Insert
    <3>2. Len(fifo') <= CacheCap
      BY <3>1, <2>1, <2>4, <1>0, CacheAssumption
    <3>3. \A i, j \in 1 .. Len(fifo') : fifo'[i] = fifo'[j] => i = j
      BY <3>1, <2>1, <2>3
    <3>4. ASSUME NEW l \in Keys
          PROVE  cache'[l] # NoBlock <=> \E i \in 1 .. Len(fifo') : fifo'[i] = l
      <4>1. CASE l = k
        BY <4>1, <3>1, <2>1, <1>0
      <4>2. CASE l # k
        <5>1. cache'[l] = cache[l]
          BY <4>2, <3>1, <1>0
        <5>2. (\E i \in 1 .. (n + 1) : q[i] = l) <=> \E i \in 1 .. n : fifo[i] = l
          BY <4>2, <2>1, <1>0
        <5> QED BY <5>1, <5>2, <3>1, <2>1 DEF QueueIsCache
      <4> QED BY <4>1, <4>2
    <3> QED BY <3>2, <3>3, <3>4 DEF QueueIsCache
  <2>5. CASE n + 1 > CacheCap
    <3>1. n = CacheCap /\ n >= 1
      BY <2>5, <1>0, CacheAssumption DEF QueueIsCache
    <3>2. Head(q) = fifo[1] /\ Head(q) # k /\ Head(q) \in Keys
      BY <3>1, <2>1, <2>2, <1>0
    <3>3. fifo' = Tail(q) /\ cache' = [cache EXCEPT ![k] = x, ![Head(q)] = NoBlock]
      BY <1>2, <2>5 DEF Insert
    <3>4. /\ Len(fifo') = n
          /\ \A i \in 1 .. n : fifo'[i] = q[i + 1]
      BY <3>3, <2>1, <1>0
    <3>5. Len(fifo') <= CacheCap
      BY <3>1, <3>4
    <3>6. \A i, j \in 1 .. Len(fifo') : fifo'[i] = fifo'[j] => i = j
      <4> SUFFICES ASSUME NEW i \in 1 .. n, NEW j \in 1 .. n, fifo'[i] = fifo'[j] PROVE i = j
        BY <3>4
      <4> HIDE DEF q
      <4>0. fifo'[i] = q[i + 1] /\ fifo'[j] = q[j + 1]
        BY <3>4
      <4>1. i + 1 \in 1 .. (n + 1) /\ j + 1 \in 1 .. (n + 1)
        BY <1>0
      <4>2. i + 1 = j + 1
        <5>1. q[i + 1] = q[j + 1]
          BY <4>0
        <5> QED BY <4>1, <5>1, <2>3
      <4> QED BY <4>2, <1>0
    <3>7. ASSUME NEW l \in Keys
          PROVE  cache'[l] # NoBlock <=> \E i \in 1 .. Len(fifo') : fifo'[i] = l
      <4>1. CASE l = k
        <5>1. cache'[l] = x
          BY <4>1, <3>3, <3>2, <1>0
        <5>2. n \in 1 .. n /\ fifo'[n] = k
          BY <3>4, <2>1, <3>1, <1>0
        <5> QED BY <5>1, <5>2, <4>1, <3>4
      <4>2. CASE l = Head(q)
        <5>1. cache'[l] = NoBlock
          BY <4>2, <3>3, <3>2, <1>0
        <5>2. l = q[1] /\ 1 \in 1 .. (n + 1)
          BY <4>2, <3>2, <2>1, <3>1, <1>0
        <5>3. \A i \in 1 .. n : q[i + 1] # l
          <6> SUFFICES ASSUME NEW i \in 1 .. n, q[i + 1] = q[1] PROVE FALSE
            BY <5>2
          <6>1. i + 1 \in 1 .. (n + 1) /\ i + 1 # 1
            BY <1>0
          <6> QED BY <6>1, <2>3, <5>2
        <5> QED BY <5>1, <5>3, <3>4
      <4>3. CASE l # k /\ l # Head(q)
        <5>1. cache'[l] = cache[l]
          BY <4>3, <3>3, <1>0
        <5>2. ASSUME NEW i \in 1 .. n, fifo[i] = l
              PROVE  \E j \in 1 .. n : fifo'[j] = l
          <6>1. i # 1
            BY <5>2, <4>3, <3>2
          <6> HIDE DEF q
          <6>2. i - 1 \in 1 .. n /\ (i - 1) + 1 = i
            BY <6>1, <1>0
          <6>3. fifo'[i - 1] = q[(i - 1) + 1]
            BY <6>2, <3>4
          <6>4. fifo'[i - 1] = l
            BY <6>2, <6>3, <5>2, <2>1
          <6> QED BY <6>2, <6>4
        <5>3. ASSUME NEW j \in 1 .. n, fifo'[j] = l
              PROVE  \E i \in 1 .. n : fifo[i] = l
          <6>1. q[j + 1] = l /\ j + 1 # n + 1
            BY <5>3, <3>4, <2>1, <4>3, <1>0
          <6>2. j + 1 \in 1 .. n
            BY <6>1, <1>0
          <6> QED BY <6>1, <6>2, <2>1
        <5> QED BY <5>1, <5>2, <5>3, <3>4 DEF QueueIsCache
      <4> QED BY <4>1, <4>2, <4>3
    <3> QED BY <3>5, <3>6, <3>7 DEF QueueIsCache
  <2> QED BY <2>4, <2>5
<1> QED BY <1>1, <1>2

(***************************************************************************)
(* Blocks and readers.                                                     *)
(***************************************************************************)
\* A cached block is the one its key names.
CacheIsRight ==
  \A a \in SourceIds, b \in BlockIds : cache[KeyOf(a, b)] \in {NoBlock, Plain(a, b)}

\* What is inserted is what the source holds.
LEMMA InsertRight ==
  ASSUME TypeOK, CacheIsRight, NEW a \in SourceIds, NEW b \in BlockIds,
         Insert(KeyOf(a, b), Plain(a, b))
  PROVE  CacheIsRight'
<1> SUFFICES ASSUME NEW c \in SourceIds, NEW d \in BlockIds
             PROVE  cache'[KeyOf(c, d)] \in {NoBlock, Plain(c, d)}
  BY DEF CacheIsRight
<1> DEFINE k == KeyOf(a, b)
           l == KeyOf(c, d)
<1>1. k \in Keys /\ l \in Keys
  BY KeyType
<1>2. \/ cache' = cache
      \/ cache' = [cache EXCEPT ![k] = Plain(a, b)]
      \/ cache' = [cache EXCEPT ![k] = Plain(a, b), ![Head(Append(fifo, k))] = NoBlock]
  BY DEF Insert
<1>3. cache'[l] \in {NoBlock, cache[l]} \/ (l = k /\ cache'[l] = Plain(a, b))
  BY <1>1, <1>2 DEF TypeOK
<1>4. l = k => a = c /\ b = d
  BY KeyInjective
<1>5. cache[l] \in {NoBlock, Plain(c, d)}
  BY DEF CacheIsRight
<1> QED BY <1>3, <1>4, <1>5

\* A reader that takes the block it is at keeps its buffer right.
LEMMA TakeRight ==
  ASSUME TypeOK, ReadsAreRight, NEW r \in Readers, pc[r] # "idle",
         Take(r, Plain(src[r], blk[r])), UNCHANGED src
  PROVE  ReadsAreRight'
<1> SUFFICES ASSUME NEW t \in Readers, NEW i \in 1 .. Len(got'[t])
             PROVE  LET end == IF pc'[t] = "idle" THEN blk'[t] ELSE blk'[t] - 1
                    IN  got'[t][i] = Plain(src'[t], end - Len(got'[t]) + i)
  BY DEF ReadsAreRight
<1>1. CASE t # r
  <2>1. got'[t] = got[t] /\ pc'[t] = pc[t] /\ blk'[t] = blk[t] /\ src'[t] = src[t]
    BY <1>1 DEF Take, TypeOK
  <2> QED BY <2>1 DEF ReadsAreRight
<1>2. CASE t = r
  <2> DEFINE n == Len(got[r])
             x == Plain(src[r], blk[r])
  <2>1. got[r] \in Seq(SourceIds \X BlockIds) /\ n \in Nat /\ blk[r] \in Int
    BY CacheAssumption DEF TypeOK, BlockIds
  <2>2. got'[r] = Append(got[r], x)
    BY DEF Take, TypeOK
  <2>3. Len(got'[r]) = n + 1 /\ got'[r][n + 1] = x /\ \A j \in 1 .. n : got'[r][j] = got[r][j]
    BY <2>1, <2>2
  <2>4. (IF pc'[r] = "idle" THEN blk'[r] ELSE blk'[r] - 1) = blk[r]
    <3>1. CASE blk[r] = last[r]
      <4>1. pc'[r] = "idle" /\ blk' = blk
        BY <3>1 DEF Take, TypeOK
      <4> QED BY <4>1
    <3>2. CASE blk[r] # last[r]
      <4>1. pc'[r] = "lookup" /\ blk'[r] = blk[r] + 1
        BY <3>2 DEF Take, TypeOK
      <4> QED BY <4>1, <2>1
    <3> QED BY <3>1, <3>2
  <2>5. \A j \in 1 .. n : got[r][j] = Plain(src[r], (blk[r] - 1) - n + j)
    BY DEF ReadsAreRight
  <2>6. i \in Int /\ (i \in 1 .. n \/ i = n + 1)
    BY <1>2, <2>1, <2>3
  <2>7. got'[r][i] = Plain(src[r], blk[r] - (n + 1) + i)
    <3>1. CASE i = n + 1
      <4>1. blk[r] - (n + 1) + i = blk[r]
        BY <3>1, <2>1
      <4> QED BY <3>1, <4>1, <2>3
    <3>2. CASE i \in 1 .. n
      <4>1. blk[r] - (n + 1) + i = (blk[r] - 1) - n + i
        BY <2>1, <2>6
      <4> QED BY <3>2, <4>1, <2>3, <2>5
    <3> QED BY <3>1, <3>2, <2>6
  <2> QED BY <1>2, <2>3, <2>4, <2>7
<1> QED BY <1>1, <1>2

(***************************************************************************)
(* The inductive invariant.  A reader's range is not empty; without that   *)
(* and the right cache neither the types nor the reads would be kept.      *)
(***************************************************************************)
RangesOK == \A r \in Readers : pc[r] # "idle" => blk[r] <= last[r]

Inv == TypeOK /\ QueueIsCache /\ CacheIsRight /\ ReadsAreRight /\ RangesOK

\* The cache starts empty.
LEMMA InvInit == Init => Inv
<1> SUFFICES ASSUME Init PROVE Inv
  OBVIOUS
<1>1. TypeOK
  BY TypeInit
<1>2. QueueIsCache
  <2>1. Len(fifo) = 0 /\ Len(fifo) <= CacheCap
    BY CacheAssumption DEF Init
  <2>2. \A i \in 1 .. Len(fifo) : FALSE
    BY <2>1
  <2> QED BY <2>1, <2>2 DEF Init, QueueIsCache
<1>3. CacheIsRight
  BY KeyType DEF Init, CacheIsRight
<1>4. ReadsAreRight
  BY DEF Init, ReadsAreRight
<1>5. RangesOK
  BY DEF Init, RangesOK
<1> QED BY <1>1, <1>2, <1>3, <1>4, <1>5 DEF Inv

\* A step that leaves the cache and the buffers alone.
LEMMA InvSame ==
  ASSUME Inv, UNCHANGED <<cache, fifo>>
  PROVE  QueueIsCache' /\ CacheIsRight'
BY DEF Inv, QueueIsCache, CacheIsRight

\* A reader that takes a block stays within the range it reads.
LEMMA TakeRanges ==
  ASSUME Inv, NEW r \in Readers, NEW x, Take(r, x), pc[r] # "idle", UNCHANGED last
  PROVE  RangesOK'
<1> SUFFICES ASSUME NEW t \in Readers, pc'[t] # "idle" PROVE blk'[t] <= last'[t]
  BY DEF RangesOK
<1>1. CASE t # r
  BY <1>1 DEF Take, Inv, TypeOK, RangesOK
<1>2. CASE t = r
  <2>1. blk[r] # last[r] /\ blk'[r] = blk[r] + 1
    BY <1>2 DEF Take, Inv, TypeOK
  <2>2. blk[r] <= last[r] /\ blk[r] \in Int /\ last[r] \in Int
    BY CacheAssumption DEF Inv, TypeOK, RangesOK, BlockIds
  <2> QED BY <1>2, <2>1, <2>2
<1> QED BY <1>1, <1>2

\* Every step keeps the invariant.
LEMMA InvNext == Inv /\ [Next]_vars => Inv'
<1> SUFFICES ASSUME Inv, [Next]_vars PROVE Inv'
  OBVIOUS
<1> USE DEF Inv
<1>1. ASSUME NEW r \in Readers, NEW a \in SourceIds, NEW b \in BlockIds, NEW e \in BlockIds,
             b <= e, Begin(r, a, b, e)
      PROVE  Inv'
  <2>1. TypeOK'
    <3>1. << >> \in Seq(SourceIds \X BlockIds)
      OBVIOUS
    <3> QED BY <1>1, <3>1 DEF TypeOK, Begin
  <2>2. QueueIsCache' /\ CacheIsRight'
    BY <1>1, InvSame DEF Begin
  <2>3. ReadsAreRight'
    <3> SUFFICES ASSUME NEW t \in Readers, NEW i \in 1 .. Len(got'[t])
                 PROVE  LET end == IF pc'[t] = "idle" THEN blk'[t] ELSE blk'[t] - 1
                        IN  got'[t][i] = Plain(src'[t], end - Len(got'[t]) + i)
      BY DEF ReadsAreRight
    <3>1. t # r
      BY <1>1 DEF Begin, TypeOK
    <3>2. got'[t] = got[t] /\ pc'[t] = pc[t] /\ blk'[t] = blk[t] /\ src'[t] = src[t]
      BY <1>1, <3>1 DEF Begin, TypeOK
    <3> QED BY <3>2 DEF ReadsAreRight
  <2>4. RangesOK'
    BY <1>1 DEF Begin, TypeOK, RangesOK
  <2> QED BY <2>1, <2>2, <2>3, <2>4
<1>2. ASSUME NEW r \in Readers, Hit(r) PROVE Inv'
  <2> DEFINE k == KeyOf(src[r], blk[r])
  <2>1. src[r] \in SourceIds /\ blk[r] \in BlockIds /\ pc[r] # "idle" /\ blk[r] <= last[r]
    BY <1>2 DEF Hit, TypeOK, RangesOK
  <2>2. cache[k] = Plain(src[r], blk[r])
    BY <1>2, <2>1 DEF Hit, CacheIsRight
  <2>3. Take(r, Plain(src[r], blk[r])) /\ Plain(src[r], blk[r]) \in SourceIds \X BlockIds
    BY <1>2, <2>1, <2>2, PlainType DEF Hit
  <2>4. TypeOK'
    BY <1>2, <2>1, <2>3, TakeType DEF TypeOK, Hit
  <2>5. QueueIsCache' /\ CacheIsRight'
    BY <1>2, InvSame DEF Hit
  <2>6. ReadsAreRight'
    BY <1>2, <2>1, <2>3, TakeRight DEF Hit
  <2>7. RangesOK'
    BY <1>2, <2>1, <2>3, TakeRanges DEF Hit
  <2> QED BY <2>4, <2>5, <2>6, <2>7
<1>3. ASSUME NEW r \in Readers, Miss(r) PROVE Inv'
  <2>1. TypeOK'
    BY <1>3 DEF TypeOK, Miss
  <2>2. QueueIsCache' /\ CacheIsRight'
    BY <1>3, InvSame DEF Miss
  <2>3. \A t \in Readers : pc'[t] = "idle" <=> pc[t] = "idle"
    BY <1>3 DEF Miss, TypeOK
  <2>4. ReadsAreRight' /\ RangesOK'
    BY <1>3, <2>3 DEF Miss, ReadsAreRight, RangesOK
  <2> QED BY <2>1, <2>2, <2>4
<1>4. ASSUME NEW r \in Readers, Load(r) PROVE Inv'
  <2> DEFINE k == KeyOf(src[r], blk[r])
             x == Plain(src[r], blk[r])
  <2>1. src[r] \in SourceIds /\ blk[r] \in BlockIds /\ pc[r] # "idle" /\ blk[r] <= last[r]
    BY <1>4 DEF Load, TypeOK, RangesOK
  <2>2. k \in Keys /\ x \in SourceIds \X BlockIds /\ x # NoBlock
    BY <2>1, KeyType, PlainType
  <2>3. Insert(k, x) /\ Take(r, x) /\ UNCHANGED <<src, last>>
    BY <1>4 DEF Load
  <2> HIDE DEF k, x
  <2>4. TypeOK'
    BY <2>1, <2>2, <2>3, TakeType, InsertType DEF TypeOK
  <2>5. QueueIsCache'
    BY <2>2, <2>3, InsertQueue
  <2>6. CacheIsRight'
    BY <2>1, <2>3, InsertRight DEF k, x
  <2>7. ReadsAreRight'
    BY <2>1, <2>3, TakeRight DEF x
  <2>8. RangesOK'
    BY <2>1, <2>3, TakeRanges
  <2> QED BY <2>4, <2>5, <2>6, <2>7, <2>8
<1>5. ASSUME NEW r \in Readers, LoadFails(r) PROVE Inv'
  <2>1. TypeOK'
    <3>1. << >> \in Seq(SourceIds \X BlockIds)
      OBVIOUS
    <3> QED BY <1>5, <3>1 DEF TypeOK, LoadFails
  <2>2. QueueIsCache' /\ CacheIsRight'
    BY <1>5, InvSame DEF LoadFails
  <2>3. ReadsAreRight'
    <3> SUFFICES ASSUME NEW t \in Readers, NEW i \in 1 .. Len(got'[t])
                 PROVE  LET end == IF pc'[t] = "idle" THEN blk'[t] ELSE blk'[t] - 1
                        IN  got'[t][i] = Plain(src'[t], end - Len(got'[t]) + i)
      BY DEF ReadsAreRight
    <3>1. t # r
      BY <1>5 DEF LoadFails, TypeOK
    <3>2. got'[t] = got[t] /\ pc'[t] = pc[t] /\ blk'[t] = blk[t] /\ src'[t] = src[t]
      BY <1>5, <3>1 DEF LoadFails, TypeOK
    <3> QED BY <3>2 DEF ReadsAreRight
  <2>4. RangesOK'
    BY <1>5 DEF LoadFails, TypeOK, RangesOK
  <2> QED BY <2>1, <2>2, <2>3, <2>4
<1>6. CASE UNCHANGED vars
  <2>1. TypeOK' /\ QueueIsCache' /\ CacheIsRight'
    BY <1>6, InvSame DEF vars, TypeOK
  <2>2. ReadsAreRight' /\ RangesOK'
    BY <1>6 DEF vars, ReadsAreRight, RangesOK
  <2> QED BY <2>1, <2>2
<1> QED BY <1>1, <1>2, <1>3, <1>4, <1>5, <1>6 DEF Next

(***************************************************************************)
(* Theorems.                                                               *)
(***************************************************************************)
\* Every state is well typed.
THEOREM TypeCorrect == Spec => []TypeOK
<1>1. Inv => TypeOK
  BY DEF Inv
<1> QED BY InvInit, InvNext, <1>1, PTL DEF Spec

\* In every state CacheFifo names exactly the cached blocks, each once, and at
\* most CacheCap of them (GetAddBlock's second critical section).
THEOREM QueueCorrect == Spec => []QueueIsCache
<1>1. Inv => QueueIsCache
  BY DEF Inv
<1> QED BY InvInit, InvNext, <1>1, PTL DEF Spec

\* Every read through the cache returns the blocks it asked for, in order,
\* whatever the other threads load and evict (GetAddBlock, readAdd).
THEOREM ReadsCorrect == Spec => []ReadsAreRight
<1>1. Inv => ReadsAreRight
  BY DEF Inv
<1> QED BY InvInit, InvNext, <1>1, PTL DEF Spec
=============================================================================
