------------------------------ MODULE BlockCache ------------------------------
(***************************************************************************)
(* The cache of decompressed ADD blocks in a delta layer                   *)
(* (DeltaByteSource::GetAddBlock and readAdd, src/src/vgdelta.cpp), shared *)
(* by the threads that read through the layer.  The cache is looked up and *)
(* filled under CacheMu; a block is read and decompressed outside it.      *)
(***************************************************************************)
EXTENDS Integers, Sequences

CONSTANTS
  Readers,   \* threads reading through the layer
  Sources,   \* number of ADD sources: the deltas composed into the layer
  Blocks,    \* blocks of each source
  KeyBase,   \* 2^40: where the source starts in a cache key
  CacheCap   \* the most blocks the cache keeps

ASSUME CacheAssumption ==
  /\ Sources \in Nat \ {0} /\ Blocks \in Nat \ {0} /\ CacheCap \in Nat \ {0}
  /\ KeyBase \in Nat /\ Blocks <= KeyBase

VARIABLES
  cache,  \* BlockCache: key -> block
  fifo,   \* CacheFifo: keys, oldest first
  pc,     \* where a reader is
  src,    \* readAdd's source
  blk,    \* the block it is at
  last,   \* the last block of the range it reads
  got     \* what it has copied to its buffer so far

vars == <<cache, fifo, pc, src, blk, last, got>>

SourceIds == 0 .. (Sources - 1)
BlockIds == 0 .. (Blocks - 1)

\* What a block decompresses to.
Plain(a, b) == <<a, b>>

\* Mutant: the key leaves the source out.
KeyOfBlock(a, b) == b

\* (addSrc << 40) ^ blk, the block number being below 2^40.
KeyOf(a, b) == a * KeyBase + b

Keys == {KeyOf(a, b) : a \in SourceIds, b \in BlockIds}

NoBlock == << >>

-----------------------------------------------------------------------------
Init ==
  /\ cache = [k \in Keys |-> NoBlock]
  /\ fifo = << >>
  /\ pc = [r \in Readers |-> "idle"]
  /\ src = [r \in Readers |-> 0]
  /\ blk = [r \in Readers |-> 0]
  /\ last = [r \in Readers |-> 0]
  /\ got = [r \in Readers |-> << >>]

\* readAdd of the blocks b .. e of source a.
Begin(r, a, b, e) ==
  /\ pc[r] = "idle"
  /\ pc' = [pc EXCEPT ![r] = "lookup"]
  /\ src' = [src EXCEPT ![r] = a]
  /\ blk' = [blk EXCEPT ![r] = b]
  /\ last' = [last EXCEPT ![r] = e]
  /\ got' = [got EXCEPT ![r] = << >>]
  /\ UNCHANGED <<cache, fifo>>

\* Mutant: the loop runs one block too far.
TakeTooFar(r, x) ==
  /\ got' = [got EXCEPT ![r] = Append(@, x)]
  /\ IF blk[r] > last[r]
     THEN pc' = [pc EXCEPT ![r] = "idle"] /\ UNCHANGED blk
     ELSE pc' = [pc EXCEPT ![r] = "lookup"] /\ blk' = [blk EXCEPT ![r] = @ + 1]

\* The loop of readAdd with block x: it is copied out, and the next one is up.
Take(r, x) ==
  /\ got' = [got EXCEPT ![r] = Append(@, x)]
  /\ IF blk[r] = last[r]
     THEN pc' = [pc EXCEPT ![r] = "idle"] /\ UNCHANGED blk
     ELSE pc' = [pc EXCEPT ![r] = "lookup"] /\ blk' = [blk EXCEPT ![r] = @ + 1]

Hit(r) ==
  /\ pc[r] = "lookup"
  /\ cache[KeyOf(src[r], blk[r])] # NoBlock
  /\ Take(r, cache[KeyOf(src[r], blk[r])])
  /\ UNCHANGED <<cache, fifo, src, last>>

Miss(r) ==
  /\ pc[r] = "lookup"
  /\ cache[KeyOf(src[r], blk[r])] = NoBlock
  /\ pc' = [pc EXCEPT ![r] = "load"]
  /\ UNCHANGED <<cache, fifo, src, blk, last, got>>

\* Reading or decompressing the block fails: the read ends with -EIO.
LoadFails(r) ==
  /\ pc[r] = "load"
  /\ pc' = [pc EXCEPT ![r] = "idle"]
  /\ got' = [got EXCEPT ![r] = << >>]
  /\ UNCHANGED <<cache, fifo, src, blk, last>>

\* Mutant: the block is queued again when another reader inserted it first.
InsertAgain(k, x) ==
  IF Len(fifo) + 1 > CacheCap
  THEN /\ fifo' = Tail(Append(fifo, k))
       /\ cache' = [cache EXCEPT ![k] = x, ![Head(Append(fifo, k))] = NoBlock]
  ELSE /\ fifo' = Append(fifo, k)
       /\ cache' = [cache EXCEPT ![k] = x]

\* The cache with the block under key k, inserted unless another reader did
\* so first, and the oldest one gone when there is one too many.
Insert(k, x) ==
  IF cache[k] # NoBlock THEN UNCHANGED <<cache, fifo>>
  ELSE IF Len(fifo) + 1 > CacheCap
       THEN /\ fifo' = Tail(Append(fifo, k))
            /\ cache' = [cache EXCEPT ![k] = x, ![Head(Append(fifo, k))] = NoBlock]
       ELSE /\ fifo' = Append(fifo, k)
            /\ cache' = [cache EXCEPT ![k] = x]

\* Mutant: the loaded block is looked up again, not handed to the reader.
LoadAndLookAgain(r) ==
  /\ pc[r] = "load"
  /\ Insert(KeyOf(src[r], blk[r]), Plain(src[r], blk[r]))
  /\ pc' = [pc EXCEPT ![r] = "lookup"]
  /\ UNCHANGED <<src, blk, last, got>>

Load(r) ==
  /\ pc[r] = "load"
  /\ Insert(KeyOf(src[r], blk[r]), Plain(src[r], blk[r]))
  /\ Take(r, Plain(src[r], blk[r]))
  /\ UNCHANGED <<src, last>>

Next ==
  \E r \in Readers :
    \/ \E a \in SourceIds, b, e \in BlockIds : b <= e /\ Begin(r, a, b, e)
    \/ Hit(r) \/ Miss(r) \/ Load(r) \/ LoadFails(r)

\* A thread inside a read keeps running.
Fairness == \A r \in Readers : WF_vars(Hit(r) \/ Miss(r) \/ Load(r))

Spec == Init /\ [][Next]_vars

FairSpec == Spec /\ Fairness

-----------------------------------------------------------------------------
(***************************************************************************)
(* Properties.                                                             *)
(***************************************************************************)
\* The state is well typed: in particular readAdd never steps past the last
\* block of its source (vgdelta.cpp:270-281).
TypeOK ==
  /\ cache \in [Keys -> (SourceIds \X BlockIds) \cup {NoBlock}]
  /\ fifo \in Seq(Keys)
  /\ pc \in [Readers -> {"idle", "lookup", "load"}]
  /\ src \in [Readers -> SourceIds]
  /\ blk \in [Readers -> BlockIds]
  /\ last \in [Readers -> BlockIds]
  /\ got \in [Readers -> Seq(SourceIds \X BlockIds)]

\* The eviction queue is the cache: it names exactly the blocks that are kept,
\* each once, and never more than CacheCap of them.  A key queued twice would
\* evict a block that was just inserted; a cached block not queued would stay
\* for ever.
QueueIsCache ==
  /\ Len(fifo) <= CacheCap
  /\ \A i, j \in 1 .. Len(fifo) : fifo[i] = fifo[j] => i = j
  /\ \A k \in Keys : cache[k] # NoBlock <=> \E i \in 1 .. Len(fifo) : fifo[i] = k

\* A reader gets the blocks it asked for, in order, whatever other readers
\* load and evict meanwhile and whichever source they read from.
ReadsAreRight ==
  \A r \in Readers : \A i \in 1 .. Len(got[r]) :
    LET end == IF pc[r] = "idle" THEN blk[r] ELSE blk[r] - 1
    IN  got[r][i] = Plain(src[r], end - Len(got[r]) + i)

\* Every read ends, however often the blocks it needs are evicted by others:
\* GetAddBlock hands the block it loaded to the reader, in the cache or not.
ReadsFinish == \A r \in Readers : pc[r] # "idle" ~> pc[r] = "idle"
=============================================================================
