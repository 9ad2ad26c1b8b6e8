-------------------------------- MODULE Delta --------------------------------
(***************************************************************************)
(* The delta layers of src/src/vgdelta.cpp: GenerateDelta describes a new  *)
(* version of an archive by copies from the version before it and literal  *)
(* runs; DeltaByteSource::Create composes a chain of such deltas into one  *)
(* flat map over the oldest version; pread reads through the map.          *)
(*                                                                         *)
(* The state machine publishes version after version: it scans the new     *)
(* version, an iteration of GenerateDelta's loop per step, and composes    *)
(* the delta onto the map of the versions before it.  The oldest version   *)
(* may be several files, read as one (src/src/bytesource.h).  zstd and the *)
(* bytes of the file format are left out: a delta is the record that       *)
(* ParseDelta recovers, with the number of block frames that its file      *)
(* still has (less than none when it ends before them).                    *)
(* Offsets are 0-based as in the code, byte o of x being x[o + 1].         *)
(***************************************************************************)
EXTENDS Integers, Sequences, FiniteSetsExt, SequencesExt

CONSTANTS
  Byte,       \* byte values
  Anchor,     \* ANCHOR: the length of a seed window
  HashMod,    \* 2^64: hashes are computed modulo it
  RKR,        \* RK_R: the base of the rolling hash
  BlockSize,  \* bytes in a block of literals
  Versions,   \* the contents a version may have
  Cuts,       \* where the oldest version may be cut into files
  MaxChain    \* the most deltas in a chain (a bound of the instance)

ASSUME DeltaAssumption ==
  /\ Byte \subseteq Nat /\ Versions \subseteq Seq(Byte)
  /\ {Anchor, HashMod, RKR, BlockSize, MaxChain} \subseteq Nat \ {0}
  /\ Cuts \subseteq Nat

VARIABLES
  versions,  \* what has been published, the ultimate base first
  BaseSrc,   \* the files of the ultimate base
  deltas,    \* the deltas made, oldest first
  map,       \* the DeltaByteSource of the last version
  stage,     \* "idle", "scan" or "rejected"
  target,    \* the version GenerateDelta is scanning
  h,         \* the rolling hash
  p,         \* the position of the scan
  litStart,  \* where the pending literal run began
  segs,      \* the segments emitted
  lit        \* the literals emitted

vars == <<versions, BaseSrc, deltas, map, stage, target, h, p, litStart, segs, lit>>

EIO == <<-5>>

\* n bytes of x from offset o.
Bytes(x, o, n) == SubSeq(x, o + 1, o + n)

-----------------------------------------------------------------------------
(***************************************************************************)
(* Reading.                                                                *)
(***************************************************************************)
\* A part of the ultimate base: a file, and its size when it was opened.
Part(x) == [file |-> x, len |-> Len(x)]

\* FdByteSource::pread, which ends where the file ends now.
ReadFile(x, off, n) == Bytes(x, off, Min({n, Max({0, Len(x) - off})}))

PartStart(ps, i) == FoldLeft(LAMBDA n, q : n + q.len, 0, SubSeq(ps, 1, i - 1))

TotalSize(ps) == PartStart(ps, Len(ps) + 1)

\* The last part that starts at or before o: never an empty one.
PartAt(ps, o) == Max({1} \cup {i \in DOMAIN ps : PartStart(ps, i) <= o})

\* ConcatByteSource::pread: a part that has become short ends the read, one
\* that has grown is read up to its size at the mount.
PreadBase(ps, off, n) ==
  LET total == TotalSize(ps)
      read[k \in 0 .. n] ==    \* the last k bytes
        LET pos == off + n - k
        IN  IF k = 0 \/ pos >= total THEN << >>
            ELSE LET i     == PartAt(ps, pos)
                     local == pos - PartStart(ps, i)
                     got   == ReadFile(ps[i].file, local, Min({k, ps[i].len - local}))
                 IN  IF got = << >> THEN << >> ELSE got \o read[k - Len(got)]
  IN  read[n]

\* Mutant: what could not be read is left out of the result.
CopyShort(ps, off, n) == PreadBase(ps, off, n)

\* A COPY is read until it is complete or nothing more comes.
ReadCopy(ps, off, n) ==
  LET got == PreadBase(ps, off, n) IN IF Len(got) = n THEN got ELSE EIO

\* The literals of one delta in blocks, as GenerateDelta writes them.
CutBlocks(x) ==
  [i \in 1 .. ((Len(x) + BlockSize - 1) \div BlockSize) |->
     Bytes(x, (i - 1) * BlockSize, Min({BlockSize, Len(x) - (i - 1) * BlockSize}))]

\* readAdd: n bytes of the literals of delta d, block by block.
ReadAdd(d, off, n) ==
  LET read[k \in 0 .. n] ==    \* the last k bytes
        LET b     == (off + n - k) \div BlockSize
            intra == (off + n - k) % BlockSize
        IN  IF k = 0 THEN << >>
            ELSE IF b >= Min({Len(d.blocks), d.frames}) \/ intra > Len(d.blocks[b + 1]) THEN EIO
            ELSE LET take == Min({k, Len(d.blocks[b + 1]) - intra})
                     rest == read[k - take]
                 IN  IF rest = EIO THEN EIO ELSE Bytes(d.blocks[b + 1], intra, take) \o rest
  IN  read[n]

\* SegAt: the last segment at or before offset o.  Indices of a flat map are
\* those of its sequence, from 1.
SegAt(s, o) == Max({1} \cup {i \in DOMAIN s : s[i].targetOff <= o})

SizeOf(s) == FoldLeft(LAMBDA n, g : n + g.len, 0, s)

\* Mutant: every read of a segment begins at its start.
SourceStart(s, pos) == s.srcOff

\* Where a segment has the byte at offset pos.
SourceAt(s, pos) == s.srcOff + (pos - s.targetOff)

\* DeltaByteSource::pread of map m over the parts ps of the ultimate base.
Pread(m, ps, off, n) ==
  LET size == m.size
      want == Min({n, size - off})
      read[at \in (1 .. Len(m.segs) + 1) \X (0 .. want)] ==    \* the last k bytes, from segment i on
        LET i   == at[1]
            k   == at[2]
            pos == off + want - k
        IN  IF k = 0 \/ i > Len(m.segs) THEN << >>
            ELSE LET s     == m.segs[i]
                     chunk == Min({k, s.targetOff + s.len - pos})
                     src   == SourceAt(s, pos)
                     part  == IF s.kind = "COPY" THEN ReadCopy(ps, src, chunk)
                              ELSE ReadAdd(m.adds[s.addSrc], src, chunk)
                 IN  IF pos < s.targetOff \/ chunk <= 0 \/ part = EIO THEN EIO
                     ELSE LET rest == read[<<i + 1, k - chunk>>]
                          IN  IF rest = EIO THEN EIO ELSE part \o rest
  IN  IF off >= size \/ m.segs = << >> THEN << >> ELSE read[<<SegAt(m.segs, off), want>>]

-----------------------------------------------------------------------------
(***************************************************************************)
(* Composing.                                                              *)
(***************************************************************************)
Seg(kind, len, srcOff, addSrc) ==
  [kind |-> kind, len |-> len, srcOff |-> srcOff, addSrc |-> addSrc, targetOff |-> 0]

\* The offsets of a sequence of segments laid end to end.
PrefixSums(s) ==
  [i \in DOMAIN s |-> [s[i] EXCEPT !.targetOff = SizeOf(SubSeq(s, 1, i - 1))]]

\* Mutant: a part of a base segment starts where the segment starts.
PieceFromStart(b, m, take) == Seg(b.kind, take, b.srcOff, b.addSrc)

\* take bytes of base segment b from offset m of the base version.
Piece(b, m, take) == Seg(b.kind, take, b.srcOff + (m - b.targetOff), b.addSrc)

Gap == <<Seg("GAP", 0, 0, 0)>>

\* A COPY of [m, m + rem) of the base version, through the base's flat map B:
\* its pieces, or Gap where B does not cover the range.
Rewrite(B, from, n) ==
  LET walk[at \in (1 .. Len(B) + 1) \X (0 .. n)] ==    \* the last rem bytes, from segment bi on
        LET bi  == at[1]
            rem == at[2]
            m   == from + n - rem
        IN  IF rem = 0 THEN << >>
            ELSE IF bi > Len(B) THEN Gap
            ELSE LET b    == B[bi]
                     take == Min({b.targetOff + b.len, m + rem}) - m
                 IN  IF m < b.targetOff \/ take <= 0 THEN Gap
                     ELSE LET rest == walk[<<bi + 1, rem - take>>]
                          IN  IF rest = Gap THEN Gap ELSE <<Piece(b, m, take)>> \o rest
  IN  walk[<<SegAt(B, from), n>>]

\* ParseDelta: the tables before the frames are there and cover the target.
Parses(d) == d.frames >= 0 /\ SizeOf(d.segs) = d.targetSize

\* The ultimate base as a source below deltas.
Plain(ps) == [ok |-> TRUE, size |-> TotalSize(ps), segs |-> << >>, adds |-> << >>]

\* The segments of d through the source m below it: through the flat map of a
\* DeltaByteSource, else as they are.
Flatten(d, m) ==
  LET thisAdd == Len(m.adds) + 1
      flat(s) == IF s.kind = "ADD" THEN <<Seg("ADD", s.len, s.srcOff, thisAdd)>>
                 ELSE IF thisAdd = 1 THEN <<Seg("COPY", s.len, s.srcOff, 0)>>
                 ELSE Rewrite(m.segs, s.srcOff, s.len)
  IN  [i \in DOMAIN d.segs |-> flat(d.segs[i])]

Refused(m) == [m EXCEPT !.ok = FALSE]

Compose(d, m) ==
  LET parts == Flatten(d, m)
      flat  == FlattenSeq(parts)
  IN  IF (\A i \in DOMAIN parts : parts[i] # Gap) /\ SizeOf(flat) = d.targetSize
      THEN [ok |-> TRUE, size |-> d.targetSize, segs |-> PrefixSums(flat), adds |-> Append(m.adds, d)]
      ELSE Refused(m)

\* Mutant: a base of another size is taken for the delta's own.
CreateOverAny(d, m) == IF Parses(d) THEN Compose(d, m) ELSE Refused(m)

\* Create: delta d over the source m; a refused one leaves m as it is.
Create(d, m) == IF Parses(d) /\ d.baseSize = m.size THEN Compose(d, m) ELSE Refused(m)

\* VfsState::Init on a chain: a delta that Create refuses is skipped, and the
\* next is composed over what there is.  The last one is what surfaces.
MountChain(ds, ps) == FoldLeft(LAMBDA m, d : Create(d, m), Plain(ps), ds)

\* VerifyDelta: the composed source has the target's size and bytes.
VerifyDelta(m, ps, t) == m.ok /\ m.size = Len(t) /\ Pread(m, ps, 0, Len(t)) = t

-----------------------------------------------------------------------------
(***************************************************************************)
(* Generating.                                                             *)
(***************************************************************************)
HashWin(x, o) == FoldLeft(LAMBDA a, b : (a * RKR + b) % HashMod, 0, Bytes(x, o, Anchor))

\* RK_R^n.
PowR(n) == LET pow[i \in 0 .. n] == IF i = 0 THEN 1 ELSE (pow[i - 1] * RKR) % HashMod IN pow[n]

\* Mutant: the byte that leaves the window stays in the hash.
RollKeepsByte(x, o, a) == (a * RKR + x[o + Anchor + 1]) % HashMod

\* The hash of the window at o + 1, from a, the one at o.
Roll(x, o, a) ==
  ((a - x[o + 1] * PowR(Anchor - 1)) * RKR + x[o + Anchor + 1]) % HashMod

\* index.find: the first of the base's aligned windows with hash a, if any.
IndexFind(base, a) ==
  {o \in {k * Anchor : k \in 0 .. Len(base)} :
     o + Anchor <= Len(base) /\ HashWin(base, o) = a /\
     \A k \in 0 .. Len(base) : k * Anchor < o => HashWin(base, k * Anchor) # a}

Newest == versions[Len(versions)]

\* How far the match of the base at o with the target at p goes on, and back
\* into the pending literals.
ForwardLen(o) ==
  CHOOSE n \in Anchor .. Len(target) :
    /\ o + n <= Len(Newest) /\ p + n <= Len(target) /\ Bytes(Newest, o, n) = Bytes(target, p, n)
    /\ o + n = Len(Newest) \/ p + n = Len(target) \/ Newest[o + n + 1] # target[p + n + 1]

\* Mutant: the match is extended back over what was emitted already.
BackOverEmitted(o) ==
  Max({n \in 0 .. Min({p, o}) : Bytes(Newest, o - n, n) = Bytes(target, p - n, n)})

BackLen(o) ==
  Max({n \in 0 .. Min({p - litStart, o}) : Bytes(Newest, o - n, n) = Bytes(target, p - n, n)})

\* Mutant: an empty literal run is emitted too.
EmitAddAlways(from, to) ==
  [segs |-> Append(segs, [kind |-> "ADD", len |-> to - from, srcOff |-> Len(lit)]),
   lit  |-> lit \o Bytes(target, from, to - from)]

\* emitAdd of the literal run [from, to), nothing when it is empty.
EmitAdd(from, to) ==
  IF to <= from THEN [segs |-> segs, lit |-> lit]
  ELSE [segs |-> Append(segs, [kind |-> "ADD", len |-> to - from, srcOff |-> Len(lit)]),
        lit  |-> lit \o Bytes(target, from, to - from)]

Window == p + Anchor <= Len(target)

\* The window's hash is in the index and its bytes are the base's: emit the
\* literals before it and the copy, and go on behind it.
Matches(o) == o \in IndexFind(Newest, h) /\ Bytes(Newest, o, Anchor) = Bytes(target, p, Anchor)

Match(o) ==
  /\ stage = "scan" /\ Window /\ Matches(o)
  /\ LET back == BackLen(o)
         len  == ForwardLen(o)
         e    == EmitAdd(litStart, p - back)
     IN  /\ lit' = e.lit
         /\ segs' = Append(e.segs, [kind |-> "COPY", len |-> len + back, srcOff |-> o - back])
         /\ p' = p + len
         /\ litStart' = p + len
         /\ h' = IF p + len + Anchor <= Len(target) THEN HashWin(target, p + len) ELSE h
  /\ UNCHANGED <<versions, BaseSrc, deltas, map, stage, target>>

Miss ==
  /\ stage = "scan" /\ Window
  /\ ~\E o \in 0 .. Len(Newest) : Matches(o)
  /\ h' = IF p + Anchor < Len(target) THEN Roll(target, p, h) ELSE h
  /\ p' = p + 1
  /\ UNCHANGED <<versions, BaseSrc, deltas, map, stage, target, litStart, segs, lit>>

\* GenerateDelta returns: its locals are gone.
Return == target' = << >> /\ h' = 0 /\ p' = 0 /\ litStart' = 0 /\ segs' = << >> /\ lit' = << >>

\* The tail literals, the composed source and its check.
Finish ==
  /\ stage = "scan" /\ ~Window
  /\ LET e == EmitAdd(litStart, Len(target))
         d == [targetSize |-> Len(target), baseSize |-> Len(Newest), segs |-> e.segs,
               blocks |-> CutBlocks(e.lit), frames |-> Len(CutBlocks(e.lit))]
         m == Create(d, map)
     IN  IF VerifyDelta(m, BaseSrc, target)
         THEN /\ stage' = "idle"
              /\ versions' = Append(versions, target)
              /\ deltas' = Append(deltas, d)
              /\ map' = m
         ELSE stage' = "rejected" /\ UNCHANGED <<versions, deltas, map>>
  /\ Return
  /\ UNCHANGED BaseSrc

\* The progress callback asks to stop, or a scratch file cannot be written:
\* GenerateDelta returns nothing.
Cancel ==
  /\ stage = "scan"
  /\ stage' = "idle"
  /\ Return
  /\ UNCHANGED <<versions, BaseSrc, deltas, map>>

Start(t) ==
  /\ stage = "idle" /\ Len(versions) <= MaxChain
  /\ stage' = "scan"
  /\ target' = t
  /\ h' = IF Len(t) >= Anchor THEN HashWin(t, 0) ELSE 0
  /\ p' = 0 /\ litStart' = 0 /\ segs' = << >> /\ lit' = << >>
  /\ UNCHANGED <<versions, BaseSrc, deltas, map>>

\* A base of several targets, one of them empty.
InParts(x, c) == <<Part(SubSeq(x, 1, c)), Part(<< >>), Part(SubSeq(x, c + 1, Len(x)))>>

Init ==
  /\ versions \in {<<v>> : v \in Versions}
  /\ BaseSrc \in {<<Part(versions[1])>>} \cup {InParts(versions[1], Min({c, Len(versions[1])})) : c \in Cuts}
  /\ deltas = << >>
  /\ map = Plain(BaseSrc)
  /\ stage = "idle"
  /\ target = << >> /\ h = 0 /\ p = 0 /\ litStart = 0 /\ segs = << >> /\ lit = << >>

Next ==
  \/ \E t \in Versions : Start(t)
  \/ \E o \in 0 .. Len(Newest) : Match(o)
  \/ Miss \/ Finish \/ Cancel

Spec == Init /\ [][Next]_vars

-----------------------------------------------------------------------------
(***************************************************************************)
(* Properties.                                                             *)
(***************************************************************************)
\* The flat map is well formed: its segments lie end to end, none of them is
\* empty, a COPY stays inside the ultimate base (never the version that its
\* delta was made over) and an ADD names the literals of a delta of the chain.
TypeOK ==
  /\ stage \in {"idle", "scan", "rejected"}
  /\ h \in 0 .. (HashMod - 1)
  /\ Len(map.adds) = Len(versions) - 1
  /\ \A i \in DOMAIN map.segs :
       LET s == map.segs[i]
       IN  /\ s.len > 0 /\ s.targetOff = SizeOf(SubSeq(map.segs, 1, i - 1))
           /\ s.kind = "COPY" => s.srcOff + s.len <= Len(versions[1])
           /\ s.kind = "ADD" => s.addSrc \in DOMAIN map.adds

\* The rolling hash is the hash of the window that the scan is at, whichever
\* way it came there; otherwise matches are silently missed.
HashIsOfWindow == stage = "scan" /\ Window => h = HashWin(target, p)

\* The segments emitted so far describe exactly the bytes before the pending
\* literals: extending a match back never covers a byte twice.
ScanCovers ==
  stage = "scan" =>
    /\ litStart <= p
    /\ FlattenSeq([i \in DOMAIN segs |->
         IF segs[i].kind = "ADD" THEN Bytes(lit, segs[i].srcOff, segs[i].len)
         ELSE Bytes(Newest, segs[i].srcOff, segs[i].len)]) = Bytes(target, 0, litStart)

\* Create and VerifyDelta accept every delta that GenerateDelta made.
NeverRejected == stage # "rejected"

\* Every read through the composed chain, at any offset and of any length,
\* returns the bytes of the last version.
ReadsNewest ==
  stage = "idle" /\ Len(versions) > 1 =>
    \A off, n \in 0 .. (Len(Newest) + 1) : Pread(map, BaseSrc, off, n) = ReadFile(Newest, off, n)

\* Reads of the last version that begin and end everywhere, of one byte and to
\* the end, return its bytes or fail.
RightOrFails(m, ps) ==
  \A off \in 0 .. (Len(Newest) - 1) : \A n \in {1, Len(Newest) - off} :
    Pread(m, ps, off, n) \in {ReadFile(Newest, off, n), EIO}

\* A file of the base that is cut short or grows, or a delta that loses frames,
\* while it is mounted makes reads fail; none returns less than was asked for
\* or bytes from elsewhere (vgdelta.cpp:300-307, bytesource.h:147-163).
DamageIsSeen ==
  stage = "idle" /\ Len(versions) > 1 =>
    /\ \A i \in DOMAIN BaseSrc : \A n \in 0 .. (BaseSrc[i].len - 1) :
         RightOrFails(map, [BaseSrc EXCEPT ![i].file = SubSeq(BaseSrc[i].file, 1, n)])
    /\ \A i \in DOMAIN BaseSrc, b \in Byte : RightOrFails(map, [BaseSrc EXCEPT ![i].file = Append(BaseSrc[i].file, b)])
    /\ \A i \in DOMAIN map.adds : \A n \in 0 .. (map.adds[i].frames - 1) :
         RightOrFails([map EXCEPT !.adds[i].frames = n], BaseSrc)

\* A chain mounted with deltas that cannot be read serves the last version or
\* is refused, as long as no two versions have the same size: the size is all
\* that a mount compares (overlay.cpp:160 passes verifyBase = false).
BrokenChainIsRefused ==
  stage = "idle" /\ (\A i, j \in DOMAIN versions : i # j => Len(versions[i]) # Len(versions[j])) =>
    \A lost \in SUBSET DOMAIN deltas :
      LET m == MountChain([i \in DOMAIN deltas |->
                             IF i \in lost THEN [deltas[i] EXCEPT !.frames = -1] ELSE deltas[i]], BaseSrc)
      IN  deltas # << >> /\ m.ok => m.size = Len(Newest) /\ RightOrFails(m, BaseSrc)
=============================================================================
