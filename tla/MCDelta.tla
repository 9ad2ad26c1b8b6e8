------------------------------- MODULE MCDelta -------------------------------
(***************************************************************************)
(* Versions of at most five bytes, of four sizes, windows of two, hashes   *)
(* modulo two bits (so that different windows share one), blocks of two    *)
(* bytes.                                                                  *)
(***************************************************************************)
EXTENDS Delta

Short ==
  {v \in BoundedSeq(Byte, 5) :
     \/ Len(v) \in {0, 4}
     \/ Len(v) = 3 /\ v[1] = 1
     \/ Len(v) = 5 /\ v[1] = 0 /\ v[2] = 1 /\ v[5] = 1}
=============================================================================
