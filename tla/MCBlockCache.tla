----------------------------- MODULE MCBlockCache -----------------------------
(***************************************************************************)
(* Two readers, two sources of two blocks, a cache of two.                 *)
(***************************************************************************)
EXTENDS BlockCache
===============================================================================
