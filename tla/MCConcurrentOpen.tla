-------------------------- MODULE MCConcurrentOpen --------------------------
(***************************************************************************)
(* Every file in one shard.                                                *)
(***************************************************************************)
EXTENDS ConcurrentOpen

CONSTANT TheShard

OneShard == [f \in Files |-> TheShard]
=============================================================================
