----------------------------- MODULE MCLayerStack -----------------------------
(***************************************************************************)
(* Every spec of up to four layers over two archive targets, one inside    *)
(* the other: plain zips, deltas over their own target, over the other,    *)
(* over both, and some whose submounts surface elsewhere; and a kept       *)
(* folder.  The deltas spell a name otherwise than the zips they are over. *)
(***************************************************************************)
EXTENDS LayerStack, TLC

CONSTANT MaxLayers  \* the longest spec

Upper == [x |-> "X", g |-> "G", d |-> "D", e |-> "E"]

LowerCase == [n \in {"x", "X", "g", "G", "d", "D", "e", "E"} |->
                IF n \in DOMAIN Upper THEN n ELSE CHOOSE l \in DOMAIN Upper : Upper[l] = n]

TargetPaths == [a |-> <<"g">>, b |-> <<"g", "d">>, c |-> <<"e">>]

SpecLayer(type, target, baseTargets, mounts, names) ==
  [type |-> type, target |-> target, baseTargets |-> baseTargets, mounts |-> mounts, names |-> names]

SpecLayers ==
  {SpecLayer("Zip", "a", << >>, <<"a">>, {<<"x">>}),
   SpecLayer("Zip", "b", << >>, <<"b">>, {<<"x">>}),
   SpecLayer("Zip", "b", << >>, <<"c", "b">>, {<<"x">>}),
   SpecLayer("Delta", "a", << >>, <<"a">>, {<<"X">>}),
   SpecLayer("Delta", "a", <<"b">>, <<"a">>, {<<"d">>, <<"d", "X">>}),
   SpecLayer("Delta", "a", <<"b", "a">>, <<"a", "c">>, {<<"d">>, <<"d", "X">>, <<"x">>}),
   SpecLayer("Delta", "b", << >>, <<"b">>, {<<"X">>}),
   SpecLayer("Delta", "b", <<"a">>, <<"c">>, {<<"x">>}),
   SpecLayer("Dir", "a", << >>, <<"a">>, {})}

ShortSpecs == UNION {[1 .. n -> SpecLayers] : n \in 1 .. MaxLayers}
===============================================================================
