------------------------------- MODULE MCDedup -------------------------------
(***************************************************************************)
(* Instances of Dedup: two layers that share a prefix but not a TTL, and   *)
(* one with a prefix of its own whose entries, its TTL not being positive, *)
(* never expire.                                                           *)
(***************************************************************************)
EXTENDS Dedup, TLC

CONSTANTS c1, c2, c3, h1, h2, l1, l2, l3

LayerPrefix == (l1 :> "" @@ l2 :> "" @@ l3 :> "b:")

LayerTTL == (l1 :> 1 @@ l2 :> 2 @@ l3 :> -2)

CallSymmetry == Permutations(Calls) \cup Permutations(Hashes)
=============================================================================
