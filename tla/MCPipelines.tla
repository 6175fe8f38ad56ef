---------------------------- MODULE MCPipelines ----------------------------
(***************************************************************************)
(* Instances of Pipelines: two Pipeline objects, each created with any of  *)
(* the stacks, and the calls of a few threads.                             *)
(***************************************************************************)
EXTENDS Pipelines, TLC

CONSTANTS p1, p2, c1, c2, c3, t1, t2, h1, h2

Symmetry == Permutations(Pipelines) \cup Permutations(Calls)
                \cup Permutations(Closers) \cup Permutations(Hashes)

\* The account middleware above, below and without the dedup, with the cascade
\* that hides what is below it.
SingleDedup == {<<"account", "dedup">>,
                <<"dedup", "account">>,
                <<"account", "cascade", "dedup">>}
=============================================================================
