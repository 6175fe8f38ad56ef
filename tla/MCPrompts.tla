------------------------------ MODULE MCPrompts ------------------------------
(***************************************************************************)
(* Instances of Prompts: an empty prompt, one of a token, and two that are *)
(* long enough to be annotated.                                            *)
(***************************************************************************)
EXTENDS Prompts, TLC

CONSTANTS c1, c2, c3, r1, r2, short, long, longer

Lengths == (Empty :> 0 @@ short :> 6 @@ long :> 8 @@ longer :> 13)

OnlyPromptCache == {<<"promptcache">>}

AllStacks == {<<"promptcache">>, <<"distill">>,
              <<"promptcache", "distill">>, <<"distill", "promptcache">>}

NoExtractor == {Nil}

ExtractsOrNot == {Nil, [r \in Requests |-> IF r = r1 THEN long ELSE short]}

Loaded == {Empty :> short @@ longer :> long}

Registrable == {<<long, short>>, <<longer, long>>, <<longer, short>>, <<short, long>>}

CallSymmetry == Permutations(Calls)
=============================================================================
