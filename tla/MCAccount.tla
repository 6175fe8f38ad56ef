------------------------------ MODULE MCAccount ------------------------------
(***************************************************************************)
(* Instances of Account: chains as they are put together in README.md and  *)
(* in examples/, with two models, one of which no table has a price for.   *)
(***************************************************************************)
EXTENDS Account, TLC

CONSTANTS c1, c2, c3, haiku, local

Symmetry == Permutations(Calls)

Message(role, text) == [role |-> role, content |-> text]

\* With and without a model, a system prompt, and a "system" message.
Plain == [model |-> haiku, system |-> NoSystem, messages |-> <<Message("user", "u")>>]

Long == [model |-> NoModel, system |-> "s",
         messages |-> <<Message("user", "u"), Message("system", "t"),
                        Message("assistant", "a")>>]

PlainAndLong == {Plain, Long}

PlainOnly == {Plain}

\* A cached token is cheaper than one that is read or written.
AllPrices == (haiku :> [input |-> 3, output |-> 5, cacheRead |-> 1, cacheWrite |-> 4])
          @@ (local :> [input |-> 7, output |-> 9, cacheRead |-> 2, cacheWrite |-> 8])

PriceList == [m \in Models |-> AllPrices[m]]

Tokens(i, o, r, w) == [input |-> i, output |-> o, cacheRead |-> r, cacheWrite |-> w]

\* A prompt without the provider's cache, and one served from it.
SomeUsages == {Tokens(2, 1, 0, 0), Tokens(0, 1, 2, 0)}

AnthropicTier == [kind |-> "anthropic", default |-> haiku, pricing |-> {}, name |-> "fast"]
OpenAITier == [kind |-> "openai", default |-> haiku, pricing |-> {haiku}, name |-> "best"]
Unpriced == [OpenAITier EXCEPT !.pricing = {}]

Chain(dedup, cascade, tiers, s) ==
    [dedup |-> dedup, cascade |-> cascade, tiers |-> tiers, sink |-> s]

SomeChains == {Chain(TRUE, FALSE, <<OpenAITier>>, "file"),
               Chain(TRUE, FALSE, <<AnthropicTier>>, "writer"),
               Chain(FALSE, TRUE, <<Unpriced, AnthropicTier>>, "slice"),
               Chain(FALSE, TRUE, <<>>, "file")}

JustTheFile == {Chain(TRUE, FALSE, <<OpenAITier>>, "file")}

\* The ladder of examples/cascade, with the adapter for Anthropic in each tier where
\* the example has a mock.
AnthropicCascade == {Chain(FALSE, TRUE, <<AnthropicTier, [AnthropicTier EXCEPT !.name = "best"]>>,
                           "slice")}

TwoNames == {"fast", "best"}
=============================================================================
