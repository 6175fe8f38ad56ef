------------------------------- MODULE Prompts -------------------------------
(***************************************************************************)
(* middleware/promptcache and middleware/distill, the two middlewares that *)
(* change the request on its way down, one over the other in either order  *)
(* or each alone.  promptcache annotates the Metadata map of the *Request  *)
(* it is given and remembers the prefix; distill passes on a copy of the   *)
(* *Request with another System, which shares the Metadata map unless that *)
(* was nil.                                                                *)
(*                                                                         *)
(* The application uses a Request for one call after another, each time    *)
(* with the System it wants, and registers distilled prompts at any time.  *)
(* A Metadata map is modelled by what promptcache made of it: nil, a map   *)
(* without an annotation, or the prefix for which it was last annotated    *)
(* (cache_prefix, when there is an extractor to set it).                   *)
(***************************************************************************)
EXTENDS Integers, Sequences, Functions

CONSTANTS Calls,       \* the invocations of Complete on the outermost layer
          Requests,    \* the application's *Request values
          Prompts,     \* system prompts and other texts of a request
          Empty,       \* the empty one
          Length,      \* Length[p]: len(p)
          MinPrefix,   \* promptcache's minPrefixTokens
          Window,      \* promptcache's window
          MinSavings,  \* distill's minSavings, in percent
          Stacks,      \* the chains, outermost layer first
          Extractors,  \* what cfg.extractor makes of each request, or Nil
          Files,       \* what a FileLibrary may have been loaded from
          Distillates, \* the <<original, distilled>> that may be registered
          CacheReads,  \* a response's Usage.CacheReadTokens
          MaxTime,     \* bound on the clock
          Nil,         \* no map, no extractor, no request
          Plain,       \* a Metadata map without an annotation
          Shared       \* the Metadata map of the application's Request

ASSUME PromptsAssumption ==
    /\ Empty \in Prompts
    /\ Length \in [Prompts -> Nat]
    /\ Length[Empty] = 0
    /\ MinPrefix \in Int /\ Window \in Int /\ MinSavings \in Int
    /\ Stacks \subseteq {<<"promptcache">>, <<"distill">>,
                         <<"promptcache", "distill">>, <<"distill", "promptcache">>}
    /\ Extractors \subseteq [Requests -> Prompts] \cup {Nil}
    /\ \A f \in Files : DOMAIN f \subseteq Prompts /\ f \in [DOMAIN f -> Prompts]
    /\ Distillates \subseteq Prompts \X Prompts
    /\ CacheReads \subseteq Nat
    /\ MaxTime \in Nat
    /\ {Nil, Plain, Shared} \cap (Prompts \cup Requests) = {}
    /\ Nil # Plain /\ Nil # Shared /\ Plain # Shared
    /\ Nil \notin Int

VARIABLES
    stack,     \* the chain
    extractor, \* promptcache's cfg.extractor
    readOnly,  \* the library is a FileLibrary
    entries,   \* its entries
    seen,      \* promptcache's seen: prefix to time
    now,       \* time.Now()
    system,    \* system[r]: r.System
    metadata,  \* metadata[r]: r.Metadata
    at,        \* at[c]: the layer c is about to enter; 0 before the call
    of,        \* of[c]: the Request c was made with
    asked,     \* history: asked[c]: the System c was made with
    prompt,    \* prompt[c]: System of the *Request handed to the layer c is at
    copied,    \* copied[c]: Metadata of that *Request
    dropped,   \* dropped[c]: originalLen - distilledLen, 0 if not distilled
    usage,     \* usage[c]: CacheReadTokens of the response to c
    savings,   \* savings[c]: the tokens in its Savings
    stamp      \* history: stamp[p]: when prefix p was last tracked

configVars == <<stack, extractor, readOnly>>
requestVars == <<of, asked, prompt, copied, dropped>>
answerVars == <<usage, savings>>
vars == <<configVars, entries, seen, now, system, metadata, at, requestVars,
          answerVars, stamp>>

Returned == -1
AtProvider(c) == at[c] = Len(stack) + 1
InUse(r) == \E c \in Calls : of[c] = r /\ at[c] # Returned

-----------------------------------------------------------------------------
\* The application.

\* The application gives r the System p and passes it to Complete.  One call at a
\* time uses a Request: promptcache writes to it without a lock.
Call(c, r, p) ==
    /\ at[c] = 0
    /\ ~InUse(r)
    /\ at' = [at EXCEPT ![c] = 1]
    /\ of' = [of EXCEPT ![c] = r]
    /\ system' = [system EXCEPT ![r] = p]
    /\ asked' = [asked EXCEPT ![c] = p]
    /\ prompt' = [prompt EXCEPT ![c] = p]
    /\ copied' = [copied EXCEPT ![c] = Shared]
    /\ UNCHANGED <<configVars, entries, seen, now, metadata, dropped, answerVars, stamp>>

\* MemoryLibrary.Register; a FileLibrary's returns an error.
Register(original, distilled) ==
    /\ ~readOnly
    /\ entries' = [p \in DOMAIN entries \cup {original} |->
                     IF p = original THEN distilled ELSE entries[p]]
    /\ UNCHANGED <<configVars, seen, now, system, metadata, at, requestVars,
                   answerVars, stamp>>

TimePasses ==
    /\ now < MaxTime
    /\ now' = now + 1
    /\ UNCHANGED <<configVars, entries, seen, system, metadata, at, requestVars,
                   answerVars, stamp>>

-----------------------------------------------------------------------------
\* promptcache.

Enters(c, layer) == at[c] \in DOMAIN stack /\ stack[at[c]] = layer

Descend(c) == at' = [at EXCEPT ![c] = at[c] + 1]

\* The prefix that promptcache extracts from a request with System p.
Prefix(c, p) == IF extractor = Nil THEN p ELSE extractor[of[c]]

Tokens(p) == Length[p] \div 4

\* Plausible bug: characters are taken for tokens.
EnoughCharacters(p) == Length[p] >= MinPrefix

LongEnough(p) == Tokens(p) >= MinPrefix

\* The Metadata map of the *Request that c hands on.
Metadata(c) == IF copied[c] = Shared THEN metadata[of[c]] ELSE copied[c]

Annotate(c, p) ==
    IF copied[c] = Shared
      THEN /\ metadata' = [metadata EXCEPT ![of[c]] = p]
           /\ UNCHANGED copied
      ELSE /\ copied' = [copied EXCEPT ![c] = p]
           /\ UNCHANGED metadata

\* Plausible bug: >= for >.
StaleTooEarly(t) == now - t >= Window

Stale(t) == now - t > Window

\* cleanExpired(now); seen[prefix] = now, under the mutex
Track(p) ==
    /\ seen' = [q \in {q \in DOMAIN seen : ~Stale(seen[q])} \cup {p} |->
                  IF q = p THEN now ELSE seen[q]]
    /\ stamp' = [stamp EXCEPT ![p] = now]

PromptCache(c) ==
    LET p == Prefix(c, prompt[c])
    IN  /\ Enters(c, "promptcache")
        /\ Descend(c)
        /\ IF LongEnough(p)
             THEN Annotate(c, p) /\ Track(p)
             ELSE UNCHANGED <<metadata, copied, seen, stamp>>
        /\ UNCHANGED <<configVars, entries, now, system, of, asked, prompt, dropped, answerVars>>

-----------------------------------------------------------------------------
\* distill.

\* The savings are a fraction of the original length, or 0 if that is 0.
EnoughSaved(o, d) ==
    IF Length[o] > 0 THEN 100 * (Length[o] - Length[d]) >= MinSavings * Length[o]
                     ELSE MinSavings <= 0

\* Plausible bug: a new Request is made and its Metadata forgotten.
CopyWithoutMetadata(c) == Nil

\* modifiedReq := *req: the copy has the same map, or a nil of its own.
CopyOfMetadata(c) == IF Metadata(c) = Nil THEN Nil ELSE copied[c]

\* Plausible bug: the caller's Request is given the distilled prompt.
ReplaceInPlace(c, d) ==
    /\ prompt' = [prompt EXCEPT ![c] = d]
    /\ system' = [system EXCEPT ![of[c]] = d]
    /\ UNCHANGED copied

Replace(c, d) ==
    /\ prompt' = [prompt EXCEPT ![c] = d]
    /\ copied' = [copied EXCEPT ![c] = CopyOfMetadata(c)]
    /\ UNCHANGED system

Distill(c) ==
    LET o == prompt[c]
    IN  /\ Enters(c, "distill")
        /\ Descend(c)
        /\ IF o \in DOMAIN entries /\ EnoughSaved(o, entries[o])
             THEN /\ Replace(c, entries[o])
                  /\ dropped' = [dropped EXCEPT ![c] = Length[o] - Length[entries[o]]]
             ELSE UNCHANGED <<prompt, copied, system, dropped>>
        /\ UNCHANGED <<configVars, entries, seen, now, metadata, of, asked, answerVars, stamp>>

-----------------------------------------------------------------------------
\* The provider, and the way up.

\* Go's division, which truncates.
Quotient(a, b) == IF a < 0 THEN -((-a) \div b) ELSE a \div b

\* Plausible bug: the lengths are taken from the library when the response is back.
SavedByLibrary(c, cached) ==
    (IF "distill" \in Range(stack) /\ asked[c] \in DOMAIN entries
       THEN Quotient(Length[asked[c]] - Length[entries[asked[c]]], 4) ELSE 0)
    + (IF "promptcache" \in Range(stack) THEN cached ELSE 0)

Saved(c, cached) ==
    Quotient(dropped[c], 4) + (IF "promptcache" \in Range(stack) THEN cached ELSE 0)

Answer(c, cached) ==
    /\ AtProvider(c)
    /\ at' = [at EXCEPT ![c] = Returned]
    /\ usage' = [usage EXCEPT ![c] = cached]
    /\ savings' = [savings EXCEPT ![c] = Saved(c, cached)]
    /\ UNCHANGED <<configVars, entries, seen, now, system, metadata, requestVars, stamp>>

Fail(c) ==
    /\ AtProvider(c)
    /\ at' = [at EXCEPT ![c] = Returned]
    /\ UNCHANGED <<configVars, entries, seen, now, system, metadata, requestVars,
                   answerVars, stamp>>

-----------------------------------------------------------------------------
Init ==
    /\ stack \in Stacks
    /\ extractor \in Extractors
    /\ readOnly \in BOOLEAN
    /\ entries \in IF readOnly THEN Files ELSE {<<>>}
    /\ seen = <<>>
    /\ now = 0
    /\ system = [r \in Requests |-> Empty]
    /\ metadata \in [Requests -> {Nil, Plain}]
    /\ at = [c \in Calls |-> 0]
    /\ of = [c \in Calls |-> Nil]
    /\ asked = [c \in Calls |-> Nil]
    /\ prompt = [c \in Calls |-> Nil]
    /\ copied = [c \in Calls |-> Nil]
    /\ dropped = [c \in Calls |-> 0]
    /\ usage = [c \in Calls |-> Nil]
    /\ savings = [c \in Calls |-> Nil]
    /\ stamp = [p \in Prompts |-> Nil]

\* Every call of the instance has returned.
Finished ==
    /\ \A c \in Calls : at[c] = Returned
    /\ UNCHANGED vars

Application ==
    \/ \E c \in Calls, r \in Requests, p \in Prompts : Call(c, r, p)
    \/ \E d \in Distillates : Register(d[1], d[2])

Complete(c) ==
    \/ PromptCache(c)
    \/ Distill(c)
    \/ \E n \in CacheReads : Answer(c, n)
    \/ Fail(c)

Next ==
    \/ Application
    \/ \E c \in Calls : Complete(c)
    \/ TimePasses
    \/ Finished

Spec == Init /\ [][Next]_vars

-----------------------------------------------------------------------------
Maps == Prompts \cup {Nil, Plain}

\* Every variable holds what the code can put in it; only prefixes of at least
\* minPrefixTokens are ever tracked, so that short prompts do not fill seen.
TypeOK ==
    /\ stack \in Stacks
    /\ extractor \in Extractors
    /\ readOnly \in BOOLEAN
    /\ DOMAIN entries \subseteq Prompts
    /\ entries \in [DOMAIN entries -> Prompts]
    /\ DOMAIN seen \subseteq {p \in Prompts : Tokens(p) >= MinPrefix}
    /\ now \in 0 .. MaxTime
    /\ seen \in [DOMAIN seen -> 0 .. now]
    /\ stamp \in [Prompts -> 0 .. now \cup {Nil}]
    /\ system \in [Requests -> Prompts]
    /\ metadata \in [Requests -> Maps]
    /\ at \in [Calls -> -1 .. Len(stack) + 1]
    /\ of \in [Calls -> Requests \cup {Nil}]
    /\ asked \in [Calls -> Prompts \cup {Nil}]
    /\ prompt \in [Calls -> Prompts \cup {Nil}]
    /\ dropped \in [Calls -> Int]
    /\ copied \in [Calls -> Maps \cup {Shared}]
    /\ usage \in [Calls -> Nat \cup {Nil}]
    /\ savings \in [Calls -> Int \cup {Nil}]
    /\ \A c \in Calls : at[c] # 0 => of[c] # Nil /\ asked[c] # Nil /\ prompt[c] # Nil
    /\ \A c \in Calls : at[c] = 0 => of[c] = Nil

\* At every moment seen holds exactly the prefixes whose last use is within the
\* window of the latest use of any, each with the time of its last use: cleaning
\* loses none that is used again in time, and leaves no other behind
\* (promptcache.go:41-43, 84-90, 106-111).
SeenIsWindow ==
    Window >= 0 =>
    \A p \in Prompts :
        IF stamp[p] # Nil /\ \A q \in Prompts : stamp[q] # Nil => stamp[q] - stamp[p] <= Window
          THEN p \in DOMAIN seen /\ seen[p] = stamp[p]
          ELSE p \notin DOMAIN seen

\* The prompt that promptcache was given in a call that is past it.
CachedPrompt(c) == IF stack[1] = "promptcache" THEN asked[c] ELSE prompt[c]

\* When a request that promptcache found long enough reaches the provider, it
\* still has the annotation, and with this call's prefix: neither distill's
\* copy of the Request nor the reuse of a Request loses it (promptcache.go:96-104,
\* distill.go:75-76).
LongIsMarked ==
    \A c \in Calls :
        /\ AtProvider(c)
        /\ "promptcache" \in Range(stack)
        /\ Tokens(Prefix(c, CachedPrompt(c))) >= MinPrefix
        => Metadata(c) = Prefix(c, CachedPrompt(c))

\* The Savings of a response are what its call saved: the difference between the
\* prompt that the caller passed and the one that the provider was sent, whatever
\* is registered in the meantime, and the tokens that the provider read from its
\* cache (distill.go:61-88, promptcache.go:119-125).
SavingsAreTrue ==
    \A c \in Calls : savings[c] # Nil =>
        savings[c] = Quotient(Length[asked[c]] - Length[prompt[c]], 4)
                     + (IF "promptcache" \in Range(stack) THEN usage[c] ELSE 0)

\* Distillation replaces a prompt by a longer one, which costs tokens, only for an
\* empty prompt, as long as minSavings is not negative (distill.go:64-72).  The doc
\* at distill.go:21-23 says of the default, 0, "always replace if found".
NeverLonger ==
    MinSavings >= 0 =>
    \A c \in Calls : at[c] # 0 =>
        Length[prompt[c]] <= Length[asked[c]] \/ Length[asked[c]] = 0

\* The layers leave the System of the caller's Request alone, although distill
\* sends another one and promptcache writes to the same Request: a caller that
\* reads it while its call runs, or uses it again, finds its own prompt
\* (distill.go:74-76).
PromptIsTheCallers == \A c \in Calls : at[c] > 0 => system[of[c]] = asked[c]

\* c has passed promptcache with prefix p, which is long enough.
Earned(c, p) ==
    /\ \E k \in DOMAIN stack : stack[k] = "promptcache" /\ (at[c] > k \/ at[c] = Returned)
    /\ p = Prefix(c, CachedPrompt(c))
    /\ Tokens(p) >= MinPrefix

\* An annotation, wherever it is seen, is the prefix of a call that was long enough
\* for it, and of one made with the same Request: distill's copies never carry it to
\* another, and no short request is marked that is the first of its Request
\* (promptcache.go:92-104, distill.go:75-76).
MarkIsEarned ==
    \A c \in Calls : at[c] # 0 /\ Metadata(c) \notin {Nil, Plain} =>
        \E d \in Calls : of[d] = of[c] /\ Earned(d, Metadata(c))

\* What promptcache.go:1-3 says of the annotation: it is on requests whose
\* prefix meets the threshold.
MarkedIsLong ==
    \A c \in Calls :
        /\ AtProvider(c)
        /\ "promptcache" \in Range(stack)
        /\ Metadata(c) \notin {Nil, Plain}
        => Tokens(Prefix(c, CachedPrompt(c))) >= MinPrefix
=============================================================================
