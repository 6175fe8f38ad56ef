---------------------------- MODULE PromptsProofs ----------------------------
(***************************************************************************)
(* What promptcache and distill do to requests, for any requests, prompts, *)
(* lengths, window and thresholds, one over the other or each alone.       *)
(***************************************************************************)
EXTENDS Prompts, TLAPS

\* What a call has behind it and before it: the prompt is the caller's until
\* distill, of which there is at most one, and dropped accounts for the difference.
ProgressInv ==
    \A c \in Calls :
        /\ at[c] \in {0, 1} => prompt[c] = asked[c]
        /\ \A k \in DOMAIN stack : at[c] \in 1 .. k /\ stack[k] = "distill" => prompt[c] = asked[c]
        /\ at[c] = 0 => dropped[c] = 0
        /\ at[c] # 0 => dropped[c] = Length[asked[c]] - Length[prompt[c]]
        /\ at[c] # Returned => savings[c] = Nil

\* Two calls under way have a Request each, so that none overwrites what
\* promptcache wrote for the other.
ExclusiveInv ==
    \A c, d \in Calls : c # d /\ at[c] > 0 /\ at[d] > 0 => of[c] # of[d]

\* From promptcache on, a call with a long prefix keeps the annotation.
MarkInv ==
    \A c \in Calls : \A k \in DOMAIN stack :
        /\ at[c] > k
        /\ stack[k] = "promptcache"
        /\ Tokens(Prefix(c, CachedPrompt(c))) >= MinPrefix
        => Metadata(c) = Prefix(c, CachedPrompt(c))

Inv ==
    /\ TypeOK
    /\ ProgressInv
    /\ ExclusiveInv
    /\ MarkInv
    /\ SeenIsWindow
    /\ SavingsAreTrue
    /\ NeverLonger
    /\ PromptIsTheCallers

-----------------------------------------------------------------------------
\* A stack has one or two different layers.
LEMMA StackShape ==
    ASSUME NEW s \in Stacks
    PROVE  /\ Len(s) \in {1, 2}
           /\ DOMAIN s = 1 .. Len(s)
           /\ \A k \in DOMAIN s : s[k] \in {"promptcache", "distill"}
           /\ \A j, k \in DOMAIN s : s[j] = s[k] => j = k
           /\ \A x : x \in Range(s) <=> \E k \in DOMAIN s : s[k] = x
<1>1. s \in {<<"promptcache">>, <<"distill">>,
             <<"promptcache", "distill">>, <<"distill", "promptcache">>}
  BY PromptsAssumption
<1>2. CASE s = <<"promptcache">>
  BY <1>2 DEF Range
<1>3. CASE s = <<"distill">>
  BY <1>3 DEF Range
<1>4. CASE s = <<"promptcache", "distill">>
  BY <1>4 DEF Range
<1>5. CASE s = <<"distill", "promptcache">>
  BY <1>5 DEF Range
<1>. QED  BY <1>1, <1>2, <1>3, <1>4, <1>5

\* Go's division of integers by 4 is an integer.
LEMMA QuotientInt ==
    ASSUME NEW a \in Int
    PROVE  Quotient(a, 4) \in Int
BY DEF Quotient

\* The prefix of a call that was made is a text.
LEMMA PrefixType ==
    ASSUME TypeOK, NEW c \in Calls, at[c] # 0, NEW p \in Prompts
    PROVE  Prefix(c, p) \in Prompts
BY PromptsAssumption DEF TypeOK, Prefix

\* Distillation never lengthens a prompt that is not empty.
LEMMA EnoughSavedShortens ==
    ASSUME NEW o \in Prompts, NEW d \in Prompts, EnoughSaved(o, d), MinSavings >= 0
    PROVE  Length[d] <= Length[o] \/ Length[o] = 0
<1>1. Length[o] \in Nat /\ Length[d] \in Nat /\ MinSavings \in Nat
  BY PromptsAssumption
<1>2. SUFFICES ASSUME Length[o] > 0
               PROVE  Length[d] <= Length[o]
  BY <1>1
<1>3. 100 * (Length[o] - Length[d]) >= MinSavings * Length[o]
  BY <1>2 DEF EnoughSaved
<1>4. MinSavings * Length[o] >= 0
  BY <1>1
<1>. QED  BY <1>1, <1>3, <1>4

-----------------------------------------------------------------------------
LEMMA InitInv == Init => Inv
<1>. SUFFICES ASSUME Init
              PROVE  Inv
  OBVIOUS
<1>. USE DEF Init
<1>1. TypeOK
  <2>1. /\ Len(stack) \in {1, 2}
        /\ Length \in [Prompts -> Nat]
        /\ Empty \in Prompts
    BY StackShape, PromptsAssumption
  <2>2. DOMAIN entries \subseteq Prompts /\ entries \in [DOMAIN entries -> Prompts]
    <3>1. entries \in Files \/ entries = <<>>
      OBVIOUS
    <3>2. CASE entries \in Files
      BY <3>2, PromptsAssumption
    <3>3. CASE entries = <<>>
      <4>1. DOMAIN entries = {}
        BY <3>3
      <4>. QED  BY <3>3, <4>1
    <3>. QED  BY <3>1, <3>2, <3>3
  <2>3. DOMAIN seen = {} /\ seen \in [DOMAIN seen -> 0 .. now]
    OBVIOUS
  <2>4. /\ now \in 0 .. MaxTime
        /\ stamp \in [Prompts -> 0 .. now \cup {Nil}]
    BY PromptsAssumption
  <2>5. /\ system \in [Requests -> Prompts]
        /\ metadata \in [Requests -> Maps]
        /\ copied \in [Calls -> Maps \cup {Shared}]
    BY PromptsAssumption DEF Maps
  <2>6. at \in [Calls -> -1 .. Len(stack) + 1]
    BY <2>1
  <2>. QED  BY <2>2, <2>3, <2>4, <2>5, <2>6 DEF TypeOK
<1>2. ProgressInv
  BY DEF ProgressInv, Returned
<1>3. ExclusiveInv
  BY DEF ExclusiveInv
<1>4. MarkInv
  BY StackShape DEF MarkInv
<1>5. SeenIsWindow
  BY DEF SeenIsWindow
<1>6. SavingsAreTrue
  BY DEF SavingsAreTrue
<1>7. NeverLonger
  BY DEF NeverLonger
<1>8. PromptIsTheCallers
  BY DEF PromptIsTheCallers
<1>. QED  BY <1>1, <1>2, <1>3, <1>4, <1>5, <1>6, <1>7, <1>8 DEF Inv

-----------------------------------------------------------------------------
\* Calling Complete: the Request was not in use, so that no other call has it.
LEMMA CallInv ==
    ASSUME Inv, NEW c \in Calls, NEW r \in Requests, NEW p \in Prompts, Call(c, r, p)
    PROVE  Inv'
<1>. USE DEF Inv
<1>1. /\ at[c] = 0 /\ at' = [at EXCEPT ![c] = 1]
      /\ of' = [of EXCEPT ![c] = r]
      /\ system' = [system EXCEPT ![r] = p]
      /\ asked' = [asked EXCEPT ![c] = p]
      /\ prompt' = [prompt EXCEPT ![c] = p]
      /\ copied' = [copied EXCEPT ![c] = Shared]
  BY DEF Call
<1>2. UNCHANGED <<stack, extractor, readOnly, entries, seen, now, metadata, dropped,
                  usage, savings, stamp>>
  BY DEF Call, configVars, answerVars
<1>3. \A d \in Calls : at[d] > 0 => of[d] # r
  BY DEF Call, InUse, Returned
<1>4. /\ at'[c] = 1 /\ of'[c] = r /\ asked'[c] = p /\ prompt'[c] = p /\ copied'[c] = Shared
      /\ \A d \in Calls \ {c} : /\ at'[d] = at[d] /\ of'[d] = of[d] /\ asked'[d] = asked[d]
                                /\ prompt'[d] = prompt[d] /\ copied'[d] = copied[d]
  BY <1>1 DEF TypeOK
<1>5. TypeOK'
  <2>1. Len(stack) \in {1, 2}
    BY StackShape DEF TypeOK
  <2>2. at' \in [Calls -> -1 .. Len(stack)' + 1]
    BY <1>1, <1>2, <2>1 DEF TypeOK
  <2>3. /\ of' \in [Calls -> Requests \cup {Nil}]
        /\ asked' \in [Calls -> Prompts \cup {Nil}]
        /\ prompt' \in [Calls -> Prompts \cup {Nil}]
        /\ copied' \in [Calls -> Maps \cup {Shared}]
        /\ system' \in [Requests -> Prompts]
    BY <1>1 DEF TypeOK
  <2>4. r # Nil /\ p # Nil
    BY PromptsAssumption
  <2>5. /\ \A d \in Calls : at'[d] # 0 => of'[d] # Nil /\ asked'[d] # Nil /\ prompt'[d] # Nil
        /\ \A d \in Calls : at'[d] = 0 => of'[d] = Nil
    <3>1. /\ \A d \in Calls : at[d] # 0 => of[d] # Nil /\ asked[d] # Nil /\ prompt[d] # Nil
          /\ \A d \in Calls : at[d] = 0 => of[d] = Nil
      BY DEF TypeOK
    <3>. QED  BY <1>4, <2>4, <3>1
  <2>6. /\ stack' \in Stacks
        /\ extractor' \in Extractors
        /\ readOnly' \in BOOLEAN
        /\ DOMAIN entries' \subseteq Prompts
        /\ entries' \in [DOMAIN entries' -> Prompts]
        /\ DOMAIN seen' \subseteq {q \in Prompts : Tokens(q) >= MinPrefix}
        /\ now' \in 0 .. MaxTime
        /\ seen' \in [DOMAIN seen' -> 0 .. now']
        /\ stamp' \in [Prompts -> 0 .. now' \cup {Nil}]
        /\ metadata' \in [Requests -> Maps]
        /\ dropped' \in [Calls -> Int]
        /\ usage' \in [Calls -> Nat \cup {Nil}]
        /\ savings' \in [Calls -> Int \cup {Nil}]
    BY <1>2 DEF TypeOK
  <2>. QED  BY <2>2, <2>3, <2>5, <2>6 DEF TypeOK
<1>6. ProgressInv'
  <2>1. Length[p] \in Int
    BY PromptsAssumption
  <2>2. savings[c] = Nil /\ dropped[c] = 0
    BY <1>1 DEF ProgressInv, Returned
  <2>. SUFFICES ASSUME NEW d \in Calls
                PROVE  /\ at'[d] \in {0, 1} => prompt'[d] = asked'[d]
                       /\ \A k \in DOMAIN stack : at'[d] \in 1 .. k /\ stack[k] = "distill"
                             => prompt'[d] = asked'[d]
                       /\ at'[d] = 0 => dropped'[d] = 0
                       /\ at'[d] # 0 => dropped'[d] = Length[asked'[d]] - Length[prompt'[d]]
                       /\ at'[d] # Returned => savings'[d] = Nil
    BY <1>2 DEF ProgressInv
  <2>3. CASE d = c
    BY <1>2, <1>4, <2>1, <2>2, <2>3
  <2>4. CASE d # c
    BY <1>2, <1>4, <2>4 DEF ProgressInv
  <2>. QED  BY <2>3, <2>4
<1>7. ExclusiveInv'
  BY <1>3, <1>4 DEF ExclusiveInv
<1>8. MarkInv'
  <2>. SUFFICES ASSUME NEW d \in Calls, NEW k \in DOMAIN stack, at'[d] > k, stack[k] = "promptcache",
                       (Tokens(Prefix(d, CachedPrompt(d))) >= MinPrefix)'
                PROVE  (Metadata(d) = Prefix(d, CachedPrompt(d)))'
    BY <1>2 DEF MarkInv
  <2>1. k \in Int /\ k >= 1
    BY StackShape DEF TypeOK
  <2>2. d # c
    BY <1>4, <2>1
  <2>3. Prefix(d, CachedPrompt(d))' = Prefix(d, CachedPrompt(d))
    BY <1>2, <1>4, <2>2 DEF Prefix, CachedPrompt
  <2>4. Metadata(d)' = Metadata(d)
    BY <1>2, <1>4, <2>2 DEF Metadata
  <2>5. Tokens(Prefix(d, CachedPrompt(d))) >= MinPrefix
    BY <2>3 DEF Tokens
  <2>. QED  BY <1>4, <2>2, <2>3, <2>4, <2>5 DEF MarkInv
<1>9. SeenIsWindow'
  BY <1>2 DEF SeenIsWindow
<1>10. SavingsAreTrue'
  BY <1>1, <1>2, <1>4 DEF SavingsAreTrue, ProgressInv, Returned
<1>11. NeverLonger'
  <2>1. Length[p] \in Int
    BY PromptsAssumption
  <2>. QED  BY <1>4, <2>1 DEF NeverLonger
<1>12. PromptIsTheCallers'
  <2>1. \A d \in Calls \ {c} : at[d] > 0 => system'[of[d]] = system[of[d]]
    <3>1. \A d \in Calls : at[d] > 0 => of[d] \in Requests
      BY DEF TypeOK
    <3>. QED  BY <1>1, <1>3, <3>1 DEF TypeOK
  <2>2. system'[r] = p
    BY <1>1 DEF TypeOK
  <2>. QED  BY <1>4, <2>1, <2>2 DEF PromptIsTheCallers
<1>. QED  BY <1>5, <1>6, <1>7, <1>8, <1>9, <1>10, <1>11, <1>12

\* Register changes nothing that a call under way depends on.
LEMMA RegisterInv ==
    ASSUME Inv, NEW o \in Prompts, NEW d \in Prompts, Register(o, d)
    PROVE  Inv'
<1>1. UNCHANGED <<stack, extractor, readOnly, seen, now, system, metadata, at, of, asked,
                  prompt, copied, dropped, usage, savings, stamp>>
  BY DEF Register, configVars, requestVars, answerVars
<1>2. /\ DOMAIN entries' \subseteq Prompts
      /\ entries' \in [DOMAIN entries' -> Prompts]
  BY DEF Inv, TypeOK, Register
<1>3. TypeOK'
  BY <1>1, <1>2 DEF Inv, TypeOK
<1>4. ProgressInv' /\ ExclusiveInv' /\ SeenIsWindow'
  BY <1>1 DEF Inv, ProgressInv, ExclusiveInv, SeenIsWindow
<1>5. MarkInv'
  BY <1>1 DEF Inv, MarkInv, Metadata, Prefix, CachedPrompt, Tokens
<1>6. SavingsAreTrue' /\ NeverLonger' /\ PromptIsTheCallers'
  BY <1>1 DEF Inv, SavingsAreTrue, NeverLonger, PromptIsTheCallers
<1>. QED  BY <1>3, <1>4, <1>5, <1>6 DEF Inv

\* The clock ticks: seen is not looked at before the next prefix is tracked.
LEMMA TimeInv ==
    ASSUME Inv, TimePasses
    PROVE  Inv'
<1>1. /\ UNCHANGED <<stack, extractor, readOnly, entries, seen, system, metadata, at, of, asked,
                     prompt, copied, dropped, usage, savings, stamp>>
      /\ now < MaxTime /\ now' = now + 1
  BY DEF TimePasses, configVars, requestVars, answerVars
<1>2. TypeOK'
  <2>1. now \in Nat /\ now' \in 0 .. MaxTime /\ 0 .. now \subseteq 0 .. now'
    BY <1>1, PromptsAssumption DEF Inv, TypeOK
  <2>2. seen' \in [DOMAIN seen' -> 0 .. now']
    BY <1>1, <2>1 DEF Inv, TypeOK
  <2>3. stamp' \in [Prompts -> 0 .. now' \cup {Nil}]
    BY <1>1, <2>1 DEF Inv, TypeOK
  <2>. QED  BY <1>1, <2>1, <2>2, <2>3 DEF Inv, TypeOK
<1>4. ProgressInv' /\ ExclusiveInv' /\ SeenIsWindow'
  BY <1>1 DEF Inv, ProgressInv, ExclusiveInv, SeenIsWindow
<1>5. MarkInv'
  BY <1>1 DEF Inv, MarkInv, Metadata, Prefix, CachedPrompt, Tokens
<1>6. SavingsAreTrue' /\ NeverLonger' /\ PromptIsTheCallers'
  BY <1>1 DEF Inv, SavingsAreTrue, NeverLonger, PromptIsTheCallers
<1>. QED  BY <1>2, <1>4, <1>5, <1>6 DEF Inv

-----------------------------------------------------------------------------
\* Tracking a prefix, with the cleaning that comes first, leaves in seen what is
\* within the window of now: since no other prefix was used later than the one
\* that is, what was dropped before stays outside.
LEMMA TrackKeepsWindow ==
    ASSUME TypeOK, SeenIsWindow, NEW p \in Prompts, Track(p)
    PROVE  SeenIsWindow'
<1>. SUFFICES ASSUME Window >= 0, NEW q \in Prompts
              PROVE  IF stamp'[q] # Nil /\ \A x \in Prompts : stamp'[x] # Nil
                                                                 => stamp'[x] - stamp'[q] <= Window
                       THEN q \in DOMAIN seen' /\ seen'[q] = stamp'[q]
                       ELSE q \notin DOMAIN seen'
  BY DEF SeenIsWindow
<1>1. now \in Nat /\ Window \in Nat /\ Nil \notin Int
  BY PromptsAssumption DEF TypeOK
<1>2. \A x \in Prompts : stamp[x] # Nil => stamp[x] \in Int /\ stamp[x] <= now
  BY <1>1 DEF TypeOK
<1>3. /\ stamp'[p] = now
      /\ \A x \in Prompts : x # p => stamp'[x] = stamp[x]
  BY DEF Track, TypeOK
<1>4. DOMAIN seen' = {x \in DOMAIN seen : ~Stale(seen[x])} \cup {p}
  BY DEF Track
<1>5. \A x \in DOMAIN seen' : seen'[x] = IF x = p THEN now ELSE seen[x]
  BY DEF Track
<1>6. CASE q = p
  <2>1. \A x \in Prompts : stamp'[x] # Nil => stamp'[x] - stamp'[p] <= Window
    BY <1>1, <1>2, <1>3
  <2>2. stamp'[p] # Nil
    BY <1>1, <1>3
  <2>. QED  BY <1>3, <1>4, <1>5, <1>6, <2>1, <2>2
<1>7. CASE q # p /\ q \in DOMAIN seen
  <2>1. stamp[q] # Nil /\ seen[q] = stamp[q]
    BY <1>7 DEF SeenIsWindow
  <2>2. Stale(seen[q]) <=> now - stamp[q] > Window
    BY <2>1 DEF Stale
  <2>3. CASE now - stamp[q] > Window
    <3>1. q \notin DOMAIN seen'
      BY <1>4, <1>7, <2>2, <2>3
    <3>2. stamp'[p] # Nil /\ ~(stamp'[p] - stamp'[q] <= Window)
      BY <1>1, <1>2, <1>3, <1>7, <2>1, <2>3
    <3>. QED  BY <3>1, <3>2
  <2>4. CASE ~(now - stamp[q] > Window)
    <3>1. q \in DOMAIN seen' /\ seen'[q] = stamp'[q]
      BY <1>3, <1>4, <1>5, <1>7, <2>1, <2>2, <2>4
    <3>2. \A x \in Prompts : stamp'[x] # Nil => stamp'[x] - stamp'[q] <= Window
      BY <1>1, <1>2, <1>3, <1>7, <2>1, <2>4
    <3>3. stamp'[q] # Nil
      BY <1>3, <1>7, <2>1
    <3>. QED  BY <3>1, <3>2, <3>3
  <2>. QED  BY <2>3, <2>4
<1>8. CASE q # p /\ q \notin DOMAIN seen
  <2>1. q \notin DOMAIN seen'
    BY <1>4, <1>8
  <2>2. CASE stamp[q] = Nil
    BY <1>3, <1>8, <2>1, <2>2
  <2>3. CASE stamp[q] # Nil
    <3>1. PICK x \in Prompts : stamp[x] # Nil /\ ~(stamp[x] - stamp[q] <= Window)
      BY <1>8, <2>3 DEF SeenIsWindow
    <3>2. stamp'[x] # Nil /\ ~(stamp'[x] - stamp'[q] <= Window)
      BY <1>1, <1>2, <1>3, <1>8, <2>3, <3>1
    <3>. QED  BY <2>1, <3>2
  <2>. QED  BY <2>2, <2>3
<1>. QED  BY <1>6, <1>7, <1>8

-----------------------------------------------------------------------------
\* Entering promptcache.  A long prefix is annotated, in the Request's own map or
\* in that of distill's copy, and becomes the latest in seen.
LEMMA PromptCacheInv ==
    ASSUME Inv, NEW c \in Calls, PromptCache(c)
    PROVE  Inv'
<1>. DEFINE p == Prefix(c, prompt[c])
<1>. USE DEF Inv
<1>1. /\ at[c] \in DOMAIN stack /\ stack[at[c]] = "promptcache"
      /\ at' = [at EXCEPT ![c] = at[c] + 1]
      /\ IF LongEnough(p)
           THEN Annotate(c, p) /\ Track(p)
           ELSE UNCHANGED <<metadata, copied, seen, stamp>>
  BY DEF PromptCache, Enters, Descend
<1>2. UNCHANGED <<stack, extractor, readOnly, entries, now, system, of, asked, prompt, dropped,
                  usage, savings>>
  BY DEF PromptCache, configVars, answerVars
<1>3. /\ Len(stack) \in {1, 2} /\ DOMAIN stack = 1 .. Len(stack)
      /\ \A j, k \in DOMAIN stack : stack[j] = stack[k] => j = k
      /\ at[c] \in 1 .. 2 /\ at[c] <= Len(stack)
  <2>1. /\ Len(stack) \in {1, 2} /\ DOMAIN stack = 1 .. Len(stack)
        /\ \A j, k \in DOMAIN stack : stack[j] = stack[k] => j = k
    BY StackShape DEF TypeOK
  <2>. QED  BY <1>1, <2>1
<1>4. /\ at'[c] = at[c] + 1
      /\ \A d \in Calls \ {c} : at'[d] = at[d]
  BY <1>1 DEF TypeOK
<1>5. of[c] \in Requests /\ p \in Prompts /\ p # Nil /\ p # Plain /\ p # Shared
  <2>1. of[c] \in Requests /\ prompt[c] \in Prompts
    BY <1>3 DEF TypeOK
  <2>2. p \in Prompts
    BY <1>3, <2>1, PrefixType
  <2>. QED  BY <2>1, <2>2, PromptsAssumption
<1>6. /\ metadata' \in [Requests -> Maps]
      /\ copied' \in [Calls -> Maps \cup {Shared}]
      /\ \A d \in Calls \ {c} : copied'[d] = copied[d]
      /\ \A r \in Requests \ {of[c]} : metadata'[r] = metadata[r]
      /\ LongEnough(p) => Metadata(c)' = p
  <2>1. CASE LongEnough(p) /\ copied[c] = Shared
    <3>1. metadata' = [metadata EXCEPT ![of[c]] = p] /\ copied' = copied
      BY <1>1, <2>1 DEF Annotate
    <3>. QED  BY <1>2, <1>5, <2>1, <3>1 DEF TypeOK, Maps, Metadata
  <2>2. CASE LongEnough(p) /\ copied[c] # Shared
    <3>1. copied' = [copied EXCEPT ![c] = p] /\ metadata' = metadata
      BY <1>1, <2>2 DEF Annotate
    <3>. QED  BY <1>2, <1>5, <2>2, <3>1 DEF TypeOK, Maps, Metadata
  <2>3. CASE ~LongEnough(p)
    BY <1>1, <2>3 DEF TypeOK
  <2>. QED  BY <2>1, <2>2, <2>3
<1>7. /\ DOMAIN seen' \subseteq {q \in Prompts : Tokens(q) >= MinPrefix}
      /\ seen' \in [DOMAIN seen' -> 0 .. now]
      /\ stamp' \in [Prompts -> 0 .. now \cup {Nil}]
  <2>1. CASE LongEnough(p)
    <3>1. Track(p) /\ Tokens(p) >= MinPrefix
      BY <1>1, <2>1 DEF LongEnough
    <3>2. now \in 0 .. now
      BY PromptsAssumption DEF TypeOK
    <3>3. stamp' \in [Prompts -> 0 .. now \cup {Nil}]
      BY <1>5, <3>1, <3>2 DEF Track, TypeOK
    <3>4. DOMAIN seen' = {q \in DOMAIN seen : ~Stale(seen[q])} \cup {p}
      BY <3>1 DEF Track
    <3>5. \A q \in DOMAIN seen' : seen'[q] = IF q = p THEN now ELSE seen[q]
      BY <3>1 DEF Track
    <3>6. \A q \in DOMAIN seen : seen[q] \in 0 .. now
      BY DEF TypeOK
    <3>7. \A q \in DOMAIN seen' : seen'[q] \in 0 .. now
      BY <3>2, <3>4, <3>5, <3>6
    <3>8. seen' \in [DOMAIN seen' -> 0 .. now]
      BY <3>1, <3>7 DEF Track
    <3>9. DOMAIN seen' \subseteq {q \in Prompts : Tokens(q) >= MinPrefix}
      BY <1>5, <3>1, <3>4 DEF TypeOK
    <3>. QED  BY <3>3, <3>8, <3>9
  <2>2. CASE ~LongEnough(p)
    BY <1>1, <2>2 DEF TypeOK
  <2>. QED  BY <2>1, <2>2
<1>8. TypeOK'
  <2>1. at' \in [Calls -> -1 .. Len(stack)' + 1]
    BY <1>1, <1>2, <1>3 DEF TypeOK
  <2>2. /\ \A d \in Calls : at'[d] # 0 => of'[d] # Nil /\ asked'[d] # Nil /\ prompt'[d] # Nil
        /\ \A d \in Calls : at'[d] = 0 => of'[d] = Nil
    <3>1. /\ \A d \in Calls : at[d] # 0 => of[d] # Nil /\ asked[d] # Nil /\ prompt[d] # Nil
          /\ \A d \in Calls : at[d] = 0 => of[d] = Nil
      BY DEF TypeOK
    <3>2. at[c] # 0 /\ at'[c] # 0
      BY <1>3, <1>4
    <3>. QED  BY <1>2, <1>4, <3>1, <3>2
  <2>. QED  BY <1>2, <1>6, <1>7, <2>1, <2>2 DEF TypeOK
<1>9. ProgressInv'
  <2>. SUFFICES ASSUME NEW d \in Calls
                PROVE  /\ at'[d] \in {0, 1} => prompt[d] = asked[d]
                       /\ \A k \in DOMAIN stack : at'[d] \in 1 .. k /\ stack[k] = "distill"
                             => prompt[d] = asked[d]
                       /\ at'[d] = 0 => dropped[d] = 0
                       /\ at'[d] # 0 => dropped[d] = Length[asked[d]] - Length[prompt[d]]
                       /\ at'[d] # Returned => savings[d] = Nil
    BY <1>2 DEF ProgressInv
  <2>1. CASE d = c
    <3>1. at[c] # 0 /\ at[c] # Returned /\ at'[c] \notin {0, 1}
      BY <1>3, <1>4 DEF Returned
    <3>2. \A k \in DOMAIN stack : at'[c] \in 1 .. k => at[c] \in 1 .. k
      BY <1>3, <1>4
    <3>. QED  BY <2>1, <3>1, <3>2 DEF ProgressInv
  <2>2. CASE d # c
    BY <1>4, <2>2 DEF ProgressInv
  <2>. QED  BY <2>1, <2>2
<1>10. ExclusiveInv'
  <2>1. \A d \in Calls : at'[d] > 0 => at[d] > 0
    BY <1>3, <1>4
  <2>. QED  BY <1>2, <2>1 DEF ExclusiveInv
<1>11. MarkInv'
  <2>. SUFFICES ASSUME NEW d \in Calls, NEW k \in DOMAIN stack, at'[d] > k, stack[k] = "promptcache",
                       (Tokens(Prefix(d, CachedPrompt(d))) >= MinPrefix)'
                PROVE  (Metadata(d) = Prefix(d, CachedPrompt(d)))'
    BY <1>2 DEF MarkInv
  <2>1. Prefix(d, CachedPrompt(d))' = Prefix(d, CachedPrompt(d))
    BY <1>2 DEF Prefix, CachedPrompt
  <2>2. Tokens(Prefix(d, CachedPrompt(d))) >= MinPrefix
    BY <2>1 DEF Tokens
  <2>3. CASE d = c
    <3>1. CachedPrompt(c) = prompt[c]
      <4>1. CASE stack[1] = "promptcache"
        <5>1. at[c] = 1
          BY <1>1, <1>3, <4>1
        <5>. QED  BY <4>1, <5>1 DEF CachedPrompt, ProgressInv
      <4>2. CASE stack[1] # "promptcache"
        BY <4>2 DEF CachedPrompt
      <4>. QED  BY <4>1, <4>2
    <3>2. LongEnough(p)
      BY <2>2, <2>3, <3>1 DEF LongEnough
    <3>. QED  BY <1>6, <2>1, <2>3, <3>1, <3>2
  <2>4. CASE d # c
    <3>1. k \in Int /\ k >= 1
      BY <1>3
    <3>2. at[d] > k /\ at[d] > 0
      BY <1>4, <2>4, <3>1 DEF TypeOK
    <3>3. of[d] \in Requests /\ of[d] # of[c]
      BY <1>3, <2>4, <3>2 DEF ExclusiveInv, TypeOK
    <3>4. Metadata(d)' = Metadata(d)
      BY <1>2, <1>6, <2>4, <3>3 DEF Metadata
    <3>. QED  BY <2>1, <2>2, <3>2, <3>4 DEF MarkInv
  <2>. QED  BY <2>3, <2>4
<1>12. SeenIsWindow'
  <2>1. CASE LongEnough(p)
    <3>1. Track(p)
      BY <1>1, <2>1
    <3>. QED  BY <1>5, <3>1, TrackKeepsWindow
  <2>2. CASE ~LongEnough(p)
    BY <1>1, <2>2 DEF SeenIsWindow
  <2>. QED  BY <2>1, <2>2
<1>13. SavingsAreTrue'
  BY <1>2 DEF SavingsAreTrue
<1>14. NeverLonger'
  BY <1>2, <1>3, <1>4 DEF NeverLonger
<1>15. PromptIsTheCallers'
  BY <1>2, <1>3, <1>4 DEF PromptIsTheCallers
<1>. QED  BY <1>8, <1>9, <1>10, <1>11, <1>12, <1>13, <1>14, <1>15

-----------------------------------------------------------------------------
\* Entering distill.  It is the only distill of the stack, so that the prompt it
\* replaces is the caller's; the copy of the Request has the same annotation.
LEMMA DistillInv ==
    ASSUME Inv, NEW c \in Calls, Distill(c)
    PROVE  Inv'
<1>. DEFINE o == prompt[c]
            Replaced == o \in DOMAIN entries /\ EnoughSaved(o, entries[o])
<1>. USE DEF Inv
<1>1. /\ at[c] \in DOMAIN stack /\ stack[at[c]] = "distill"
      /\ at' = [at EXCEPT ![c] = at[c] + 1]
      /\ IF Replaced
           THEN /\ Replace(c, entries[o])
                /\ dropped' = [dropped EXCEPT ![c] = Length[o] - Length[entries[o]]]
           ELSE UNCHANGED <<prompt, copied, system, dropped>>
  BY DEF Distill, Enters, Descend
<1>2. UNCHANGED <<stack, extractor, readOnly, entries, seen, now, metadata, of, asked,
                  usage, savings, stamp>>
  BY DEF Distill, configVars, answerVars
<1>3. /\ Len(stack) \in {1, 2} /\ DOMAIN stack = 1 .. Len(stack)
      /\ \A j, k \in DOMAIN stack : stack[j] = stack[k] => j = k
      /\ at[c] \in 1 .. 2 /\ at[c] <= Len(stack)
  <2>1. /\ Len(stack) \in {1, 2} /\ DOMAIN stack = 1 .. Len(stack)
        /\ \A j, k \in DOMAIN stack : stack[j] = stack[k] => j = k
    BY StackShape DEF TypeOK
  <2>. QED  BY <1>1, <2>1
<1>4. /\ at'[c] = at[c] + 1
      /\ \A d \in Calls \ {c} : at'[d] = at[d]
  BY <1>1 DEF TypeOK
<1>5. /\ of[c] \in Requests /\ o \in Prompts /\ o = asked[c]
      /\ Length[o] \in Nat
      /\ \A q \in DOMAIN entries : entries[q] \in Prompts /\ Length[entries[q]] \in Nat
  <2>1. of[c] \in Requests /\ o \in Prompts
    BY <1>3 DEF TypeOK
  <2>2. o = asked[c]
    BY <1>1, <1>3 DEF ProgressInv
  <2>3. \A q \in DOMAIN entries : entries[q] \in Prompts
    BY DEF TypeOK
  <2>. QED  BY <2>1, <2>2, <2>3, PromptsAssumption
<1>6. /\ system' = system
      /\ prompt' \in [Calls -> Prompts \cup {Nil}]
      /\ copied' \in [Calls -> Maps \cup {Shared}]
      /\ dropped' \in [Calls -> Int]
      /\ \A d \in Calls \ {c} : /\ prompt'[d] = prompt[d] /\ copied'[d] = copied[d]
                                /\ dropped'[d] = dropped[d]
      /\ prompt'[c] \in Prompts
      /\ dropped'[c] = Length[asked[c]] - Length[prompt'[c]]
      /\ MinSavings >= 0 => Length[prompt'[c]] <= Length[asked[c]] \/ Length[asked[c]] = 0
      /\ Metadata(c)' = Metadata(c)
  <2>1. CASE Replaced
    <3>1. /\ prompt' = [prompt EXCEPT ![c] = entries[o]]
          /\ copied' = [copied EXCEPT ![c] = CopyOfMetadata(c)]
          /\ system' = system
          /\ dropped' = [dropped EXCEPT ![c] = Length[o] - Length[entries[o]]]
      BY <1>1, <2>1 DEF Replace
    <3>2. prompt'[c] = entries[o] /\ entries[o] \in Prompts
      BY <1>5, <2>1, <3>1 DEF TypeOK
    <3>3. Length[o] - Length[entries[o]] \in Int
      BY <1>5, <2>1
    <3>4. MinSavings >= 0 => Length[entries[o]] <= Length[o] \/ Length[o] = 0
      BY <1>5, <2>1, <3>2, EnoughSavedShortens
    <3>5. CopyOfMetadata(c) \in Maps \cup {Shared}
      BY DEF CopyOfMetadata, TypeOK, Maps
    <3>6. /\ copied' \in [Calls -> Maps \cup {Shared}]
          /\ copied'[c] = CopyOfMetadata(c)
          /\ \A d \in Calls \ {c} : copied'[d] = copied[d]
      BY <3>1, <3>5 DEF TypeOK
    <3>7. Metadata(c)' = Metadata(c)
      BY <1>2, <3>6, PromptsAssumption DEF Metadata, CopyOfMetadata
    <3>8. /\ dropped' \in [Calls -> Int]
          /\ dropped'[c] = Length[o] - Length[entries[o]]
          /\ \A d \in Calls \ {c} : dropped'[d] = dropped[d]
      BY <3>1, <3>3 DEF TypeOK
    <3>9. /\ prompt' \in [Calls -> Prompts \cup {Nil}]
          /\ \A d \in Calls \ {c} : prompt'[d] = prompt[d]
      BY <3>1, <3>2 DEF TypeOK
    <3>. QED  BY <1>5, <3>1, <3>2, <3>4, <3>6, <3>7, <3>8, <3>9
  <2>2. CASE ~Replaced
    <3>1. UNCHANGED <<prompt, copied, system, dropped>>
      BY <1>1, <2>2
    <3>2. dropped[c] = Length[asked[c]] - Length[prompt[c]]
      BY <1>3 DEF ProgressInv
    <3>3. Metadata(c)' = Metadata(c)
      BY <1>2, <3>1 DEF Metadata
    <3>. QED  BY <1>5, <3>1, <3>2, <3>3 DEF TypeOK
  <2>. QED  BY <2>1, <2>2
<1>7. TypeOK'
  <2>1. at' \in [Calls -> -1 .. Len(stack)' + 1]
    BY <1>1, <1>2, <1>3 DEF TypeOK
  <2>2. /\ \A d \in Calls : at'[d] # 0 => of'[d] # Nil /\ asked'[d] # Nil /\ prompt'[d] # Nil
        /\ \A d \in Calls : at'[d] = 0 => of'[d] = Nil
    <3>1. /\ \A d \in Calls : at[d] # 0 => of[d] # Nil /\ asked[d] # Nil /\ prompt[d] # Nil
          /\ \A d \in Calls : at[d] = 0 => of[d] = Nil
      BY DEF TypeOK
    <3>2. at[c] # 0 /\ at'[c] # 0
      BY <1>3, <1>4
    <3>3. prompt'[c] # Nil
      BY <1>6, PromptsAssumption
    <3>. QED  BY <1>2, <1>4, <1>6, <3>1, <3>2, <3>3
  <2>. QED  BY <1>2, <1>6, <2>1, <2>2 DEF TypeOK
<1>8. ProgressInv'
  <2>. SUFFICES ASSUME NEW d \in Calls
                PROVE  /\ at'[d] \in {0, 1} => prompt'[d] = asked[d]
                       /\ \A k \in DOMAIN stack : at'[d] \in 1 .. k /\ stack[k] = "distill"
                             => prompt'[d] = asked[d]
                       /\ at'[d] = 0 => dropped'[d] = 0
                       /\ at'[d] # 0 => dropped'[d] = Length[asked[d]] - Length[prompt'[d]]
                       /\ at'[d] # Returned => savings[d] = Nil
    BY <1>2 DEF ProgressInv
  <2>1. CASE d = c
    <3>1. at[c] # 0 /\ at[c] # Returned /\ at'[c] \notin {0, 1}
      BY <1>3, <1>4 DEF Returned
    <3>2. \A k \in DOMAIN stack : ~(at'[c] \in 1 .. k /\ stack[k] = "distill")
      BY <1>1, <1>3, <1>4
    <3>3. savings[c] = Nil
      BY <3>1 DEF ProgressInv
    <3>. QED  BY <1>6, <2>1, <3>1, <3>2, <3>3
  <2>2. CASE d # c
    BY <1>4, <1>6, <2>2 DEF ProgressInv
  <2>. QED  BY <2>1, <2>2
<1>9. ExclusiveInv'
  <2>1. \A d \in Calls : at'[d] > 0 => at[d] > 0
    BY <1>3, <1>4
  <2>. QED  BY <1>2, <2>1 DEF ExclusiveInv
<1>10. MarkInv'
  <2>. SUFFICES ASSUME NEW d \in Calls, NEW k \in DOMAIN stack, at'[d] > k, stack[k] = "promptcache",
                       (Tokens(Prefix(d, CachedPrompt(d))) >= MinPrefix)'
                PROVE  (Metadata(d) = Prefix(d, CachedPrompt(d)))'
    BY <1>2 DEF MarkInv
  <2>1. CASE d = c
    <3>1. k = 1 /\ at[c] = 2
      BY <1>1, <1>3, <1>4, <2>1
    <3>2. Prefix(c, CachedPrompt(c))' = Prefix(c, CachedPrompt(c))
      BY <1>2, <3>1 DEF Prefix, CachedPrompt
    <3>3. Tokens(Prefix(c, CachedPrompt(c))) >= MinPrefix
      BY <2>1, <3>2 DEF Tokens
    <3>. QED  BY <1>6, <2>1, <3>1, <3>2, <3>3 DEF MarkInv
  <2>2. CASE d # c
    <3>1. Prefix(d, CachedPrompt(d))' = Prefix(d, CachedPrompt(d))
      BY <1>2, <1>6, <2>2 DEF Prefix, CachedPrompt
    <3>2. Tokens(Prefix(d, CachedPrompt(d))) >= MinPrefix
      BY <3>1 DEF Tokens
    <3>3. Metadata(d)' = Metadata(d)
      BY <1>2, <1>6, <2>2 DEF Metadata
    <3>. QED  BY <1>4, <2>2, <3>1, <3>2, <3>3 DEF MarkInv
  <2>. QED  BY <2>1, <2>2
<1>11. SeenIsWindow'
  BY <1>2 DEF SeenIsWindow
<1>12. SavingsAreTrue'
  <2>1. savings[c] = Nil
    BY <1>3 DEF ProgressInv, Returned
  <2>. QED  BY <1>2, <1>6, <2>1 DEF SavingsAreTrue
<1>13. NeverLonger'
  <2>1. at[c] # 0
    BY <1>3
  <2>. QED  BY <1>2, <1>4, <1>6, <2>1 DEF NeverLonger
<1>14. PromptIsTheCallers'
  BY <1>2, <1>3, <1>4, <1>6 DEF PromptIsTheCallers
<1>. QED  BY <1>7, <1>8, <1>9, <1>10, <1>11, <1>12, <1>13, <1>14

-----------------------------------------------------------------------------
\* The end of a call, with an answer or without.
LEMMA ReturnInv ==
    ASSUME Inv, NEW c \in Calls, AtProvider(c),
           at' = [at EXCEPT ![c] = Returned],
           UNCHANGED <<stack, extractor, readOnly, entries, seen, now, system, metadata, of, asked,
                       prompt, copied, dropped, stamp>>,
           usage' \in [Calls -> Nat \cup {Nil}],
           savings' \in [Calls -> Int \cup {Nil}],
           \A d \in Calls \ {c} : usage'[d] = usage[d] /\ savings'[d] = savings[d],
           savings'[c] # Nil =>
               savings'[c] = Quotient(Length[asked[c]] - Length[prompt[c]], 4)
                             + (IF "promptcache" \in Range(stack) THEN usage'[c] ELSE 0)
    PROVE  Inv'
<1>. USE DEF Inv
<1>1. /\ at[c] \in {2, 3} /\ at'[c] = -1
      /\ \A d \in Calls \ {c} : at'[d] = at[d]
      /\ Len(stack) \in {1, 2} /\ DOMAIN stack = 1 .. Len(stack)
  <2>1. Len(stack) \in {1, 2} /\ DOMAIN stack = 1 .. Len(stack)
    BY StackShape DEF TypeOK
  <2>2. at[c] \in {2, 3}
    BY <2>1 DEF AtProvider
  <2>3. at'[c] = -1 /\ \A d \in Calls \ {c} : at'[d] = at[d]
    BY DEF TypeOK, Returned
  <2>. QED  BY <2>1, <2>2, <2>3
<1>2. TypeOK'
  <2>1. at' \in [Calls -> -1 .. Len(stack)' + 1]
    BY <1>1 DEF TypeOK, Returned
  <2>2. /\ \A d \in Calls : at'[d] # 0 => of'[d] # Nil /\ asked'[d] # Nil /\ prompt'[d] # Nil
        /\ \A d \in Calls : at'[d] = 0 => of'[d] = Nil
    <3>1. /\ \A d \in Calls : at[d] # 0 => of[d] # Nil /\ asked[d] # Nil /\ prompt[d] # Nil
          /\ \A d \in Calls : at[d] = 0 => of[d] = Nil
      BY DEF TypeOK
    <3>. QED  BY <1>1, <3>1
  <2>. QED  BY <2>1, <2>2 DEF TypeOK
<1>3. ProgressInv'
  <2>. SUFFICES ASSUME NEW d \in Calls
                PROVE  /\ at'[d] \in {0, 1} => prompt[d] = asked[d]
                       /\ \A k \in DOMAIN stack : at'[d] \in 1 .. k /\ stack[k] = "distill"
                             => prompt[d] = asked[d]
                       /\ at'[d] = 0 => dropped[d] = 0
                       /\ at'[d] # 0 => dropped[d] = Length[asked[d]] - Length[prompt[d]]
                       /\ at'[d] # Returned => savings'[d] = Nil
    BY DEF ProgressInv
  <2>1. CASE d = c
    BY <1>1, <2>1 DEF ProgressInv, Returned
  <2>2. CASE d # c
    BY <1>1, <2>2 DEF ProgressInv
  <2>. QED  BY <2>1, <2>2
<1>4. ExclusiveInv'
  <2>1. \A d \in Calls : at'[d] > 0 => at[d] > 0
    BY <1>1
  <2>. QED  BY <2>1 DEF ExclusiveInv
<1>5. MarkInv'
  <2>. SUFFICES ASSUME NEW d \in Calls, NEW k \in DOMAIN stack, at'[d] > k, stack[k] = "promptcache",
                       (Tokens(Prefix(d, CachedPrompt(d))) >= MinPrefix)'
                PROVE  (Metadata(d) = Prefix(d, CachedPrompt(d)))'
    BY DEF MarkInv
  <2>1. k \in Int /\ k >= 1
    BY <1>1
  <2>2. at[d] > k
    BY <1>1, <2>1
  <2>3. /\ Prefix(d, CachedPrompt(d))' = Prefix(d, CachedPrompt(d))
        /\ Metadata(d)' = Metadata(d)
    BY DEF Prefix, CachedPrompt, Metadata
  <2>4. Tokens(Prefix(d, CachedPrompt(d))) >= MinPrefix
    BY <2>3 DEF Tokens
  <2>. QED  BY <2>2, <2>3, <2>4 DEF MarkInv
<1>6. SeenIsWindow'
  BY DEF SeenIsWindow
<1>7. SavingsAreTrue'
  BY DEF SavingsAreTrue
<1>8. NeverLonger'
  BY <1>1 DEF NeverLonger
<1>9. PromptIsTheCallers'
  BY <1>1 DEF PromptIsTheCallers
<1>. QED  BY <1>2, <1>3, <1>4, <1>5, <1>6, <1>7, <1>8, <1>9

\* The provider answers: the response is given the savings of this call.
LEMMA AnswerInv ==
    ASSUME Inv, NEW c \in Calls, NEW n \in CacheReads, Answer(c, n)
    PROVE  Inv'
<1>. USE DEF Inv
<1>1. /\ AtProvider(c)
      /\ at' = [at EXCEPT ![c] = Returned]
      /\ usage' = [usage EXCEPT ![c] = n]
      /\ savings' = [savings EXCEPT ![c] = Saved(c, n)]
      /\ UNCHANGED <<stack, extractor, readOnly, entries, seen, now, system, metadata, of, asked,
                     prompt, copied, dropped, stamp>>
  BY DEF Answer, configVars, requestVars
<1>2. n \in Nat
  BY PromptsAssumption
<1>3. dropped[c] \in Int /\ dropped[c] = Length[asked[c]] - Length[prompt[c]]
  <2>1. at[c] # 0
    BY <1>1, StackShape DEF AtProvider, TypeOK
  <2>. QED  BY <2>1 DEF TypeOK, ProgressInv
<1>4. Quotient(dropped[c], 4) \in Int
  BY <1>3, QuotientInt
<1>5. /\ Saved(c, n) \in Int
      /\ Saved(c, n) = Quotient(Length[asked[c]] - Length[prompt[c]], 4)
                       + (IF "promptcache" \in Range(stack) THEN n ELSE 0)
  BY <1>2, <1>3, <1>4 DEF Saved
<1>6. /\ usage' \in [Calls -> Nat \cup {Nil}] /\ usage'[c] = n
      /\ \A d \in Calls \ {c} : usage'[d] = usage[d]
  BY <1>1, <1>2 DEF TypeOK
<1>7. /\ savings' \in [Calls -> Int \cup {Nil}] /\ savings'[c] = Saved(c, n)
      /\ \A d \in Calls \ {c} : savings'[d] = savings[d]
  BY <1>1, <1>5 DEF TypeOK
<1>. QED  BY <1>1, <1>5, <1>6, <1>7, ReturnInv

\* The provider fails: there is no response.
LEMMA FailInv ==
    ASSUME Inv, NEW c \in Calls, Fail(c)
    PROVE  Inv'
<1>. USE DEF Inv
<1>1. /\ AtProvider(c)
      /\ at' = [at EXCEPT ![c] = Returned]
      /\ UNCHANGED <<stack, extractor, readOnly, entries, seen, now, system, metadata, of, asked,
                     prompt, copied, dropped, stamp, usage, savings>>
  BY DEF Fail, configVars, requestVars, answerVars
<1>2. savings[c] = Nil
  <2>1. at[c] # Returned
    BY <1>1, StackShape DEF AtProvider, TypeOK, Returned
  <2>. QED  BY <2>1 DEF ProgressInv
<1>3. usage' \in [Calls -> Nat \cup {Nil}] /\ savings' \in [Calls -> Int \cup {Nil}]
  BY <1>1 DEF TypeOK
<1>. QED  BY <1>1, <1>2, <1>3, ReturnInv

LEMMA StutterInv ==
    ASSUME Inv, UNCHANGED vars
    PROVE  Inv'
<1>1. UNCHANGED <<stack, extractor, readOnly, entries, seen, now, system, metadata, at, of, asked,
                  prompt, copied, dropped, stamp, usage, savings>>
  BY DEF vars, configVars, requestVars, answerVars
<1>2. TypeOK' /\ ProgressInv' /\ ExclusiveInv' /\ SeenIsWindow'
  BY <1>1 DEF Inv, TypeOK, ProgressInv, ExclusiveInv, SeenIsWindow
<1>3. MarkInv'
  BY <1>1 DEF Inv, MarkInv, Metadata, Prefix, CachedPrompt, Tokens
<1>4. SavingsAreTrue' /\ NeverLonger' /\ PromptIsTheCallers'
  BY <1>1 DEF Inv, SavingsAreTrue, NeverLonger, PromptIsTheCallers
<1>. QED  BY <1>2, <1>3, <1>4 DEF Inv

-----------------------------------------------------------------------------
\* The conjunction of the invariants of promptcache and distill is one.
THEOREM Invariance == Spec => []Inv
<1>1. ASSUME Inv, [Next]_vars
      PROVE  Inv'
  <2>1. ASSUME NEW c \in Calls, NEW r \in Requests, NEW p \in Prompts, Call(c, r, p)
        PROVE  Inv'
    BY <1>1, <2>1, CallInv
  <2>2. ASSUME NEW d \in Distillates, Register(d[1], d[2])
        PROVE  Inv'
    <3>1. d[1] \in Prompts /\ d[2] \in Prompts
      BY PromptsAssumption
    <3>. QED  BY <1>1, <2>2, <3>1, RegisterInv
  <2>3. ASSUME NEW c \in Calls, Complete(c)
        PROVE  Inv'
    BY <1>1, <2>3, PromptCacheInv, DistillInv, AnswerInv, FailInv DEF Complete
  <2>4. CASE TimePasses
    BY <1>1, <2>4, TimeInv
  <2>5. CASE UNCHANGED vars
    BY <1>1, <2>5, StutterInv
  <2>. QED  BY <1>1, <2>1, <2>2, <2>3, <2>4, <2>5 DEF Next, Application, Finished
<1>. QED  BY InitInv, <1>1, PTL DEF Spec

\* Every variable keeps its type, and only long prefixes are tracked.
THEOREM TypeCorrect == Spec => []TypeOK
<1>1. Inv => TypeOK
  BY DEF Inv
<1>. QED  BY Invariance, <1>1, PTL

\* seen holds exactly the prefixes within the window of the latest.
THEOREM SeenExact == Spec => []SeenIsWindow
<1>1. Inv => SeenIsWindow
  BY DEF Inv
<1>. QED  BY Invariance, <1>1, PTL

\* A long prefix reaches the provider annotated, through distill's copy too.
THEOREM AnnotationArrives == Spec => []LongIsMarked
<1>1. ASSUME Inv
      PROVE  LongIsMarked
  <2>. SUFFICES ASSUME NEW c \in Calls, AtProvider(c), "promptcache" \in Range(stack),
                       Tokens(Prefix(c, CachedPrompt(c))) >= MinPrefix
                PROVE  Metadata(c) = Prefix(c, CachedPrompt(c))
    BY DEF LongIsMarked
  <2>1. PICK k \in DOMAIN stack : stack[k] = "promptcache"
    BY <1>1, StackShape DEF Inv, TypeOK
  <2>2. at[c] > k
    BY <1>1, StackShape DEF Inv, TypeOK, AtProvider
  <2>. QED  BY <1>1, <2>1, <2>2 DEF Inv, MarkInv
<1>. QED  BY Invariance, <1>1, PTL

\* A response's Savings are those of the prompt that was sent.
THEOREM SavingsReported == Spec => []SavingsAreTrue
<1>1. Inv => SavingsAreTrue
  BY DEF Inv
<1>. QED  BY Invariance, <1>1, PTL

\* Distillation lengthens no prompt but the empty one: with the default minSavings
\* the code departs from "always replace if found" (distill.go:22-23) for any text of
\* the library that is longer than what it stands for.
THEOREM DistilledIsShorter == Spec => []NeverLonger
<1>1. Inv => NeverLonger
  BY DEF Inv
<1>. QED  BY Invariance, <1>1, PTL

\* The caller's System is left alone.
THEOREM PromptKept == Spec => []PromptIsTheCallers
<1>1. Inv => PromptIsTheCallers
  BY DEF Inv
<1>. QED  BY Invariance, <1>1, PTL


-----------------------------------------------------------------------------
\* Whose annotations there are.

\* Both places of an annotation, for the calls' maps that are their own too.
EarnedInv ==
    /\ \A r \in Requests : metadata[r] \notin {Nil, Plain} =>
          \E d \in Calls : of[d] = r /\ Earned(d, metadata[r])
    /\ \A c \in Calls : copied[c] \notin {Nil, Plain, Shared} =>
          \E d \in Calls : of[d] = of[c] /\ Earned(d, copied[c])

\* What a step does to a call that has passed promptcache.
LEMMA PastCacheStep ==
    ASSUME Inv, [Next]_vars, NEW d \in Calls, NEW k \in DOMAIN stack,
           stack[k] = "promptcache", at[d] > k \/ at[d] = Returned
    PROVE  /\ stack' = stack /\ extractor' = extractor
           /\ of'[d] = of[d] /\ asked'[d] = asked[d]
           /\ at'[d] > k \/ at'[d] = Returned
           /\ stack[1] = "promptcache" \/ prompt'[d] = prompt[d]
<1>. USE DEF Inv, TypeOK
<1>0. /\ k \in {1, 2} /\ at[d] # 0 /\ at[d] \in Int
      /\ \A j \in DOMAIN stack : stack[j] = "promptcache" => j = k
      /\ DOMAIN stack \subseteq {1, 2} /\ 1 \in DOMAIN stack
      /\ \A j \in DOMAIN stack : stack[j] \in {"promptcache", "distill"}
  <2>1. stack \in Stacks
    OBVIOUS
  <2>2. /\ Len(stack) \in {1, 2} /\ DOMAIN stack = 1 .. Len(stack)
        /\ \A j \in DOMAIN stack : stack[j] \in {"promptcache", "distill"}
        /\ \A j, n \in DOMAIN stack : stack[j] = stack[n] => j = n
    BY <2>1, StackShape
  <2>3. at[d] \in -1 .. Len(stack) + 1
    OBVIOUS
  <2>. QED  BY ONLY <2>2, <2>3, stack[k] = "promptcache", k \in DOMAIN stack,
                    at[d] > k \/ at[d] = Returned DEF Returned
<1>1. ASSUME NEW c \in Calls, NEW r \in Requests, NEW p \in Prompts, Call(c, r, p)
      PROVE  /\ c # d /\ UNCHANGED configVars /\ at'[d] = at[d] /\ of'[d] = of[d]
             /\ asked'[d] = asked[d] /\ prompt'[d] = prompt[d]
  BY <1>0, <1>1 DEF Call
<1>2. ASSUME NEW e \in Distillates, Register(e[1], e[2])
      PROVE  UNCHANGED <<configVars, at, requestVars>>
  BY <1>2 DEF Register
<1>3. ASSUME NEW c \in Calls, PromptCache(c)
      PROVE  /\ UNCHANGED <<configVars, of, asked, prompt>>
             /\ at'[d] \in {at[d], at[d] + 1}
             /\ at[d] # Returned \/ at'[d] = at[d]
  BY <1>0, <1>3 DEF PromptCache, Descend, Enters, Returned
<1>4. ASSUME NEW c \in Calls, Distill(c)
      PROVE  /\ UNCHANGED <<configVars, of, asked>>
             /\ at'[d] \in {at[d], at[d] + 1}
             /\ at[d] # Returned \/ at'[d] = at[d]
             /\ stack[1] = "promptcache" \/ prompt'[d] = prompt[d]
  <2>1. UNCHANGED <<configVars, of, asked>> /\ Enters(c, "distill") /\ Descend(c)
    BY <1>4 DEF Distill
  <2>2. CASE c = d
    <3>1. at[d] \in DOMAIN stack /\ stack[at[d]] = "distill" /\ at'[d] = at[d] + 1
      BY <2>1, <2>2 DEF Enters, Descend
    <3>2. at[d] = 2 /\ k = 1
      BY <1>0, <3>1 DEF Returned
    <3>. QED  BY <2>1, <3>1, <3>2 DEF Returned
  <2>3. CASE c # d
    <3>1. at'[d] = at[d]
      BY <2>1, <2>3 DEF Descend
    <3>2. prompt'[d] = prompt[d]
      BY <1>4, <2>3 DEF Distill, Replace
    <3>. QED  BY <2>1, <3>1, <3>2
  <2>. QED  BY <2>2, <2>3
<1>5. ASSUME NEW c \in Calls, (\E n \in CacheReads : Answer(c, n)) \/ Fail(c)
      PROVE  UNCHANGED <<configVars, requestVars>> /\ at'[d] \in {at[d], Returned}
  BY <1>5 DEF Answer, Fail
<1>6. CASE TimePasses
  BY <1>6 DEF TimePasses, configVars, requestVars
<1>7. CASE UNCHANGED vars
  BY <1>7 DEF vars, configVars, requestVars
<1>8. CASE Application
  BY <1>1, <1>2, <1>8 DEF Application, configVars, requestVars
<1>9. ASSUME NEW c \in Calls, Complete(c)
      PROVE  /\ stack' = stack /\ extractor' = extractor
             /\ of'[d] = of[d] /\ asked'[d] = asked[d]
             /\ at'[d] > k \/ at'[d] = Returned
             /\ stack[1] = "promptcache" \/ prompt'[d] = prompt[d]
  BY <1>0, <1>3, <1>4, <1>5, <1>9 DEF Complete, configVars, requestVars
<1>. QED  BY <1>6, <1>7, <1>8, <1>9 DEF Next, Finished

\* What was earned stays so.
LEMMA EarnedStays ==
    ASSUME Inv, [Next]_vars, NEW d \in Calls, NEW p, Earned(d, p)
    PROVE  of'[d] = of[d] /\ Earned(d, p)'
<1>1. PICK k \in DOMAIN stack : stack[k] = "promptcache" /\ (at[d] > k \/ at[d] = Returned)
  BY DEF Earned
<1>2. /\ stack' = stack /\ extractor' = extractor
      /\ of'[d] = of[d] /\ asked'[d] = asked[d]
      /\ at'[d] > k \/ at'[d] = Returned
      /\ stack[1] = "promptcache" \/ prompt'[d] = prompt[d]
  BY <1>1, PastCacheStep
<1>3. p = Prefix(d, CachedPrompt(d)) /\ Tokens(p) >= MinPrefix
  BY DEF Earned
<1>4. (p = Prefix(d, CachedPrompt(d)))'
  BY <1>2, <1>3 DEF Prefix, CachedPrompt
<1>. QED  BY <1>1, <1>2, <1>3, <1>4 DEF Earned

\* The annotation that promptcache makes.
LEMMA AnnotationIsEarned ==
    ASSUME Inv, NEW c \in Calls, PromptCache(c), LongEnough(Prefix(c, prompt[c]))
    PROVE  \A p : p = Prefix(c, prompt[c]) => Earned(c, p)'
<1>. USE DEF Inv, TypeOK
<1>1. /\ at[c] \in DOMAIN stack /\ stack[at[c]] = "promptcache"
      /\ at' = [at EXCEPT ![c] = at[c] + 1]
      /\ UNCHANGED <<configVars, of, asked, prompt>>
  BY DEF PromptCache, Enters, Descend
<1>2. at[c] \in Int /\ at'[c] > at[c]
  BY <1>1
<1>3. CASE stack[1] = "promptcache"
  <2>1. at[c] = 1
    <3>1. stack \in Stacks /\ 1 \in DOMAIN stack
      <4>1. Len(stack) \in {1, 2} /\ DOMAIN stack = 1 .. Len(stack)
        BY StackShape
      <4>. QED  BY <4>1
    <3>. QED  BY <1>1, <1>3, <3>1, StackShape
  <2>2. prompt[c] = asked[c]
    BY <2>1 DEF ProgressInv
  <2>3. Prefix(c, CachedPrompt(c))' = Prefix(c, prompt[c])
    BY <1>1, <1>3, <2>2 DEF CachedPrompt, Prefix, configVars
  <2>. QED  BY <1>1, <1>2, <2>3 DEF Earned, LongEnough, configVars
<1>4. CASE stack[1] # "promptcache"
  <2>1. Prefix(c, CachedPrompt(c))' = Prefix(c, prompt[c])
    BY <1>1, <1>4 DEF CachedPrompt, Prefix, configVars
  <2>. QED  BY <1>1, <1>2, <2>1 DEF Earned, LongEnough, configVars
<1>. QED  BY <1>3, <1>4

\* c passes promptcache, which annotates its request.
Annotates(c) == PromptCache(c) /\ LongEnough(Prefix(c, prompt[c]))

\* A Request's map changes only by an annotation, and so does the map of a copy,
\* unless the copy is made anew.
LEMMA MarksChange ==
    ASSUME Inv, [Next]_vars
    PROVE  /\ \A r \in Requests :
                \/ metadata'[r] = metadata[r]
                \/ \E c \in Calls : /\ Annotates(c) /\ of[c] = r
                                    /\ metadata'[r] = Prefix(c, prompt[c])
           /\ \A c \in Calls :
                \/ copied'[c] = copied[c] /\ of'[c] = of[c]
                \/ copied'[c] \in {Nil, Shared}
                \/ Annotates(c) /\ of'[c] = of[c] /\ copied'[c] = Prefix(c, prompt[c])
<1>. USE DEF Inv, TypeOK
<1> DEFINE Maps1 == \A r \in Requests :
                \/ metadata'[r] = metadata[r]
                \/ \E c \in Calls : /\ Annotates(c) /\ of[c] = r
                                    /\ metadata'[r] = Prefix(c, prompt[c])
           Maps2 == \A c \in Calls :
                \/ copied'[c] = copied[c] /\ of'[c] = of[c]
                \/ copied'[c] \in {Nil, Shared}
                \/ Annotates(c) /\ of'[c] = of[c] /\ copied'[c] = Prefix(c, prompt[c])
<1>1. ASSUME NEW c \in Calls, NEW r \in Requests, NEW p \in Prompts, Call(c, r, p)
      PROVE  Maps1 /\ Maps2
  BY <1>1 DEF Call
<1>2. ASSUME NEW c \in Calls, PromptCache(c)
      PROVE  Maps1 /\ Maps2
  <2>1. of' = of
    BY <1>2 DEF PromptCache
  <2>2. CASE LongEnough(Prefix(c, prompt[c]))
    <3>1. Annotates(c) /\ Annotate(c, Prefix(c, prompt[c]))
      BY <1>2, <2>2 DEF PromptCache, Annotates
    <3>2. Maps1
      BY <3>1 DEF Annotate
    <3>3. Maps2
      BY <2>1, <3>1 DEF Annotate
    <3>. QED  BY <3>2, <3>3
  <2>3. CASE ~LongEnough(Prefix(c, prompt[c]))
    BY <1>2, <2>1, <2>3 DEF PromptCache
  <2>. QED  BY <2>2, <2>3
<1>3. ASSUME NEW c \in Calls, Distill(c)
      PROVE  Maps1 /\ Maps2
  <2>1. metadata' = metadata /\ of' = of
    BY <1>3 DEF Distill
  <2>2. copied' = copied \/ copied' = [copied EXCEPT ![c] = CopyOfMetadata(c)]
    BY <1>3 DEF Distill, Replace
  <2>3. CopyOfMetadata(c) \in {Nil, copied[c]}
    BY DEF CopyOfMetadata
  <2>4. Maps2
    BY <2>1, <2>2, <2>3
  <2>. QED  BY <2>1, <2>4
<1>4. ASSUME UNCHANGED <<metadata, copied, of>>
      PROVE  Maps1 /\ Maps2
  BY <1>4
<1>5. ASSUME NEW c \in Calls, (\E n \in CacheReads : Answer(c, n)) \/ Fail(c)
      PROVE  Maps1 /\ Maps2
  BY <1>4, <1>5 DEF Answer, Fail, requestVars
<1>6. ASSUME NEW e \in Distillates, Register(e[1], e[2])
      PROVE  Maps1 /\ Maps2
  BY <1>4, <1>6 DEF Register, requestVars
<1>7. CASE TimePasses \/ UNCHANGED vars
  BY <1>4, <1>7 DEF TimePasses, vars, requestVars
<1>. QED  BY <1>1, <1>2, <1>3, <1>5, <1>6, <1>7 DEF Next, Application, Complete, Finished

LEMMA NextKeepsEarned ==
    ASSUME Inv, EarnedInv, [Next]_vars
    PROVE  EarnedInv'
<1>1. ASSUME NEW r, NEW p, \E d \in Calls : of[d] = r /\ Earned(d, p)
      PROVE  \E d \in Calls : of'[d] = r /\ Earned(d, p)'
  <2>1. PICK d \in Calls : of[d] = r /\ Earned(d, p)
    BY <1>1
  <2>2. of'[d] = of[d] /\ Earned(d, p)'
    BY <2>1, EarnedStays
  <2>. QED  BY <2>1, <2>2
<1>2. ASSUME NEW c \in Calls, NEW p, Annotates(c), p = Prefix(c, prompt[c])
      PROVE  of'[c] = of[c] /\ Earned(c, p)'
  BY <1>2, AnnotationIsEarned DEF Annotates, PromptCache
<1>3. ASSUME NEW r \in Requests, NEW p, p = metadata'[r], p \notin {Nil, Plain}
      PROVE  \E d \in Calls : of'[d] = r /\ Earned(d, p)'
  <2>1. CASE p = metadata[r]
    <3>1. metadata[r] \notin {Nil, Plain}
      BY <1>3, <2>1
    <3>2. \E d \in Calls : of[d] = r /\ Earned(d, metadata[r])
      BY <3>1 DEF EarnedInv
    <3>3. \E d \in Calls : of[d] = r /\ Earned(d, p)
      BY <3>2, <2>1
    <3>. QED  BY <3>3, <1>1
  <2>2. ASSUME NEW c \in Calls, Annotates(c), of[c] = r, p = Prefix(c, prompt[c])
        PROVE  of'[c] = r /\ Earned(c, p)'
    BY <1>2, <2>2
  <2>. QED  BY <1>3, <2>1, <2>2, MarksChange
<1>4. ASSUME NEW c \in Calls, NEW p, p = copied'[c], p \notin {Nil, Plain, Shared}
      PROVE  \E d \in Calls : of'[d] = of'[c] /\ Earned(d, p)'
  <2>1. CASE p = copied[c] /\ of'[c] = of[c]
    <3>1. copied[c] \notin {Nil, Plain, Shared}
      BY <1>4, <2>1
    <3>2. \E d \in Calls : of[d] = of[c] /\ Earned(d, copied[c])
      BY <3>1 DEF EarnedInv
    <3>3. \E d \in Calls : of[d] = of[c] /\ Earned(d, p)
      BY <3>2, <2>1
    <3>. QED  BY <3>3, <2>1, <1>1
  <2>2. CASE Annotates(c) /\ p = Prefix(c, prompt[c])
    BY <1>2, <2>2
  <2>. QED  BY <1>4, <2>1, <2>2, MarksChange
<1>5. \A r \in Requests : (metadata[r] \notin {Nil, Plain} =>
          \E d \in Calls : of[d] = r /\ Earned(d, metadata[r]))'
  BY <1>3
<1>6. \A c \in Calls : (copied[c] \notin {Nil, Plain, Shared} =>
          \E d \in Calls : of[d] = of[c] /\ Earned(d, copied[c]))'
  BY <1>4
<1>. QED  BY <1>5, <1>6 DEF EarnedInv

\* An annotation is the prefix of a call, long enough, that was made with the same
\* Request: that a short one may bear it is due to the reuse of Requests alone.
THEOREM MarksAreEarned == Spec => []MarkIsEarned
<1>1. Init => EarnedInv
  BY DEF Init, EarnedInv
<1>2. Inv /\ EarnedInv /\ [Next]_vars => EarnedInv'
  BY NextKeepsEarned
<1>3. Inv /\ EarnedInv => MarkIsEarned
  <2>1. SUFFICES ASSUME Inv, EarnedInv, NEW c \in Calls, at[c] # 0,
                        Metadata(c) \notin {Nil, Plain}
                 PROVE  \E d \in Calls : of[d] = of[c] /\ Earned(d, Metadata(c))
    BY DEF MarkIsEarned
  <2>2. CASE copied[c] = Shared
    <3>1. Metadata(c) = metadata[of[c]] /\ of[c] \in Requests
      BY <2>1, <2>2 DEF Metadata, Inv, TypeOK
    <3>. QED  BY <2>1, <3>1 DEF EarnedInv
  <2>3. CASE copied[c] # Shared
    <3>1. Metadata(c) = copied[c]
      BY <2>3 DEF Metadata
    <3>. QED  BY <2>1, <2>3, <3>1 DEF EarnedInv
  <2>. QED  BY <2>2, <2>3
<1>. QED  BY Invariance, <1>1, <1>2, <1>3, PTL DEF Spec

=============================================================================
