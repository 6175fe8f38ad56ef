----------------------------- MODULE DedupProofs -----------------------------
(***************************************************************************)
(* Proofs about Dedup, for any number of concurrent calls, any layers on   *)
(* the one store with any prefixes and TTLs, and any requests.             *)
(***************************************************************************)
EXTENDS Dedup, TLAPS

-----------------------------------------------------------------------------
\* The inductive invariant.

\* What a call's place in Complete says of what it fetched and answered.
CallInv ==
    \A c \in Calls :
        /\ pc[c] \in {"idle", "lookup", "fetching"} => fetched[c] = Nil
        /\ pc[c] = "storing" => fetched[c] \in CacheStatuses
        /\ pc[c] = "returned" =>
              \/ answer[c].status = "hit" /\ fetched[c] = Nil
              \/ answer[c].status = "miss" /\ fetched[c] \in CacheStatuses
              \/ answer[c].status = "err" /\ fetched[c] = "err"

\* A response that was Set had been fetched without error by a call that has
\* returned a miss since.
KnownInv == \A d \in known : pc[d] = "returned" /\ answer[d].status = "miss"

\* An entry is a response to its own key, and expires TTL after it was Set.
StoreInv ==
    \A k \in DOMAIN items : items[k].data # Nil =>
        /\ items[k].data \in known
        /\ Key(items[k].data) = k
        /\ items[k].expiresAt = IF TTL[layer[items[k].data]] > 0
                                  THEN storedAt[items[k].data] + TTL[layer[items[k].data]]
                                  ELSE Never

\* A response that was Set is in the store, or was replaced by a later one that
\* is in the store or has outlived its TTL.
ReplacedInv ==
    \A d \in known : \E e \in known :
        /\ Key(e) = Key(d)
        /\ storedAt[e] >= storedAt[d]
        /\ \/ Outlived(e)
           \/ Key(d) \in DOMAIN items /\ items[Key(d)].data = e

Inv ==
    /\ TypeOK
    /\ CallInv
    /\ KnownInv
    /\ StoreInv
    /\ ReplacedInv
    /\ HitProvenance

\* A call enters Complete.
LEMMA CallKeepsInv ==
    ASSUME Inv, NEW c \in Calls, NEW l \in Layers, NEW h \in Hashes, Call(c, l, h)
    PROVE  Inv'
<1>. USE DedupAssumption DEF Inv, Call
<1>1. TypeOK'
  BY DEF TypeOK, Fetches, Answers, Entries, Key, Keys, Remove, Restrict, Expired, ExpiresAt, Never
<1>2. CallInv'
  BY DEF TypeOK, CallInv
<1>3. KnownInv'
  BY DEF TypeOK, CallInv, KnownInv
<1>4. StoreInv'
  BY DEF TypeOK, CallInv, KnownInv, StoreInv, Key, Keys, Remove, Restrict, Expired, ExpiresAt, Never
<1>5. ReplacedInv'
  BY DEF TypeOK, CallInv, KnownInv, StoreInv, ReplacedInv, Key, Outlived, Remove, Restrict, Expired, ExpiresAt, Never
<1>6. HitProvenance'
  BY DEF TypeOK, CallInv, KnownInv, StoreInv, HitProvenance, IsHit, Key, Answers
<1>. QED  BY <1>1, <1>2, <1>3, <1>4, <1>5, <1>6

\* A hit is an entry of the store, which was fetched under the same key.
LEMMA HitKeepsInv ==
    ASSUME Inv, NEW c \in Calls, Hit(c)
    PROVE  Inv'
<1>. USE DedupAssumption DEF Inv, Hit
<1>1. TypeOK'
  BY SMTT(60) DEF TypeOK, Fetches, Answers, Entries, Key, Keys, Remove, Restrict, Expired, ExpiresAt, Never
<1>2. CallInv'
  BY DEF TypeOK, CallInv
<1>3. KnownInv'
  BY DEF TypeOK, CallInv, KnownInv
<1>4. StoreInv'
  BY DEF TypeOK, CallInv, KnownInv, StoreInv, Key, Keys, Remove, Restrict, Expired, ExpiresAt, Never
<1>5. ReplacedInv'
  <2>1. \A d \in Calls : Key(d)' = Key(d) /\ (Outlived(d)' <=> Outlived(d))
    BY DEF Key, Outlived
  <2>2. UNCHANGED <<items, known, storedAt>>
    OBVIOUS
  <2>. QED  BY <2>1, <2>2 DEF TypeOK, ReplacedInv
<1>6. HitProvenance'
  BY DEF TypeOK, CallInv, KnownInv, StoreInv, HitProvenance, IsHit, Key, Answers
<1>. QED  BY <1>1, <1>2, <1>3, <1>4, <1>5, <1>6

\* A miss removes at most an entry that has outlived its TTL.
LEMMA MissKeepsInv ==
    ASSUME Inv, NEW c \in Calls, Miss(c)
    PROVE  Inv'
<1>. USE DedupAssumption DEF Inv, Miss
<1>1. TypeOK'
  BY DEF TypeOK, Fetches, Answers, Entries, Key, Keys, Remove, Restrict, Expired, ExpiresAt, Never
<1>2. CallInv'
  BY DEF TypeOK, CallInv
<1>3. KnownInv'
  BY DEF TypeOK, CallInv, KnownInv
<1>4. StoreInv'
  BY DEF TypeOK, CallInv, KnownInv, StoreInv, Key, Keys, Remove, Restrict, Expired, ExpiresAt, Never
<1>5. ReplacedInv'
  <2>1. \A d \in Calls : Key(d)' = Key(d) /\ (Outlived(d)' <=> Outlived(d))
    BY DEF Key, Outlived
  <2>2. SUFFICES ASSUME NEW d \in known
                 PROVE  \E e \in known : /\ Key(e) = Key(d)
                                         /\ storedAt[e] >= storedAt[d]
                                         /\ \/ Outlived(e)
                                            \/ Key(d) \in DOMAIN items' /\ items'[Key(d)].data = e
    BY <2>1 DEF TypeOK, ReplacedInv
  <2>3. PICK e \in known : /\ Key(e) = Key(d)
                           /\ storedAt[e] >= storedAt[d]
                           /\ \/ Outlived(e)
                              \/ Key(d) \in DOMAIN items /\ items[Key(d)].data = e
    BY DEF ReplacedInv
  <2>4. CASE Key(d) \in DOMAIN items /\ items[Key(d)].data = e
    <3>1. CASE Expired(items[Key(d)])
      <4>1. items[Key(d)].data # Nil
        BY <2>4 DEF TypeOK
      <4>2. Outlived(e)
        BY <2>4, <3>1, <4>1 DEF TypeOK, StoreInv, Outlived, Expired, Never
      <4>. QED  BY <2>3, <4>2
    <3>2. CASE ~Expired(items[Key(d)])
      <4>1. Key(d) \in DOMAIN items' /\ items'[Key(d)] = items[Key(d)]
        BY <2>4, <3>2 DEF Remove, Restrict
      <4>. QED  BY <2>3, <2>4, <4>1
    <3>. QED  BY <3>1, <3>2
  <2>. QED  BY <2>3, <2>4
<1>6. HitProvenance'
  BY DEF TypeOK, CallInv, KnownInv, StoreInv, HitProvenance, IsHit, Key, Answers
<1>. QED  BY <1>1, <1>2, <1>3, <1>4, <1>5, <1>6

\* The next provider fails.
LEMMA FetchFailsKeepsInv ==
    ASSUME Inv, NEW c \in Calls, FetchFails(c)
    PROVE  Inv'
<1>. USE DedupAssumption DEF Inv, FetchFails
<1>1. TypeOK'
  BY DEF TypeOK, Fetches, Answers, Entries, Key, Keys, Remove, Restrict, Expired, ExpiresAt, Never
<1>2. CallInv'
  BY DEF TypeOK, CallInv
<1>3. KnownInv'
  BY DEF TypeOK, CallInv, KnownInv
<1>4. StoreInv'
  BY DEF TypeOK, CallInv, KnownInv, StoreInv, Key, Keys, Remove, Restrict, Expired, ExpiresAt, Never
<1>5. ReplacedInv'
  BY DEF TypeOK, CallInv, KnownInv, StoreInv, ReplacedInv, Key, Outlived, Remove, Restrict, Expired, ExpiresAt, Never
<1>6. HitProvenance'
  BY DEF TypeOK, CallInv, KnownInv, StoreInv, HitProvenance, IsHit, Key, Answers
<1>. QED  BY <1>1, <1>2, <1>3, <1>4, <1>5, <1>6

\* The next provider answers.
LEMMA FetchReturnsKeepsInv ==
    ASSUME Inv, NEW c \in Calls, NEW s \in CacheStatuses, FetchReturns(c, s)
    PROVE  Inv'
<1>. USE DedupAssumption DEF Inv, FetchReturns
<1>1. TypeOK'
  BY DEF TypeOK, Fetches, Answers, Entries, Key, Keys, Remove, Restrict, Expired, ExpiresAt, Never
<1>2. CallInv'
  BY DEF TypeOK, CallInv
<1>3. KnownInv'
  BY DEF TypeOK, CallInv, KnownInv
<1>4. StoreInv'
  BY DEF TypeOK, CallInv, KnownInv, StoreInv, Key, Keys, Remove, Restrict, Expired, ExpiresAt, Never
<1>5. ReplacedInv'
  BY DEF TypeOK, CallInv, KnownInv, StoreInv, ReplacedInv, Key, Outlived, Remove, Restrict, Expired, ExpiresAt, Never
<1>6. HitProvenance'
  BY DEF TypeOK, CallInv, KnownInv, StoreInv, HitProvenance, IsHit, Key, Answers
<1>. QED  BY <1>1, <1>2, <1>3, <1>4, <1>5, <1>6

\* A Set replaces what is stored under its own key by something later.
LEMMA StoreKeepsInv ==
    ASSUME Inv, NEW c \in Calls, Store(c)
    PROVE  Inv'
<1>. USE DedupAssumption DEF Inv, Store, ReturnMiss
<1>1. TypeOK'
  BY DEF TypeOK, Fetches, Answers, Entries, Key, Keys, Remove, Restrict, Expired, ExpiresAt, Never
<1>2. CallInv'
  BY DEF TypeOK, CallInv
<1>3. KnownInv'
  BY DEF TypeOK, CallInv, KnownInv
<1>4. StoreInv'
  BY ZenonT(60) DEF TypeOK, CallInv, KnownInv, StoreInv, Key, Keys, Remove, Restrict, Expired, ExpiresAt, Never
<1>5. ReplacedInv'
  <2>1. c \notin known
    BY DEF KnownInv
  <2>2. \A d \in Calls : Key(d)' = Key(d)
    BY DEF Key
  <2>3. \A d \in known : storedAt'[d] = storedAt[d] /\ (Outlived(d)' <=> Outlived(d))
    BY <2>1 DEF TypeOK, Outlived
  <2>4. /\ storedAt'[c] = now
        /\ Key(c) \in DOMAIN items' /\ items'[Key(c)].data = c
    BY DEF TypeOK
  <2>5. ASSUME NEW d \in known'
        PROVE  \E e \in known' : /\ Key(e) = Key(d)
                                 /\ storedAt'[e] >= storedAt'[d]
                                 /\ \/ Outlived(e)'
                                    \/ Key(d) \in DOMAIN items' /\ items'[Key(d)].data = e
    <3>1. CASE Key(d) = Key(c)
      <4>1. storedAt'[d] \in Int /\ now >= storedAt'[d]
        BY <2>3, <2>4 DEF TypeOK
      <4>. QED  BY <2>4, <3>1, <4>1
    <3>2. CASE Key(d) # Key(c)
      <4>1. d \in known
        BY <3>2
      <4>2. PICK e \in known : /\ Key(e) = Key(d)
                               /\ storedAt[e] >= storedAt[d]
                               /\ \/ Outlived(e)
                                  \/ Key(d) \in DOMAIN items /\ items[Key(d)].data = e
        BY <4>1 DEF ReplacedInv
      <4>3. Key(d) \in DOMAIN items =>
               Key(d) \in DOMAIN items' /\ items'[Key(d)] = items[Key(d)]
        BY <3>2
      <4>. QED  BY <2>3, <4>1, <4>2, <4>3
    <3>. QED  BY <3>1, <3>2
  <2>6. \A d \in known' : d \in Calls
    BY DEF TypeOK
  <2>. HIDE DEF Inv, Store, ReturnMiss
  <2>. QED  BY <2>2, <2>5, <2>6 DEF ReplacedInv
<1>6. HitProvenance'
  BY DEF TypeOK, CallInv, KnownInv, StoreInv, HitProvenance, IsHit, Key, Answers
<1>. QED  BY <1>1, <1>2, <1>3, <1>4, <1>5, <1>6

\* The response cannot be encoded and is not stored.
LEMMA StoreSkippedKeepsInv ==
    ASSUME Inv, NEW c \in Calls, StoreSkipped(c)
    PROVE  Inv'
<1>. USE DedupAssumption DEF Inv, StoreSkipped, ReturnMiss
<1>1. TypeOK'
  BY DEF TypeOK, Fetches, Answers, Entries, Key, Keys, Remove, Restrict, Expired, ExpiresAt, Never
<1>2. CallInv'
  BY DEF TypeOK, CallInv
<1>3. KnownInv'
  BY DEF TypeOK, CallInv, KnownInv
<1>4. StoreInv'
  BY DEF TypeOK, CallInv, KnownInv, StoreInv, Key, Keys, Remove, Restrict, Expired, ExpiresAt, Never
<1>5. ReplacedInv'
  BY DEF TypeOK, CallInv, KnownInv, StoreInv, ReplacedInv, Key, Outlived, Remove, Restrict, Expired, ExpiresAt, Never
<1>6. HitProvenance'
  BY DEF TypeOK, CallInv, KnownInv, StoreInv, HitProvenance, IsHit, Key, Answers
<1>. QED  BY <1>1, <1>2, <1>3, <1>4, <1>5, <1>6

\* The application deletes a key.
LEMMA DeleteKeepsInv ==
    ASSUME Inv, NEW k \in Keys, Delete(k)
    PROVE  Inv'
<1>. USE DedupAssumption DEF Inv, Delete, Forget, callVars
<1>1. TypeOK'
  BY DEF TypeOK, Fetches, Answers, Entries, Key, Keys, Remove, Restrict, Expired, ExpiresAt, Never
<1>2. CallInv'
  BY DEF TypeOK, CallInv
<1>3. KnownInv'
  BY DEF TypeOK, CallInv, KnownInv
<1>4. StoreInv'
  BY DEF TypeOK, CallInv, KnownInv, StoreInv, Key, Keys, Remove, Restrict, Expired, ExpiresAt, Never
<1>5. ReplacedInv'
  BY DEF TypeOK, CallInv, KnownInv, StoreInv, ReplacedInv, Key, Outlived, Remove, Restrict, Expired, ExpiresAt, Never
<1>6. HitProvenance'
  BY DEF TypeOK, CallInv, KnownInv, StoreInv, HitProvenance, IsHit, Key, Answers
<1>. QED  BY <1>1, <1>2, <1>3, <1>4, <1>5, <1>6

\* The application overwrites a key.
LEMMA SetOtherKeepsInv ==
    ASSUME Inv, NEW k \in Keys, SetOther(k)
    PROVE  Inv'
<1>. USE DedupAssumption DEF Inv, SetOther, Forget, callVars
<1>1. TypeOK'
  BY DEF TypeOK, Fetches, Answers, Entries, Key, Keys, Remove, Restrict, Expired, ExpiresAt, Never
<1>2. CallInv'
  BY DEF TypeOK, CallInv
<1>3. KnownInv'
  BY DEF TypeOK, CallInv, KnownInv
<1>4. StoreInv'
  BY DEF TypeOK, CallInv, KnownInv, StoreInv, Key, Keys, Remove, Restrict, Expired, ExpiresAt, Never
<1>5. ReplacedInv'
  BY DEF TypeOK, CallInv, KnownInv, StoreInv, ReplacedInv, Key, Outlived, Remove, Restrict, Expired, ExpiresAt, Never
<1>6. HitProvenance'
  BY DEF TypeOK, CallInv, KnownInv, StoreInv, HitProvenance, IsHit, Key, Answers
<1>. QED  BY <1>1, <1>2, <1>3, <1>4, <1>5, <1>6

\* What has outlived its TTL stays so.
LEMMA TimePassesKeepsInv ==
    ASSUME Inv, TimePasses
    PROVE  Inv'
<1>. USE DedupAssumption DEF Inv, TimePasses, callVars
<1>1. TypeOK'
  BY DEF TypeOK, Fetches, Answers, Entries, Key, Keys, Remove, Restrict, Expired, ExpiresAt, Never
<1>2. CallInv'
  BY DEF TypeOK, CallInv
<1>3. KnownInv'
  BY DEF TypeOK, CallInv, KnownInv
<1>4. StoreInv'
  BY DEF TypeOK, CallInv, KnownInv, StoreInv, Key, Keys, Remove, Restrict, Expired, ExpiresAt, Never
<1>5. ReplacedInv'
  BY DEF TypeOK, CallInv, KnownInv, StoreInv, ReplacedInv, Key, Outlived, Remove, Restrict, Expired, ExpiresAt, Never
<1>6. HitProvenance'
  BY DEF TypeOK, CallInv, KnownInv, StoreInv, HitProvenance, IsHit, Key, Answers
<1>. QED  BY <1>1, <1>2, <1>3, <1>4, <1>5, <1>6

\* The middleware starts in the invariant.
LEMMA InitInv == Init => Inv
BY DedupAssumption DEF Init, Inv, TypeOK, CallInv, KnownInv, StoreInv, ReplacedInv, HitProvenance,
   IsHit, Fetches

\* Every step of the specification keeps the invariant.
LEMMA NextKeepsInv ==
    ASSUME Inv, [Next]_vars
    PROVE  Inv'
<1>1. ASSUME NEW c \in Calls, Caller(c) PROVE Inv'
  BY <1>1, CallKeepsInv, HitKeepsInv, MissKeepsInv, FetchFailsKeepsInv, FetchReturnsKeepsInv,
     StoreKeepsInv, StoreSkippedKeepsInv DEF Caller
<1>2. ASSUME NEW k \in Keys, Delete(k) \/ SetOther(k) PROVE Inv'
  BY <1>2, DeleteKeepsInv, SetOtherKeepsInv
<1>3. CASE TimePasses
  BY <1>3, TimePassesKeepsInv
<1>4. ASSUME Finished \/ UNCHANGED vars PROVE Inv'
  <2>. UNCHANGED <<pc, layer, hash, fetched, answer, items, now, storedAt, known>>
    BY <1>4 DEF Finished, vars, callVars
  <2>1. TypeOK' /\ CallInv' /\ KnownInv'
    BY DEF Inv, TypeOK, CallInv, KnownInv
  <2>2. StoreInv' /\ ReplacedInv'
    BY DEF Inv, StoreInv, ReplacedInv, Key, Outlived
  <2>3. HitProvenance'
    BY DEF Inv, HitProvenance, IsHit
  <2>. QED  BY <2>1, <2>2, <2>3 DEF Inv
<1>. QED  BY <1>1, <1>2, <1>3, <1>4 DEF Next

\* Inv holds throughout every behaviour of the dedup middleware.
THEOREM Invariance == Spec => []Inv
<1>1. Inv /\ [Next]_vars => Inv'
  BY NextKeepsInv
<1>. QED  BY InitInv, <1>1, PTL DEF Spec

-----------------------------------------------------------------------------
\* The properties of Dedup.

\* Every variable holds what the code can put in it.
THEOREM TypeCorrect == Spec => []TypeOK
<1>1. Inv => TypeOK
  BY DEF Inv
<1>. QED  BY Invariance, <1>1, PTL

\* A hit was fetched, without error, under the same prefix and the same hash.
THEOREM HitsHaveProvenance == Spec => []HitProvenance
<1>1. Inv => HitProvenance
  BY DEF Inv
<1>. QED  BY Invariance, <1>1, PTL

\* Only Hit makes a call one that was served from the store.
LEMMA OnlyHitHits ==
    ASSUME Inv, [Next]_vars, NEW c \in Calls, IsHit(c)', ~IsHit(c)
    PROVE  Hit(c)
<1>1. ASSUME NEW d \in Calls, Caller(d) PROVE Hit(c)
  BY <1>1 DEF Caller, Call, Hit, Miss, FetchFails, FetchReturns, Store, StoreSkipped, ReturnMiss,
     IsHit, Inv, TypeOK
<1>. QED
  BY <1>1 DEF Next, Delete, SetOther, TimePasses, Finished, vars, callVars, IsHit

\* No response is served from the store after its TTL.
THEOREM HitsAreFresh == Spec => FreshHit
<1>1. ASSUME Inv, [Next]_vars, NEW c \in Calls, IsHit(c)', ~IsHit(c)
      PROVE  ~Outlived(answer'[c].data)
  <2>1. Hit(c)
    BY <1>1, OnlyHitHits
  <2>. DEFINE e == items[Key(c)]
  <2>2. Key(c) \in DOMAIN items /\ ~Expired(e) /\ e.data \in Calls /\ answer'[c].data = e.data
    BY <1>1, <2>1 DEF Hit, Inv, TypeOK
  <2>3. /\ e.data \in known
        /\ e.expiresAt = IF TTL[layer[e.data]] > 0 THEN storedAt[e.data] + TTL[layer[e.data]]
                                                   ELSE Never
    BY <1>1, <2>2, DedupAssumption DEF Inv, StoreInv
  <2>4. /\ layer[e.data] \in Layers /\ storedAt[e.data] \in Nat /\ now \in Nat
    BY <1>1, <2>3, DedupAssumption DEF Inv, TypeOK, KnownInv
  <2>. HIDE DEF e
  <2>5. TTL[layer[e.data]] \in Int
    BY <2>4, DedupAssumption
  <2>. QED  BY <2>2, <2>3, <2>4, <2>5 DEF Expired, Outlived, Never
<1>2. Inv /\ [Next]_vars =>
        [\A c \in Calls : IsHit(c)' /\ ~IsHit(c) => ~Outlived(answer'[c].data)]_vars
  BY <1>1
<1>. QED  BY Invariance, <1>2, PTL DEF Spec, FreshHit

\* A request is sent downstream only if every earlier response to it is too old
\* or was replaced by one that is.
THEOREM NoCallIsRedundant == Spec => NoRedundantCall
<1>1. ASSUME Inv, [Next]_vars, NEW c \in Calls, pc[c] = "lookup", pc'[c] = "fetching",
             NEW d \in known, Key(d) = Key(c)
      PROVE  \E e \in known : Key(e) = Key(c) /\ Outlived(e) /\ storedAt[e] >= storedAt[d]
  <2>1. Miss(c)
    <3>1. ASSUME NEW x \in Calls, Caller(x) PROVE Miss(c)
      BY <1>1, <3>1 DEF Caller, Call, Hit, Miss, FetchFails, FetchReturns, Store, StoreSkipped,
         ReturnMiss, Inv, TypeOK
    <3>. QED
      BY <1>1, <3>1 DEF Next, Delete, SetOther, TimePasses, Finished, vars, callVars
  <2>2. PICK e \in known : /\ Key(e) = Key(d)
                           /\ storedAt[e] >= storedAt[d]
                           /\ \/ Outlived(e)
                              \/ Key(d) \in DOMAIN items /\ items[Key(d)].data = e
    BY <1>1 DEF Inv, ReplacedInv
  <2>3. ASSUME Key(d) \in DOMAIN items, items[Key(d)].data = e PROVE Outlived(e)
    <3>1. e # Nil
      BY <1>1, DedupAssumption DEF Inv, TypeOK
    <3>2. Expired(items[Key(d)])
      BY <1>1, <2>1, <2>3, <3>1 DEF Miss
    <3>. QED
      BY <1>1, <2>3, <3>1, <3>2 DEF Inv, StoreInv, Expired, Outlived, Never
  <2>. QED  BY <1>1, <2>2, <2>3
<1>2. Inv /\ [Next]_vars =>
        [\A c \in Calls : pc[c] = "lookup" /\ pc'[c] = "fetching" =>
           \A d \in known : Key(d) = Key(c) =>
              \E e \in known : /\ Key(e) = Key(c)
                               /\ Outlived(e)
                               /\ storedAt[e] >= storedAt[d]]_vars
  BY <1>1
<1>. QED  BY Invariance, <1>2, PTL DEF Spec, NoRedundantCall

-----------------------------------------------------------------------------
\* Dedup implements Completion.

\* A caller's step is a step of the abstract Complete.
LEMMA CallerRefines ==
    ASSUME Inv, NEW c \in Calls, Caller(c)
    PROVE  Abs!Next
<1>. USE DEF Inv, IsHit
<1>1. ASSUME NEW l \in Layers, NEW h \in Hashes, Call(c, l, h) PROVE Abs!Invoke(c)
  <2>. USE <1>1 DEF Call
  <2>1. AbsPhase[c] = "idle" /\ AbsPhase' = [AbsPhase EXCEPT ![c] = "open"]
    BY DEF TypeOK, AbsPhase
  <2>2. AbsBilled' = AbsBilled /\ AbsOutcome' = AbsOutcome
    BY DEF TypeOK, AbsBilled, AbsOutcome
  <2>. QED  BY <2>1, <2>2 DEF Abs!Invoke
<1>2. ASSUME Hit(c) PROVE Abs!Reuse(c)
  <2>. USE <1>2 DEF Hit
  <2>1. AbsPhase[c] = "open" /\ AbsPhase' = [AbsPhase EXCEPT ![c] = "returned"]
    BY DEF TypeOK, AbsPhase
  <2>2. c \notin AbsBilled /\ AbsBilled' = AbsBilled
    BY DEF TypeOK, AbsBilled
  <2>3. AbsOutcome' = [AbsOutcome EXCEPT ![c] = "ok"]
    BY DEF TypeOK, AbsOutcome
  <2>4. PICK d \in known : pc[d] = "returned" /\ answer[d].status = "miss"
    BY DedupAssumption DEF TypeOK, StoreInv, KnownInv
  <2>5. d \in Calls /\ d \in AbsBilled /\ AbsOutcome[d] = "ok"
    BY <2>4, DedupAssumption DEF TypeOK, CallInv, AbsBilled, AbsOutcome
  <2>. QED  BY <2>1, <2>2, <2>3, <2>5 DEF Abs!Reuse
<1>3. ASSUME Miss(c) PROVE Abs!Bill(c)
  <2>. USE <1>3 DEF Miss
  <2>1. AbsPhase[c] = "open" /\ AbsPhase' = AbsPhase
    BY DEF TypeOK, AbsPhase
  <2>2. c \notin AbsBilled /\ AbsBilled' = AbsBilled \cup {c}
    BY DEF TypeOK, AbsBilled
  <2>3. AbsOutcome' = AbsOutcome
    BY DEF TypeOK, AbsOutcome
  <2>. QED  BY <2>1, <2>2, <2>3 DEF Abs!Bill
<1>4. ASSUME FetchFails(c) PROVE Abs!Respond(c, "err")
  <2>. USE <1>4 DEF FetchFails
  <2>1. AbsPhase[c] = "open" /\ AbsPhase' = [AbsPhase EXCEPT ![c] = "returned"]
    BY DEF TypeOK, AbsPhase
  <2>2. c \in AbsBilled /\ AbsBilled' = AbsBilled
    BY DEF TypeOK, AbsBilled
  <2>3. fetched[c] = Nil /\ Nil \notin CacheStatuses /\ Nil # "err" /\ "err" \notin CacheStatuses
    BY DedupAssumption DEF CallInv
  <2>4. AbsOutcome[c] = "none"
    BY <2>3 DEF AbsOutcome
  <2>5. ASSUME NEW d \in Calls
        PROVE  AbsOutcome'[d] = IF d = c THEN "err" ELSE AbsOutcome[d]
    BY <2>3 DEF TypeOK, AbsOutcome
  <2>6. AbsOutcome' = [AbsOutcome EXCEPT ![c] = "err"]
    BY <2>5 DEF AbsOutcome
  <2>. QED  BY <2>1, <2>2, <2>4, <2>6 DEF Abs!Respond
<1>5. ASSUME NEW s \in CacheStatuses, FetchReturns(c, s) PROVE Abs!Respond(c, "ok")
  <2>. USE <1>5 DEF FetchReturns
  <2>1. AbsPhase[c] = "open" /\ AbsPhase' = AbsPhase
    BY DEF TypeOK, AbsPhase
  <2>2. c \in AbsBilled /\ AbsBilled' = AbsBilled
    BY DEF TypeOK, AbsBilled
  <2>3. AbsOutcome[c] = "none" /\ AbsOutcome' = [AbsOutcome EXCEPT ![c] = "ok"]
    BY DedupAssumption, ZenonT(60) DEF TypeOK, CallInv, AbsOutcome
  <2>. QED  BY <2>1, <2>2, <2>3 DEF Abs!Respond
<1>6. ASSUME Store(c) \/ StoreSkipped(c) PROVE Abs!Return(c)
  <2>. USE <1>6 DEF Store, StoreSkipped, ReturnMiss
  <2>1. AbsPhase[c] = "open" /\ AbsPhase' = [AbsPhase EXCEPT ![c] = "returned"]
    BY DEF TypeOK, AbsPhase
  <2>2. AbsBilled' = AbsBilled
    BY DEF TypeOK, AbsBilled
  <2>3. AbsOutcome[c] # "none" /\ AbsOutcome' = AbsOutcome
    BY DedupAssumption DEF TypeOK, CallInv, AbsOutcome
  <2>. QED  BY <2>1, <2>2, <2>3 DEF Abs!Return
<1>. QED
  BY <1>1, <1>2, <1>3, <1>4, <1>5, <1>6 DEF Caller, Abs!Next

\* A provider wrapped by the dedup middleware keeps the promises of Complete.
THEOREM Refinement == Spec => ImplementsCompletion
<1>1. Init => Abs!Init
  <2>. SUFFICES ASSUME Init PROVE Abs!Init
    OBVIOUS
  <2>1. AbsPhase = [c \in Calls |-> "idle"]
    BY DEF Init, AbsPhase
  <2>2. AbsBilled = {}
    BY DEF Init, AbsBilled
  <2>3. AbsOutcome = [c \in Calls |-> "none"]
    BY DedupAssumption DEF Init, AbsOutcome, IsHit
  <2>. QED  BY <2>1, <2>2, <2>3 DEF Abs!Init
<1>2. Inv /\ [Next]_vars => [Abs!Next]_Abs!vars
  <2>. SUFFICES ASSUME Inv, [Next]_vars PROVE Abs!Next \/ UNCHANGED Abs!vars
    OBVIOUS
  <2>1. ASSUME NEW c \in Calls, Caller(c) PROVE Abs!Next
    BY <2>1, CallerRefines
  <2>2. ASSUME UNCHANGED callVars PROVE UNCHANGED Abs!vars
    BY <2>2 DEF callVars, Abs!vars, AbsPhase, AbsBilled, AbsOutcome, IsHit
  <2>3. (\E c \in Calls : Caller(c)) \/ UNCHANGED callVars
    BY DEF Next, Delete, SetOther, TimePasses, Finished, vars
  <2>. QED  BY <2>1, <2>2, <2>3
<1>. QED  BY Invariance, <1>1, <1>2, PTL DEF Spec, ImplementsCompletion, Abs!Spec

-----------------------------------------------------------------------------
(***************************************************************************)
(* What the abstract Complete promises is thereby true of the dedup middleware.*)
(***************************************************************************)

Promise == INSTANCE CompletionProofs WITH
    MayReuse <- TRUE, phase <- AbsPhase, billed <- AbsBilled, outcome <- AbsOutcome

LEMMA PromiseIsAbs ==
    /\ Abs!Init <=> Promise!Init
    /\ [Abs!Next]_(Abs!vars) <=> [Promise!Next]_(Promise!vars)
    /\ Abs!Honest <=> Promise!Honest
    /\ [Abs!Settling]_(Abs!vars) <=> [Promise!Settling]_(Promise!vars)
<1>1. Abs!Init <=> Promise!Init
  BY DEF Abs!Init, Promise!Init
<1>2. [Abs!Next]_(Abs!vars) <=> [Promise!Next]_(Promise!vars)
  BY DEF Abs!Next, Promise!Next, Abs!vars, Promise!vars, Abs!Invoke, Promise!Invoke,
         Abs!Bill, Promise!Bill, Abs!Respond, Promise!Respond, Abs!Exchange,
         Promise!Exchange, Abs!Return, Promise!Return, Abs!Reuse, Promise!Reuse
<1>3. Abs!Honest <=> Promise!Honest
  BY DEF Abs!Honest, Promise!Honest
<1>4. [Abs!Settling]_(Abs!vars) <=> [Promise!Settling]_(Promise!vars)
  BY DEF Abs!Settling, Promise!Settling, Abs!vars, Promise!vars
<1>. QED  BY <1>1, <1>2, <1>3, <1>4

\* Whoever is answered without having paid is answered with a success, and only
\* once a paid call of some caller succeeded (dedup.go:58-78).
THEOREM AnswersArePaidFor == Spec => []Abs!Honest
<1>1. Promise!Spec => []Promise!Honest
  BY Promise!AnswersArePaidFor
<1>. QED
  BY Refinement, <1>1, PromiseIsAbs, PTL DEF ImplementsCompletion, Abs!Spec, Promise!Spec

\* An answer is final, and no call is handed downstream after it (dedup.go:66-69).
THEOREM AnswersAreFinal == Spec => Abs!Settled
<1>1. Promise!Spec => Promise!Settled
  BY Promise!AnswersAreFinal
<1>. QED
  BY Refinement, <1>1, PromiseIsAbs, PTL
     DEF ImplementsCompletion, Abs!Spec, Promise!Spec, Abs!Settled, Promise!Settled
=============================================================================
