-------------------------------- MODULE Dedup --------------------------------
(***************************************************************************)
(* middleware/dedup: layers that share one MemoryStore, called by many     *)
(* goroutines at a time.  Get and Set each run under the store's mutex;    *)
(* nothing is held between the Get that misses and the Set that follows    *)
(* the call of the next provider, and that is where calls interleave.      *)
(*                                                                         *)
(* A call is one invocation of Complete.  A stored Response is named by    *)
(* the call that fetched it, and a Hash() is a value of Hashes.            *)
(***************************************************************************)
EXTENDS Integers, Functions

CONSTANTS Calls,      \* the invocations of Complete
          Layers,     \* the dedup middlewares built on the one store
          KeyPrefix,  \* KeyPrefix[l]: WithKeyPrefix of layer l
          TTL,        \* TTL[l]: WithTTL of layer l, in ticks; 0 or less never expires
          Hashes,     \* what Request.Hash() returns
          CacheStatuses,  \* the CacheStatus values of the next provider's Responses
          MaxTime,    \* bound: the clock stops there
          Nil

ASSUME DedupAssumption ==
    /\ KeyPrefix \in [Layers -> STRING]
    /\ TTL \in [Layers -> Int]
    /\ CacheStatuses \subseteq {"miss", "partial", "hit"}
    /\ MaxTime \in Nat
    /\ Nil \notin Calls \cup CacheStatuses \cup {"err"}

VARIABLES
    pc,        \* pc[c]: where call c is in Complete
    layer,     \* layer[c]: the layer c goes through
    hash,      \* hash[c]: the hash of its request
    fetched,   \* fetched[c]: what the next provider returned to c
    answer,    \* answer[c]: what Complete returned to c
    items,     \* the store: MemoryStore.items
    now,       \* time.Now()
    storedAt,  \* history: when c's response was Set
    known      \* history: the calls whose response was Set, and whose key was
               \* not written or deleted by the application since

callVars == <<pc, layer, hash, fetched, answer>>
vars == <<callVars, items, now, storedAt, known>>

\* A Response that next returned shows as the CacheStatus it carries.
Fetches == CacheStatuses \cup {"err"}

\* Plausible bug: the layer's prefix is left out of the key.
HashOnly(c) == <<"", hash[c]>>

Key(c) == <<KeyPrefix[layer[c]], hash[c]>>

Keys == {KeyPrefix[l] : l \in Layers} \X Hashes

Never == -1

\* Plausible bug: the entry of a layer without expiry expires at once.
ExpiryWithoutZero(ttl) == now + ttl

ExpiresAt(ttl) == IF ttl > 0 THEN now + ttl ELSE Never

\* Plausible bug: !Before for After.
ExpiredEarly(e) == e.expiresAt # Never /\ now >= e.expiresAt

\* Plausible bug: an entry is kept one tick longer.
ExpiredLate(e) == e.expiresAt # Never /\ now > e.expiresAt + 1

Expired(e) == e.expiresAt # Never /\ now > e.expiresAt

Remove(f, k) == Restrict(f, DOMAIN f \ {k})

-----------------------------------------------------------------------------
Call(c, l, h) ==
    /\ pc[c] = "idle"
    /\ pc' = [pc EXCEPT ![c] = "lookup"]
    /\ layer' = [layer EXCEPT ![c] = l]
    /\ hash' = [hash EXCEPT ![c] = h]
    /\ UNCHANGED <<fetched, answer, items, now, storedAt, known>>

\* store.Get finds a live entry that is a Response.
Hit(c) ==
    /\ pc[c] = "lookup"
    /\ Key(c) \in DOMAIN items
    /\ LET e == items[Key(c)]
       IN  /\ ~Expired(e)
           /\ e.data \in Calls
           /\ answer' = [answer EXCEPT ![c] = [status |-> "hit", data |-> e.data]]
    /\ pc' = [pc EXCEPT ![c] = "returned"]
    /\ UNCHANGED <<layer, hash, fetched, items, now, storedAt, known>>

\* store.Get finds nothing, or an expired entry, which it deletes, or bytes that
\* json.Unmarshal rejects: the request goes to the next provider.
Miss(c) ==
    /\ pc[c] = "lookup"
    /\ IF Key(c) \in DOMAIN items
         THEN IF Expired(items[Key(c)]) THEN items' = Remove(items, Key(c))
                                        ELSE items[Key(c)].data = Nil /\ UNCHANGED items
         ELSE UNCHANGED items
    /\ pc' = [pc EXCEPT ![c] = "fetching"]
    /\ UNCHANGED <<layer, hash, fetched, answer, now, storedAt, known>>

\* Plausible bug: the early return on an error is missing.
FetchFailsThrough(c) ==
    /\ pc[c] = "fetching"
    /\ fetched' = [fetched EXCEPT ![c] = "err"]
    /\ pc' = [pc EXCEPT ![c] = "storing"]
    /\ UNCHANGED <<layer, hash, answer, items, now, storedAt, known>>

FetchFails(c) ==
    /\ pc[c] = "fetching"
    /\ fetched' = [fetched EXCEPT ![c] = "err"]
    /\ answer' = [answer EXCEPT ![c] = [status |-> "err", data |-> Nil]]
    /\ pc' = [pc EXCEPT ![c] = "returned"]
    /\ UNCHANGED <<layer, hash, items, now, storedAt, known>>

FetchReturns(c, s) ==
    /\ pc[c] = "fetching"
    /\ fetched' = [fetched EXCEPT ![c] = s]
    /\ pc' = [pc EXCEPT ![c] = "storing"]
    /\ UNCHANGED <<layer, hash, answer, items, now, storedAt, known>>

ReturnMiss(c) ==
    /\ answer' = [answer EXCEPT ![c] = [status |-> "miss", data |-> c]]
    /\ pc' = [pc EXCEPT ![c] = "returned"]

\* store.Set of the response, whatever another call stored meanwhile.
Store(c) ==
    /\ pc[c] = "storing"
    /\ items' = [k \in DOMAIN items \cup {Key(c)} |->
                    IF k = Key(c) THEN [data |-> c, expiresAt |-> ExpiresAt(TTL[layer[c]])]
                                  ELSE items[k]]
    /\ storedAt' = [storedAt EXCEPT ![c] = now]
    /\ known' = known \cup {c}
    /\ ReturnMiss(c)
    /\ UNCHANGED <<layer, hash, fetched, now>>

\* json.Marshal fails (a NaN or infinite cost): nothing is stored.
StoreSkipped(c) ==
    /\ pc[c] = "storing"
    /\ ReturnMiss(c)
    /\ UNCHANGED <<layer, hash, fetched, items, now, storedAt, known>>

-----------------------------------------------------------------------------
\* The store is the application's: it may delete a key, and write one with
\* bytes that are not a Response.

Forget(k) == known' = {c \in known : Key(c) # k}

Delete(k) ==
    /\ k \in DOMAIN items
    /\ items' = Remove(items, k)
    /\ Forget(k)
    /\ UNCHANGED <<callVars, now, storedAt>>

SetOther(k) ==
    /\ k \in DOMAIN items
    /\ items' = [items EXCEPT ![k] = [data |-> Nil, expiresAt |-> Never]]
    /\ Forget(k)
    /\ UNCHANGED <<callVars, now, storedAt>>

TimePasses ==
    /\ now < MaxTime
    /\ now' = now + 1
    /\ UNCHANGED <<callVars, items, storedAt, known>>

-----------------------------------------------------------------------------
Init ==
    /\ pc = [c \in Calls |-> "idle"]
    /\ layer = [c \in Calls |-> Nil]
    /\ hash = [c \in Calls |-> Nil]
    /\ fetched = [c \in Calls |-> Nil]
    /\ answer = [c \in Calls |-> Nil]
    /\ items = [k \in {} |-> Nil]
    /\ now = 0
    /\ storedAt = [c \in Calls |-> Nil]
    /\ known = {}

Caller(c) ==
    \/ \E l \in Layers, h \in Hashes : Call(c, l, h)
    \/ Hit(c)
    \/ Miss(c)
    \/ FetchFails(c)
    \/ \E s \in CacheStatuses : FetchReturns(c, s)
    \/ Store(c)
    \/ StoreSkipped(c)

\* Every call of the instance has returned.
Finished ==
    /\ \A c \in Calls : pc[c] = "returned"
    /\ UNCHANGED vars

Next ==
    \/ \E c \in Calls : Caller(c)
    \/ \E k \in Keys : Delete(k) \/ SetOther(k)
    \/ TimePasses
    \/ Finished

Spec == Init /\ [][Next]_vars

-----------------------------------------------------------------------------
Answers == [status : {"miss", "hit", "err"}, data : Calls \cup {Nil}]

Entries == [data : Calls \cup {Nil}, expiresAt : Nat \cup {Never}]

\* Every variable holds what the code can put in it.
TypeOK ==
    /\ pc \in [Calls -> {"idle", "lookup", "fetching", "storing", "returned"}]
    /\ layer \in [Calls -> Layers \cup {Nil}]
    /\ hash \in [Calls -> Hashes \cup {Nil}]
    /\ \A c \in Calls : pc[c] # "idle" => layer[c] \in Layers /\ hash[c] \in Hashes
    /\ fetched \in [Calls -> Fetches \cup {Nil}]
    /\ answer \in [Calls -> Answers \cup {Nil}]
    /\ \A c \in Calls : pc[c] = "returned" => answer[c] \in Answers
    /\ DOMAIN items \subseteq Keys
    /\ items \in [DOMAIN items -> Entries]
    /\ now \in 0 .. MaxTime
    /\ storedAt \in [Calls -> Nat \cup {Nil}]
    /\ known \subseteq Calls
    /\ \A c \in known : storedAt[c] \in 0 .. now

IsHit(c) == pc[c] = "returned" /\ answer[c].status = "hit"

\* A response served from the store is one that the next provider returned, with
\* no error, to a call of a layer with the same prefix and of the same hash,
\* however calls of other layers and other requests interleave
\* (dedup.go:33-34, 53; dedup_test.go TestDedupWithKeyPrefix).
HitProvenance ==
    \A c \in Calls : IsHit(c) =>
        \E d \in Calls :
            /\ answer[c].data = d
            /\ d # c
            /\ fetched[d] \in CacheStatuses
            /\ hash[d] = hash[c]
            /\ KeyPrefix[layer[d]] = KeyPrefix[layer[c]]

\* c's response outlived the TTL of the layer that stored it.
Outlived(c) == TTL[layer[c]] > 0 /\ now > storedAt[c] + TTL[layer[c]]

\* The clock has not passed the TTL of a response when it is served, counted
\* from its own Set even if the key was Set, expired and deleted in between
\* (store.go:45-48, 57-61).
FreshHit ==
    [][\A c \in Calls : IsHit(c)' /\ ~IsHit(c) => ~Outlived(answer'[c].data)]_vars

\* A request goes to the next provider only when that cannot be avoided: each
\* response to the same key that was stored, and not replaced or deleted by the
\* application since, is too old or was replaced by one that is
\* (store.go:2 "avoiding redundant API calls").
NoRedundantCall ==
    [][\A c \in Calls : pc[c] = "lookup" /\ pc'[c] = "fetching" =>
          \A d \in known : Key(d) = Key(c) =>
              \E e \in known : /\ Key(e) = Key(c)
                               /\ Outlived(e)
                               /\ storedAt[e] >= storedAt[d]]_vars

-----------------------------------------------------------------------------
\* The refinement mapping.

AbsPhase == [c \in Calls |-> IF pc[c] \in {"idle", "returned"} THEN pc[c] ELSE "open"]

AbsBilled == {c \in Calls : \/ pc[c] \in {"fetching", "storing"}
                            \/ pc[c] = "returned" /\ answer[c].status # "hit"}

AbsOutcome == [c \in Calls |-> IF IsHit(c) \/ fetched[c] \in CacheStatuses THEN "ok"
                               ELSE IF fetched[c] = "err" THEN "err" ELSE "none"]

Abs == INSTANCE Completion WITH
    MayReuse <- TRUE, phase <- AbsPhase, billed <- AbsBilled, outcome <- AbsOutcome

\* The dedup middleware is a Provider: it implements the abstract Complete, in
\* which a call is billed at most once, an error is never reused and an answer
\* that was not billed reuses one that was (dedup.go:52-78).
ImplementsCompletion == Abs!Spec
=============================================================================
