------------------------------ MODULE Pipelines ------------------------------
(***************************************************************************)
(* cabi and python: Python threads create Pipelines, call complete and     *)
(* stats on them and close them; the Go side keeps a registry of the       *)
(* pipelines by id, under a mutex that is not held while a call runs in    *)
(* one.  A pipeline is the chain of the middlewares it was configured with *)
(* on a mock provider; calls that run in one at a time share its dedup     *)
(* stores and its stats.                                                   *)
(*                                                                         *)
(* A pipeline is named by its Python object, a dedup store by its pipeline *)
(* and its layer in the chain.  Tokens are counted in units of one         *)
(* request's input and output tokens, which the mock makes the same every  *)
(* time.                                                                   *)
(***************************************************************************)
EXTENDS Integers, Sequences, FiniteSets, Functions

CONSTANTS Pipelines,  \* the Pipeline objects
          Stacks,     \* the middlewares of config, outermost first: sequences
                      \* of "dedup", "cascade" and "account"
          Calls,      \* the invocations of Pipeline.complete and of stats
          Hashes,     \* what Request.Hash() returns
          Closers,    \* the threads that may be in Pipeline.close at a time
          Nil

ASSUME PipelinesAssumption ==
    /\ Stacks \subseteq Seq({"dedup", "cascade", "account"})
    /\ IsFiniteSet(Calls)
    /\ Nil \notin Pipelines \cup Hashes \cup Stacks
                    \cup [of : Pipelines, id : Nat, freed : BOOLEAN]

VARIABLES
    handle,    \* handle[p]: Pipeline._id; 0 before __init__, -1 once closed
    closing,   \* closing[t]: the close() that thread t is in, or Nil
    nextID,    \* the registry's next id
    pipelines, \* the registry: id to pipeline
    stack,     \* stack[p]: the middlewares p was built of
    totals,    \* totals[p]: p's statsSink
    cache,     \* <<p, k, h>> to the stored response, for the dedup at layer k
    pc,        \* pc[c]: where call c is
    owner,     \* owner[c]: the Pipeline c is made on
    hash,      \* hash[c]: the hash of its request, Nil for stats
    id,        \* id[c]: self._id, as c read it
    entry,     \* entry[c]: the pipeline that LLMintComplete looked up
    at,        \* at[c]: the layer c is in, from 1; 0 is above them all
    saved,     \* saved[c]: the tokens in c's response's Savings
    billed,    \* history: the calls that reached a provider
    told,      \* told[c]: the number of calls that stats told c
    known      \* history: known[c]: the calls answered when stats began

handleVars == <<handle, closing, nextID, pipelines, stack>>
requestVars == <<owner, hash, id>>
statsVars == <<told, known>>
vars == <<handleVars, totals, cache, requestVars, pc, entry, at, saved, billed, statsVars>>

Remove(f, k) == Restrict(f, DOMAIN f \ {k})

Assign(f, k, v) == [x \in DOMAIN f \cup {k} |-> IF x = k THEN v ELSE f[x]]

-----------------------------------------------------------------------------
\* The registry.

\* Plausible bug: the registry is a slice's worth of ids, and those that were
\* freed are given out again.
SmallestFreeID == Cardinality(DOMAIN pipelines) + 1

\* Plausible bug: the first id is 0, which Python takes for no pipeline.
FromZero == nextID - 1

NewID == nextID

\* Pipeline.__init__ and LLMintCreatePipeline.  One that fails raises in the
\* constructor: there is no object then.
Create(p, mws) ==
    /\ handle[p] = 0
    /\ handle' = [handle EXCEPT ![p] = NewID]
    /\ nextID' = nextID + 1
    /\ pipelines' = Assign(pipelines, NewID, p)
    /\ stack' = [stack EXCEPT ![p] = mws]
    /\ UNCHANGED <<closing, totals, cache, requestVars, pc, entry, at, saved, billed,
                   statsVars>>

\* Pipeline.close: if self._id > 0.  __init__.py:82-83 read _id once to test it and
\* once more for the call; if another close has set it to -1 between the two,
\* LLMintFreePipeline(-1) frees nothing, as one that comes second does (FreePipeline).
Close(t, p) ==
    /\ closing[t] = Nil
    /\ handle[p] > 0
    /\ closing' = [closing EXCEPT ![t] = [of |-> p, id |-> handle[p], freed |-> FALSE]]
    /\ UNCHANGED <<handle, nextID, pipelines, stack, totals, cache, requestVars,
                   pc, entry, at, saved, billed, statsVars>>

\* Plausible bug: the entry is not deleted.
KeepEntry(n) == pipelines

DeleteEntry(n) == Remove(pipelines, n)

\* LLMintFreePipeline
FreePipeline(t) ==
    /\ closing[t] # Nil
    /\ ~closing[t].freed
    /\ pipelines' = DeleteEntry(closing[t].id)
    /\ closing' = [closing EXCEPT ![t].freed = TRUE]
    /\ UNCHANGED <<handle, nextID, stack, totals, cache, requestVars,
                   pc, entry, at, saved, billed, statsVars>>

\* self._id = -1
Closed(t) ==
    /\ closing[t] # Nil
    /\ closing[t].freed
    /\ handle' = [handle EXCEPT ![closing[t].of] = -1]
    /\ closing' = [closing EXCEPT ![t] = Nil]
    /\ UNCHANGED <<nextID, pipelines, stack, totals, cache, requestVars,
                   pc, entry, at, saved, billed, statsVars>>

-----------------------------------------------------------------------------
\* A call.

\* The calls whose response has left p's outermost layer.
Answered(p) ==
    {c \in Calls : entry[c] = p /\ (pc[c] = "returned" \/ (pc[c] = "up" /\ at[c] = 0))}

\* self._id is read.
Start(c, p) ==
    /\ pc[c] = "idle"
    /\ handle[p] # 0
    /\ pc' = [pc EXCEPT ![c] = "lookup"]
    /\ owner' = [owner EXCEPT ![c] = p]
    /\ id' = [id EXCEPT ![c] = handle[p]]

\* Pipeline.complete
Complete(c, p, h) ==
    /\ Start(c, p)
    /\ hash' = [hash EXCEPT ![c] = h]
    /\ UNCHANGED <<handleVars, totals, cache, entry, at, saved, billed, statsVars>>

\* Pipeline.stats
Stats(c, p) ==
    /\ Start(c, p)
    /\ known' = [known EXCEPT ![c] = Cardinality(Answered(p))]
    /\ UNCHANGED <<handleVars, totals, cache, hash, entry, at, saved, billed, told>>

\* entry, ok := pipelines[id], under the mutex
Lookup(c) ==
    /\ pc[c] = "lookup"
    /\ id[c] \in DOMAIN pipelines
    /\ entry' = [entry EXCEPT ![c] = pipelines[id[c]]]
    /\ at' = [at EXCEPT ![c] = 1]
    /\ pc' = [pc EXCEPT ![c] = IF hash[c] = Nil THEN "stats" ELSE "down"]
    /\ UNCHANGED <<handleVars, totals, cache, requestVars, saved, billed, statsVars>>

\* The id is not registered, or the request is not a llmint.Request as JSON.
Refuse(c) ==
    /\ pc[c] = "lookup"
    /\ hash[c] = Nil => id[c] \notin DOMAIN pipelines
    /\ pc' = [pc EXCEPT ![c] = "refused"]
    /\ UNCHANGED <<handleVars, totals, cache, requestVars, entry, at, saved, billed,
                   statsVars>>

\* entry.sink.Stats(), under the sink's mutex
ReadStats(c) ==
    /\ pc[c] = "stats"
    /\ pc' = [pc EXCEPT ![c] = "told"]
    /\ told' = [told EXCEPT ![c] = totals[entry[c]].calls]
    /\ UNCHANGED <<handleVars, totals, cache, requestVars, entry, at, saved, billed, known>>

\* The layer that c is in: a middleware or, below them all, the mock provider.
Layer(c) == IF at[c] > Len(stack[entry[c]]) THEN "mock" ELSE stack[entry[c]][at[c]]

Slot(c) == <<entry[c], at[c], hash[c]>>

DownTo(c, k) == pc' = [pc EXCEPT ![c] = "down"] /\ at' = [at EXCEPT ![c] = k]

\* The response leaves layer k + 1 upwards with s tokens in its Savings.
UpTo(c, k, s) ==
    /\ pc' = [pc EXCEPT ![c] = "up"]
    /\ at' = [at EXCEPT ![c] = k]
    /\ saved' = [saved EXCEPT ![c] = s]

callFrame == <<handleVars, requestVars, entry, statsVars>>

\* The provider answers.  A cascade of mocks has providers of its own and never
\* calls the next one; the score of a mock's response is the default 0.5, which
\* its threshold accepts, so that one of them is called.
Provide(c) ==
    /\ pc[c] = "down"
    /\ Layer(c) \in {"mock", "cascade"}
    /\ billed' = billed \cup {c}
    /\ UpTo(c, at[c] - 1, 0)
    /\ UNCHANGED <<callFrame, totals, cache>>

AccountDown(c) ==
    /\ pc[c] = "down"
    /\ Layer(c) = "account"
    /\ DownTo(c, at[c] + 1)
    /\ UNCHANGED <<callFrame, totals, cache, saved, billed>>

DedupMiss(c) ==
    /\ pc[c] = "down"
    /\ Layer(c) = "dedup"
    /\ Slot(c) \notin DOMAIN cache
    /\ DownTo(c, at[c] + 1)
    /\ UNCHANGED <<callFrame, totals, cache, saved, billed>>

\* Plausible bug: the response of a hit is stored too.
DedupHitStores(c) ==
    /\ pc[c] = "down"
    /\ Layer(c) = "dedup"
    /\ Slot(c) \in DOMAIN cache
    /\ UpTo(c, at[c], cache[Slot(c)] + 1)
    /\ UNCHANGED <<callFrame, totals, cache, billed>>

\* The stored response comes with its Savings, to which one entry is appended.
DedupHit(c) ==
    /\ pc[c] = "down"
    /\ Layer(c) = "dedup"
    /\ Slot(c) \in DOMAIN cache
    /\ UpTo(c, at[c] - 1, cache[Slot(c)] + 1)
    /\ UNCHANGED <<callFrame, totals, cache, billed>>

DedupUp(c) ==
    /\ pc[c] = "up"
    /\ at[c] > 0 /\ Layer(c) = "dedup"
    /\ cache' = Assign(cache, Slot(c), saved[c])
    /\ UpTo(c, at[c] - 1, saved[c])
    /\ UNCHANGED <<callFrame, totals, billed>>

\* Plausible bug: a response with savings is not an API call and not recorded.
RecordUnsavedOnly(c, s) == IF saved[c] > 0 THEN s ELSE [s EXCEPT !.calls = @ + 1]

\* statsSink.Record
Record(c, s) == [calls |-> s.calls + 1, saved |-> s.saved + saved[c]]

AccountUp(c) ==
    /\ pc[c] = "up"
    /\ at[c] > 0 /\ Layer(c) = "account"
    /\ totals' = [totals EXCEPT ![entry[c]] = Record(c, totals[entry[c]])]
    /\ UpTo(c, at[c] - 1, saved[c])
    /\ UNCHANGED <<callFrame, cache, billed>>

Return(c) ==
    /\ pc[c] = "up"
    /\ at[c] = 0
    /\ pc' = [pc EXCEPT ![c] = "returned"]
    /\ UNCHANGED <<callFrame, totals, cache, at, saved, billed>>

\* The ten minutes of a stored response are over.
Expire(k) ==
    /\ k \in DOMAIN cache
    /\ cache' = Remove(cache, k)
    /\ UNCHANGED <<callFrame, totals, pc, at, saved, billed>>

-----------------------------------------------------------------------------
Init ==
    /\ handle = [p \in Pipelines |-> 0]
    /\ closing = [t \in Closers |-> Nil]
    /\ nextID = 1
    /\ pipelines = [n \in {} |-> Nil]
    /\ stack = [p \in Pipelines |-> Nil]
    /\ totals = [p \in Pipelines |-> [calls |-> 0, saved |-> 0]]
    /\ cache = [k \in {} |-> Nil]
    /\ pc = [c \in Calls |-> "idle"]
    /\ owner = [c \in Calls |-> Nil]
    /\ hash = [c \in Calls |-> Nil]
    /\ id = [c \in Calls |-> 0]
    /\ entry = [c \in Calls |-> Nil]
    /\ at = [c \in Calls |-> 0]
    /\ saved = [c \in Calls |-> 0]
    /\ billed = {}
    /\ told = [c \in Calls |-> 0]
    /\ known = [c \in Calls |-> 0]

Call(c) ==
    \/ \E p \in Pipelines, h \in Hashes : Complete(c, p, h)
    \/ \E p \in Pipelines : Stats(c, p)
    \/ Lookup(c)
    \/ Refuse(c)
    \/ ReadStats(c)
    \/ Provide(c)
    \/ AccountDown(c)
    \/ DedupMiss(c)
    \/ DedupHit(c)
    \/ DedupUp(c)
    \/ AccountUp(c)
    \/ Return(c)

Closer(t) ==
    \/ \E p \in Pipelines : Close(t, p)
    \/ FreePipeline(t)
    \/ Closed(t)

\* Every call of the instance has come back and every pipeline is closed.
Finished ==
    /\ \A c \in Calls : pc[c] \in {"returned", "refused", "told"}
    /\ UNCHANGED vars

Next ==
    \/ \E p \in Pipelines, mws \in Stacks : Create(p, mws)
    \/ \E t \in Closers : Closer(t)
    \/ \E c \in Calls : Call(c)
    \/ \E k \in DOMAIN cache : Expire(k)
    \/ Finished

Spec == Init /\ [][Next]_vars

-----------------------------------------------------------------------------
Running(c) == pc[c] \in {"down", "up", "returned"}

Reading(c) == pc[c] \in {"stats", "told"}

\* Every variable holds what the code can put in it; ids start at 1, as 0 and
\* -1 are not open pipelines (exports.go:53, __init__.py:82-84).
TypeOK ==
    /\ nextID \in Nat \ {0}
    /\ DOMAIN pipelines \subseteq 1 .. nextID - 1
    /\ pipelines \in [DOMAIN pipelines -> Pipelines]
    /\ handle \in [Pipelines -> -1 .. nextID - 1]
    /\ closing \in [Closers -> [of : Pipelines, id : 1 .. nextID - 1, freed : BOOLEAN]
                                  \cup {Nil}]
    /\ stack \in [Pipelines -> Stacks \cup {Nil}]
    /\ totals \in [Pipelines -> [calls : Nat, saved : Nat]]
    /\ DOMAIN cache \subseteq Pipelines \X (Nat \ {0}) \X Hashes
    /\ cache \in [DOMAIN cache -> Nat]
    /\ pc \in [Calls -> {"idle", "lookup", "down", "up", "returned", "stats", "told",
                         "refused"}]
    /\ owner \in [Calls -> Pipelines \cup {Nil}]
    /\ hash \in [Calls -> Hashes \cup {Nil}]
    /\ id \in [Calls -> -1 .. nextID - 1]
    /\ entry \in [Calls -> Pipelines \cup {Nil}]
    /\ at \in [Calls -> Nat]
    /\ saved \in [Calls -> Nat]
    /\ billed \subseteq Calls
    /\ told \in [Calls -> Nat]
    /\ known \in [Calls -> Nat]
    /\ \A c \in Calls : Running(c) =>
          /\ entry[c] \in Pipelines /\ hash[c] \in Hashes
          /\ stack[entry[c]] \in Stacks
          /\ at[c] \in 0 .. Len(stack[entry[c]]) + 1

\* A call runs in the pipeline it was made on, and stats are of that pipeline,
\* although the one may be closed and others created between the reading of
\* self._id and the lookup of the id in the registry (__init__.py:68, 75,
\* exports.go:157-159, 199-201).
OwnPipeline == \A c \in Calls : Running(c) \/ Reading(c) => entry[c] = owner[c]

\* As long as nobody has freed p in a close() of p, its handle leads to it: the
\* second of two racing close() calls, whose id is no longer registered, does
\* not free another pipeline (__init__.py:82-84, exports.go:213-215).
HandleLeadsHome ==
    \A p \in Pipelines :
        handle[p] > 0 /\ (\A t \in Closers : closing[t] # Nil =>
                              ~(closing[t].of = p /\ closing[t].freed))
        => /\ handle[p] \in DOMAIN pipelines
           /\ pipelines[handle[p]] = p

\* Once close() has returned, no call enters the pipeline, not even one that
\* read self._id before.
ClosedIsFinal ==
    [][\A c \in Calls :
         pc[c] = "lookup" /\ pc'[c] \in {"down", "stats"} => handle[owner[c]] # -1]_vars

\* The positions of middleware m in p.
Places(p, m) == {k \in DOMAIN stack[p] : stack[p][k] = m}

\* A pipeline whose only account middleware is the outermost counts every call
\* that was answered, a hit included, and no other: a caller who has its response
\* finds it in the stats (account.go:16-17 "records a usage Entry to sink after
\* every successful completion", exports.go:28-37).
EveryCallCounted ==
    \A p \in Pipelines : stack[p] # Nil /\ Places(p, "account") = {1} =>
        totals[p].calls = Cardinality(Answered(p))

\* What stats() tells of such a pipeline is no less than the calls that had been
\* answered when it began and no more than those that are when it returns,
\* although the pipeline may be closed while it reads (exports.go:197-206).
StatsAreCurrent ==
    [][\A c \in Calls : pc[c] = "stats" /\ pc'[c] = "told" =>
         LET p == owner[c]
         IN  Places(p, "account") = {1} =>
                 told'[c] \in known[c] .. Cardinality(Answered(p))]_vars

\* The tokens that a pipeline with one account middleware reports as saved are
\* those of calls that no provider was paid for (README.md:7-8 "how much you
\* saved from caching, deduping").
SavingsAreReal ==
    \A p \in Pipelines : stack[p] # Nil /\ Cardinality(Places(p, "account")) = 1 =>
        totals[p].saved <= Cardinality({c \in Calls : entry[c] = p
                                            /\ pc[c] \in {"up", "returned"}} \ billed)

\* Two dedup middlewares in one stack may count one avoided call twice, but no
\* stack reports more than one saving for each of its dedups and each call that it
\* records (dedup.go:58-63, exports.go:28-37).
SavingsBounded ==
    \A p \in Pipelines : stack[p] # Nil =>
        totals[p].saved <= totals[p].calls * Cardinality(Places(p, "dedup"))

\* A response that was not paid for repeats one to the same request that a call of
\* the same pipeline was: the stores of two pipelines have nothing in common
\* (exports.go:86-88), and nothing is stored before it is answered.
ReusesItsOwn ==
    \A c \in Calls : pc[c] \in {"up", "returned"} /\ c \notin billed =>
        \E d \in billed : entry[d] = entry[c] /\ hash[d] = hash[c]

\* The call enters its pipeline by the lookup; one that is refused never does.
AbsPhase == [c \in Calls |-> CASE pc[c] \in {"down", "up"} -> "open"
                               [] pc[c] = "returned" -> "returned"
                               [] OTHER -> "idle"]

AbsOutcome == [c \in Calls |-> IF c \in billed \/ pc[c] = "returned" THEN "ok" ELSE "none"]

Abs == INSTANCE Completion WITH
    MayReuse <- TRUE, phase <- AbsPhase, outcome <- AbsOutcome

\* The whole chain, over however many dedups, is a Provider as each of its
\* middlewares is: it implements the abstract Complete.
ImplementsCompletion == Abs!Spec
=============================================================================
