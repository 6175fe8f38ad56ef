--------------------------- MODULE PipelinesProofs ---------------------------
(***************************************************************************)
(* Proofs about Pipelines, for any number of Pipeline objects, threads,    *)
(* calls and requests, and any stacks of middlewares.                      *)
(***************************************************************************)
EXTENDS Pipelines, TLAPS, FiniteSetTheorems

-----------------------------------------------------------------------------
\* The inductive invariant of the registry.

\* An id belongs to the one object whose handle it is, which has been built.
RegistryInv ==
    /\ \A p \in Pipelines : handle[p] # 0 => stack[p] \in Stacks
    /\ \A p \in Pipelines : handle[p] = 0 => stack[p] = Nil
    /\ \A n \in DOMAIN pipelines : handle[pipelines[n]] = n
    /\ \A p, q \in Pipelines : handle[p] = handle[q] /\ handle[p] > 0 => p = q

\* The id that a close() has read is nobody else's, before and after it is freed.
ClosingInv ==
    \A t \in Closers : closing[t] # Nil =>
        /\ handle[closing[t].of] \in {closing[t].id, -1}
        /\ \A q \in Pipelines : handle[q] = closing[t].id => q = closing[t].of
        /\ closing[t].freed => closing[t].id \notin DOMAIN pipelines

\* The id that a call has read leads nowhere but to its own pipeline.
LookupInv ==
    \A c \in Calls : pc[c] = "lookup" =>
        /\ owner[c] \in Pipelines
        /\ id[c] \in DOMAIN pipelines => pipelines[id[c]] = owner[c]

\* A call is in a pipeline that has been built, at one of its layers.
EnteredInv ==
    \A c \in Calls :
        /\ Running(c) \/ Reading(c) => entry[c] \in Pipelines /\ stack[entry[c]] \in Stacks
        /\ Running(c) => hash[c] \in Hashes
        /\ pc[c] = "down" => at[c] \in 1 .. Len(stack[entry[c]]) + 1
        /\ pc[c] = "up" => at[c] \in 0 .. Len(stack[entry[c]])
        /\ pc[c] = "returned" => at[c] = 0

Inv ==
    /\ TypeOK
    /\ RegistryInv
    /\ ClosingInv
    /\ LookupInv
    /\ EnteredInv
    /\ OwnPipeline
    /\ HandleLeadsHome

-----------------------------------------------------------------------------
\* A stack is a sequence of middlewares.
LEMMA StackFacts ==
    ASSUME NEW mws \in Stacks
    PROVE  /\ mws \in Seq({"dedup", "cascade", "account"})
           /\ Len(mws) \in Nat
           /\ DOMAIN mws = 1 .. Len(mws)
           /\ mws # Nil
BY PipelinesAssumption

\* The last part of TypeOK.
InRange ==
    \A c \in Calls : Running(c) =>
        /\ entry[c] \in Pipelines /\ hash[c] \in Hashes
        /\ stack[entry[c]] \in Stacks
        /\ at[c] \in 0 .. Len(stack[entry[c]]) + 1

LEMMA EnteredIsInRange ==
    ASSUME EnteredInv'
    PROVE  InRange'
<1>1. SUFFICES ASSUME NEW c \in Calls, Running(c)'
      PROVE  /\ entry'[c] \in Pipelines /\ hash'[c] \in Hashes
             /\ stack'[entry'[c]] \in Stacks
             /\ at'[c] \in 0 .. Len(stack'[entry'[c]]) + 1
  BY DEF InRange
<1>2. stack'[entry'[c]] \in Stacks
  BY <1>1 DEF EnteredInv
<1>3. Len(stack'[entry'[c]]) \in Nat
  BY <1>2, StackFacts
<1>. QED  BY <1>1, <1>2, <1>3 DEF EnteredInv, Running

\* A pipeline that a call is in has a handle that is not 0: creating another
\* pipeline leaves its stack alone.
LEMMA EnteredIsBuilt ==
    ASSUME Inv, NEW c \in Calls, Running(c) \/ Reading(c)
    PROVE  entry[c] \in Pipelines /\ handle[entry[c]] # 0
BY StackFacts DEF Inv, EnteredInv, RegistryInv

\* A close() in progress: the record, and its fields.
LEMMA ClosingRecord ==
    ASSUME NEW p \in Pipelines, NEW S, NEW n \in S, NEW b \in BOOLEAN
    PROVE  [of |-> p, id |-> n, freed |-> b] \in [of : Pipelines, id : S, freed : BOOLEAN]
OBVIOUS

LEMMA ClosingFields ==
    ASSUME NEW S, NEW r \in [of : Pipelines, id : S, freed : BOOLEAN]
    PROVE  r.of \in Pipelines /\ r.id \in S /\ r.freed \in BOOLEAN
OBVIOUS

LEMMA ClosingIsNotNil ==
    ASSUME NEW n \in Nat, NEW r \in [of : Pipelines, id : 1 .. n, freed : BOOLEAN]
    PROVE  r # Nil
<1>1. r \in [of : Pipelines, id : Nat, freed : BOOLEAN]
  OBVIOUS
<1>. QED  BY <1>1, PipelinesAssumption

\* What a step does to the registry's invariants that leaves the registry alone
\* and in which no call reads a handle.
LEMMA RegistryFrame ==
    ASSUME Inv, UNCHANGED <<handleVars, owner, id>>,
           \A c \in Calls : pc'[c] = "lookup" => pc[c] = "lookup"
    PROVE  RegistryInv' /\ ClosingInv' /\ LookupInv' /\ HandleLeadsHome'
<1>. USE DEF Inv, handleVars
<1>1. RegistryInv'
  BY DEF RegistryInv
<1>2. ClosingInv'
  BY DEF ClosingInv
<1>3. LookupInv'
  BY DEF LookupInv
<1>4. HandleLeadsHome'
  BY DEF HandleLeadsHome
<1>. QED  BY <1>1, <1>2, <1>3, <1>4

\* ... and what it does to those of the calls that are not in it.
LEMMA EnteredFrame ==
    ASSUME Inv, NEW c \in Calls, UNCHANGED stack,
           \A d \in Calls : d # c =>
               /\ pc'[d] = pc[d] /\ entry'[d] = entry[d] /\ owner'[d] = owner[d]
               /\ hash'[d] = hash[d] /\ at'[d] = at[d],
           Running(c)' \/ Reading(c)' =>
               /\ entry'[c] \in Pipelines /\ stack[entry'[c]] \in Stacks
               /\ entry'[c] = owner'[c],
           Running(c)' => hash'[c] \in Hashes,
           pc'[c] = "down" => at'[c] \in 1 .. Len(stack[entry'[c]]) + 1,
           pc'[c] = "up" => at'[c] \in 0 .. Len(stack[entry'[c]]),
           pc'[c] = "returned" => at'[c] = 0
    PROVE  EnteredInv' /\ OwnPipeline'
<1>. USE DEF Inv, EnteredInv, OwnPipeline, Running, Reading
<1>1. SUFFICES ASSUME NEW d \in Calls
      PROVE  /\ (Running(d) \/ Reading(d) => /\ entry[d] \in Pipelines
                                             /\ stack[entry[d]] \in Stacks
                                             /\ entry[d] = owner[d])'
             /\ (Running(d) => hash[d] \in Hashes)'
             /\ (pc[d] = "down" => at[d] \in 1 .. Len(stack[entry[d]]) + 1)'
             /\ (pc[d] = "up" => at[d] \in 0 .. Len(stack[entry[d]]))'
             /\ (pc[d] = "returned" => at[d] = 0)'
  OBVIOUS
<1>2. CASE d = c
  BY <1>2
<1>3. CASE d # c
  BY <1>3
<1>. QED  BY <1>2, <1>3
-----------------------------------------------------------------------------
\* The registry's steps.

\* A new id is above all that were ever read.
LEMMA CreateKeepsInv ==
    ASSUME Inv, NEW p \in Pipelines, NEW mws \in Stacks, Create(p, mws)
    PROVE  Inv'
<1>. USE DEF Inv, Create, NewID, Assign
<1>1. /\ nextID \in Nat \ {0} /\ nextID' = nextID + 1
      /\ nextID \notin DOMAIN pipelines
      /\ DOMAIN pipelines' = DOMAIN pipelines \cup {nextID}
      /\ pipelines'[nextID] = p
      /\ \A n \in DOMAIN pipelines : pipelines'[n] = pipelines[n] /\ pipelines[n] \in Pipelines
  BY DEF TypeOK
<1>2. /\ handle'[p] = nextID /\ stack'[p] = mws
      /\ \A q \in Pipelines : q # p => handle'[q] = handle[q] /\ stack'[q] = stack[q]
      /\ \A q \in Pipelines : handle[q] \in -1 .. nextID - 1
  BY DEF TypeOK
<1>7. EnteredInv' /\ OwnPipeline'
  <2>1. \A c \in Calls : Running(c) \/ Reading(c) => stack'[entry[c]] = stack[entry[c]]
    BY <1>2, EnteredIsBuilt
  <2>. QED  BY <2>1 DEF EnteredInv, OwnPipeline, Running, Reading, requestVars
<1>0. InRange'
  BY <1>7, EnteredIsInRange
<1>3. TypeOK'
  <2>1. /\ nextID' \in Nat \ {0}
        /\ DOMAIN pipelines' \subseteq 1 .. nextID' - 1
    BY <1>1 DEF TypeOK
  <2>2. pipelines' \in [DOMAIN pipelines' -> Pipelines]
    BY <1>1
  <2>3. handle' \in [Pipelines -> -1 .. nextID' - 1]
    BY <1>1, <1>2 DEF TypeOK
  <2>4. closing' \in [Closers -> [of : Pipelines, id : 1 .. nextID' - 1, freed : BOOLEAN]
                                  \cup {Nil}]
    <3>1. [of : Pipelines, id : 1 .. nextID - 1, freed : BOOLEAN]
            \subseteq [of : Pipelines, id : 1 .. nextID' - 1, freed : BOOLEAN]
      BY <1>1
    <3>. QED  BY <3>1 DEF TypeOK
  <2>5. /\ stack' \in [Pipelines -> Stacks \cup {Nil}]
        /\ id' \in [Calls -> -1 .. nextID' - 1]
    BY <1>1 DEF TypeOK, requestVars
  <2>. QED  BY <1>0, <2>1, <2>2, <2>3, <2>4, <2>5 DEF TypeOK, InRange, requestVars, statsVars
<1>4. RegistryInv'
  <2>1. \A n \in DOMAIN pipelines : pipelines[n] # p
    BY <1>1, <1>2 DEF RegistryInv, TypeOK
  <2>2. \A n \in DOMAIN pipelines' : handle'[pipelines'[n]] = n
    BY <1>1, <1>2, <2>1 DEF RegistryInv
  <2>3. \A q, r \in Pipelines : handle'[q] = handle'[r] /\ handle'[q] > 0 => q = r
    BY <1>1, <1>2 DEF RegistryInv
  <2>4. \A q \in Pipelines : /\ handle'[q] # 0 => stack'[q] \in Stacks
                             /\ handle'[q] = 0 => stack'[q] = Nil
    BY <1>1, <1>2 DEF RegistryInv
  <2>. QED  BY <2>2, <2>3, <2>4 DEF RegistryInv
<1>5. ClosingInv'
  <2>1. SUFFICES ASSUME NEW t \in Closers, closing[t] # Nil
                 PROVE  /\ handle'[closing[t].of] \in {closing[t].id, -1}
                        /\ \A q \in Pipelines : handle'[q] = closing[t].id => q = closing[t].of
                        /\ closing[t].freed => closing[t].id \notin DOMAIN pipelines'
    BY DEF ClosingInv
  <2>2. closing[t].of \in Pipelines /\ closing[t].id \in 1 .. nextID - 1
    BY <2>1 DEF TypeOK
  <2>3. closing[t].of # p
    BY <2>1, <2>2 DEF ClosingInv
  <2>. QED  BY <1>1, <1>2, <2>1, <2>2, <2>3 DEF ClosingInv
<1>6. LookupInv'
  <2>1. \A c \in Calls : id[c] # nextID
    BY <1>1 DEF TypeOK
  <2>. QED  BY <1>1, <2>1 DEF LookupInv, requestVars
<1>8. HandleLeadsHome'
  BY <1>1, <1>2 DEF HandleLeadsHome
<1>. QED  BY <1>3, <1>4, <1>5, <1>6, <1>7, <1>8

LEMMA CloseKeepsInv ==
    ASSUME Inv, NEW t \in Closers, NEW p \in Pipelines, Close(t, p)
    PROVE  Inv'
<1>. USE DEF Inv, Close
<1>1. /\ closing'[t] = [of |-> p, id |-> handle[p], freed |-> FALSE]
      /\ \A u \in Closers : u # t => closing'[u] = closing[u]
      /\ p \in Pipelines /\ handle[p] \in 1 .. nextID - 1
  BY DEF TypeOK
<1>2. TypeOK'
  <2>1. closing'[t] \in [of : Pipelines, id : 1 .. nextID - 1, freed : BOOLEAN]
    BY ONLY <1>1, ClosingRecord
  <2>2. closing' \in [Closers -> [of : Pipelines, id : 1 .. nextID - 1, freed : BOOLEAN]
                                  \cup {Nil}]
    BY <1>1, <2>1 DEF TypeOK
  <2>. QED  BY <2>2 DEF TypeOK, Running, requestVars, statsVars
<1>3. ClosingInv'
  <2>1. SUFFICES ASSUME NEW u \in Closers, closing'[u] # Nil
                 PROVE  /\ handle[closing'[u].of] \in {closing'[u].id, -1}
                        /\ \A q \in Pipelines :
                              handle[q] = closing'[u].id => q = closing'[u].of
                        /\ closing'[u].freed => closing'[u].id \notin DOMAIN pipelines
    BY DEF ClosingInv
  <2>2. CASE u = t
    BY <1>1, <2>2 DEF RegistryInv, TypeOK
  <2>3. CASE u # t
    BY <1>1, <2>1, <2>3 DEF ClosingInv
  <2>. QED  BY <2>2, <2>3
<1>4. HandleLeadsHome'
  <2>1. SUFFICES ASSUME NEW q \in Pipelines, handle[q] > 0,
                        \A u \in Closers : closing'[u] # Nil =>
                            ~(closing'[u].of = q /\ closing'[u].freed)
                 PROVE  handle[q] \in DOMAIN pipelines /\ pipelines[handle[q]] = q
    BY DEF HandleLeadsHome
  <2>2. \A u \in Closers : closing[u] # Nil => ~(closing[u].of = q /\ closing[u].freed)
    BY <1>1, <2>1
  <2>. QED  BY <2>1, <2>2 DEF HandleLeadsHome
<1>5. RegistryInv' /\ LookupInv' /\ EnteredInv' /\ OwnPipeline'
  BY DEF RegistryInv, LookupInv, EnteredInv, OwnPipeline, Running, Reading, requestVars
<1>. QED  BY <1>2, <1>3, <1>4, <1>5

\* What is freed is the pipeline whose close() it is, or nothing.
LEMMA FreePipelineKeepsInv ==
    ASSUME Inv, NEW t \in Closers, FreePipeline(t)
    PROVE  Inv'
<1>. USE DEF Inv, FreePipeline, DeleteEntry, Remove, Restrict
<1>1. /\ closing[t] \in [of : Pipelines, id : 1 .. nextID - 1, freed : BOOLEAN]
      /\ closing'[t] = [of |-> closing[t].of, id |-> closing[t].id, freed |-> TRUE]
      /\ \A u \in Closers : u # t => closing'[u] = closing[u]
  BY DEF TypeOK
<1>2. /\ closing'[t].of = closing[t].of /\ closing'[t].id = closing[t].id
      /\ closing'[t].freed
      /\ closing'[t] \in [of : Pipelines, id : 1 .. nextID - 1, freed : BOOLEAN]
  <2>1. closing[t].of \in Pipelines /\ closing[t].id \in 1 .. nextID - 1
    BY <1>1, ClosingFields, Zenon
  <2>2. closing'[t] \in [of : Pipelines, id : 1 .. nextID - 1, freed : BOOLEAN]
    BY ONLY <1>1, <2>1, ClosingRecord
  <2>. QED  BY <1>1, <2>2
<1>3. /\ DOMAIN pipelines' = DOMAIN pipelines \ {closing[t].id}
      /\ \A n \in DOMAIN pipelines' : pipelines'[n] = pipelines[n]
  BY DEF TypeOK
<1>4. TypeOK'
  <2>1. /\ DOMAIN pipelines' \subseteq 1 .. nextID - 1
        /\ pipelines' \in [DOMAIN pipelines' -> Pipelines]
    BY <1>3 DEF TypeOK
  <2>2. closing' \in [Closers -> [of : Pipelines, id : 1 .. nextID - 1, freed : BOOLEAN]
                                  \cup {Nil}]
    BY <1>1, <1>2 DEF TypeOK
  <2>. QED  BY <2>1, <2>2 DEF TypeOK, Running, requestVars, statsVars
<1>5. ClosingInv'
  <2>1. SUFFICES ASSUME NEW u \in Closers, closing'[u] # Nil
                 PROVE  /\ handle[closing'[u].of] \in {closing'[u].id, -1}
                        /\ \A q \in Pipelines :
                              handle[q] = closing'[u].id => q = closing'[u].of
                        /\ closing'[u].freed => closing'[u].id \notin DOMAIN pipelines'
    BY DEF ClosingInv
  <2>2. CASE u = t
    BY <1>2, <1>3, <2>2 DEF ClosingInv
  <2>3. CASE u # t
    BY <1>1, <1>3, <2>1, <2>3 DEF ClosingInv
  <2>. QED  BY <2>2, <2>3
<1>6. HandleLeadsHome'
  <2>1. SUFFICES ASSUME NEW q \in Pipelines, handle[q] > 0,
                        \A u \in Closers : closing'[u] # Nil =>
                            ~(closing'[u].of = q /\ closing'[u].freed)
                 PROVE  handle[q] \in DOMAIN pipelines' /\ pipelines'[handle[q]] = q
    BY DEF HandleLeadsHome
  <2>2. closing[t].of # q
    <3>1. closing'[t] # Nil
      <4>1. nextID - 1 \in Nat
        BY DEF TypeOK
      <4>. QED  BY ONLY <1>2, <4>1, ClosingIsNotNil
    <3>. QED  BY <1>2, <2>1, <3>1
  <2>3. handle[q] # closing[t].id
    BY <2>2 DEF ClosingInv
  <2>4. \A u \in Closers : closing[u] # Nil => ~(closing[u].of = q /\ closing[u].freed)
    BY <1>1, <2>1
  <2>. QED  BY <1>3, <2>1, <2>3, <2>4 DEF HandleLeadsHome
<1>7. RegistryInv' /\ LookupInv' /\ EnteredInv' /\ OwnPipeline'
  BY <1>3 DEF RegistryInv, LookupInv, EnteredInv, OwnPipeline, Running, Reading, requestVars
<1>. QED  BY <1>4, <1>5, <1>6, <1>7

\* The handle that is overwritten is that of the pipeline that was freed.
LEMMA ClosedKeepsInv ==
    ASSUME Inv, NEW t \in Closers, Closed(t)
    PROVE  Inv'
<1>. USE DEF Inv, Closed
<1> DEFINE p == closing[t].of
<1>1. /\ closing[t] \in [of : Pipelines, id : 1 .. nextID - 1, freed : BOOLEAN]
      /\ closing'[t] = Nil
      /\ \A u \in Closers : u # t => closing'[u] = closing[u]
  BY DEF TypeOK
<1>2. /\ p \in Pipelines /\ handle'[p] = -1
      /\ \A q \in Pipelines : q # p => handle'[q] = handle[q]
      /\ nextID \in Nat \ {0}
  BY <1>1 DEF TypeOK
<1>3. TypeOK'
  <2>1. handle' \in [Pipelines -> -1 .. nextID - 1]
    BY <1>2 DEF TypeOK
  <2>2. closing' \in [Closers -> [of : Pipelines, id : 1 .. nextID - 1, freed : BOOLEAN]
                                  \cup {Nil}]
    BY <1>1 DEF TypeOK
  <2>. QED  BY <2>1, <2>2 DEF TypeOK, Running, requestVars, statsVars
<1>4. \A n \in DOMAIN pipelines : pipelines[n] \in Pipelines /\ n > 0 /\ pipelines[n] # p
  <2>1. SUFFICES ASSUME NEW n \in DOMAIN pipelines
                 PROVE  pipelines[n] \in Pipelines /\ n > 0 /\ pipelines[n] # p
    OBVIOUS
  <2>2. pipelines[n] \in Pipelines /\ n > 0
    BY DEF TypeOK
  <2>3. handle[pipelines[n]] = n
    BY DEF RegistryInv
  <2>4. handle[p] \in {closing[t].id, -1} /\ closing[t].id \notin DOMAIN pipelines
    BY DEF ClosingInv
  <2>. QED  BY <2>2, <2>3, <2>4
<1>5. RegistryInv'
  <2>1. handle[p] # 0
    BY <1>1 DEF ClosingInv
  <2>. QED  BY <1>2, <1>4, <2>1 DEF RegistryInv
<1>6. ClosingInv'
  <2>1. SUFFICES ASSUME NEW u \in Closers, closing'[u] # Nil
                 PROVE  /\ handle'[closing[u].of] \in {closing[u].id, -1}
                        /\ \A q \in Pipelines :
                              handle'[q] = closing[u].id => q = closing[u].of
                        /\ closing[u].freed => closing[u].id \notin DOMAIN pipelines
    BY <1>1 DEF ClosingInv
  <2>2. u # t /\ closing[u] \in [of : Pipelines, id : 1 .. nextID - 1, freed : BOOLEAN]
    BY <1>1, <2>1 DEF TypeOK
  <2>3. closing[u] # Nil
    BY <1>1, <2>1, <2>2
  <2>. QED  BY <1>2, <2>2, <2>3 DEF ClosingInv
<1>7. HandleLeadsHome'
  <2>1. SUFFICES ASSUME NEW q \in Pipelines, handle'[q] > 0,
                        \A u \in Closers : closing'[u] # Nil =>
                            ~(closing'[u].of = q /\ closing'[u].freed)
                 PROVE  handle'[q] \in DOMAIN pipelines /\ pipelines[handle'[q]] = q
    BY DEF HandleLeadsHome
  <2>2. q # p /\ handle'[q] = handle[q]
    BY <1>2, <2>1
  <2>3. \A u \in Closers : closing[u] # Nil => ~(closing[u].of = q /\ closing[u].freed)
    BY <1>1, <2>1, <2>2
  <2>. QED  BY <2>1, <2>2, <2>3 DEF HandleLeadsHome
<1>8. LookupInv' /\ EnteredInv' /\ OwnPipeline'
  BY DEF LookupInv, EnteredInv, OwnPipeline, Running, Reading, requestVars
<1>. QED  BY <1>3, <1>5, <1>6, <1>7, <1>8

-----------------------------------------------------------------------------
\* The calls' steps.

\* Where a call is in its pipeline.
LEMMA CallFacts ==
    ASSUME Inv, NEW c \in Calls, pc[c] \in {"down", "up"}
    PROVE  /\ entry[c] \in Pipelines /\ entry[c] = owner[c] /\ hash[c] \in Hashes
           /\ stack[entry[c]] \in Stacks /\ Len(stack[entry[c]]) \in Nat
           /\ pc[c] = "down" => at[c] \in 1 .. Len(stack[entry[c]]) + 1
           /\ pc[c] = "up" => at[c] \in 0 .. Len(stack[entry[c]])
           /\ Layer(c) # "mock" => at[c] <= Len(stack[entry[c]])
           /\ at[c] > 0 => Slot(c) \in Pipelines \X (Nat \ {0}) \X Hashes
BY StackFacts DEF Inv, TypeOK, EnteredInv, OwnPipeline, Running, Layer, Slot

\* A handle is read that leads, if anywhere, to its own pipeline.
LEMMA StartKeepsInv ==
    ASSUME Inv, NEW c \in Calls, NEW p \in Pipelines, Start(c, p),
           UNCHANGED <<handleVars, totals, cache, entry, at, saved, billed, told>>,
           hash' \in [Calls -> Hashes \cup {Nil}], known' \in [Calls -> Nat],
           \A d \in Calls : d # c => hash'[d] = hash[d]
    PROVE  Inv'
<1>. USE DEF Inv, Start, handleVars
<1>1. /\ pc'[c] = "lookup" /\ owner'[c] = p /\ id'[c] = handle[p]
      /\ \A d \in Calls : d # c =>
            pc'[d] = pc[d] /\ owner'[d] = owner[d] /\ id'[d] = id[d]
  BY DEF TypeOK
<1>2. EnteredInv' /\ OwnPipeline'
  BY <1>1, EnteredFrame DEF Running, Reading
<1>3. TypeOK'
  <2>1. InRange'
    BY <1>2, EnteredIsInRange
  <2>2. id' \in [Calls -> -1 .. nextID - 1]
    BY DEF TypeOK
  <2>. QED  BY <2>1, <2>2 DEF TypeOK, InRange
<1>4. handle[p] \in DOMAIN pipelines => pipelines[handle[p]] = p
  BY DEF TypeOK, RegistryInv
<1>5. LookupInv'
  BY <1>1, <1>4 DEF LookupInv
<1>6. RegistryInv' /\ ClosingInv' /\ HandleLeadsHome'
  BY DEF RegistryInv, ClosingInv, HandleLeadsHome
<1>. QED  BY <1>2, <1>3, <1>5, <1>6

\* The number of answered calls is one.
LEMMA AnsweredIsFinite ==
    ASSUME NEW p
    PROVE  IsFiniteSet(Answered(p)) /\ Cardinality(Answered(p)) \in Nat
<1>1. Answered(p) \in SUBSET Calls
  BY DEF Answered
<1>2. IsFiniteSet(Answered(p))
  BY <1>1, FS_Subset, PipelinesAssumption
<1>. QED  BY <1>2, FS_CardinalityType

LEMMA CompleteKeepsInv ==
    ASSUME Inv, NEW c \in Calls, NEW p \in Pipelines, NEW h \in Hashes, Complete(c, p, h)
    PROVE  Inv'
<1>1. /\ hash' \in [Calls -> Hashes \cup {Nil}] /\ known' \in [Calls -> Nat]
      /\ \A d \in Calls : d # c => hash'[d] = hash[d]
  BY DEF Inv, TypeOK, Complete, statsVars
<1>. QED  BY <1>1, StartKeepsInv DEF Complete, statsVars

LEMMA StatsKeepsInv ==
    ASSUME Inv, NEW c \in Calls, NEW p \in Pipelines, Stats(c, p)
    PROVE  Inv'
<1>1. /\ hash' \in [Calls -> Hashes \cup {Nil}] /\ known' \in [Calls -> Nat]
      /\ \A d \in Calls : d # c => hash'[d] = hash[d]
  BY AnsweredIsFinite DEF Inv, TypeOK, Stats
<1>. QED  BY <1>1, StartKeepsInv DEF Stats

LEMMA LookupKeepsInv ==
    ASSUME Inv, NEW c \in Calls, Lookup(c)
    PROVE  Inv'
<1>. USE DEF Inv, Lookup, handleVars, requestVars, statsVars
<1>1. /\ pc'[c] = (IF hash[c] = Nil THEN "stats" ELSE "down")
      /\ entry'[c] = pipelines[id[c]] /\ at'[c] = 1
      /\ \A d \in Calls : d # c =>
            pc'[d] = pc[d] /\ entry'[d] = entry[d] /\ at'[d] = at[d]
  BY DEF TypeOK
<1>2. /\ entry'[c] \in Pipelines /\ entry'[c] = owner[c]
      /\ stack[entry'[c]] \in Stacks /\ Len(stack[entry'[c]]) \in Nat
  <2>1. entry'[c] \in Pipelines /\ entry'[c] = owner[c] /\ handle[entry'[c]] > 0
    BY <1>1 DEF TypeOK, LookupInv, RegistryInv
  <2>. QED  BY <2>1, StackFacts DEF RegistryInv
<1>3. EnteredInv' /\ OwnPipeline'
  <2>1. hash[c] # Nil => hash[c] \in Hashes
    BY DEF TypeOK
  <2>2. 1 \in 1 .. Len(stack[entry'[c]]) + 1
    BY <1>2
  <2>. QED  BY <1>1, <1>2, <2>1, <2>2, EnteredFrame DEF Running, Reading
<1>4. TypeOK'
  <2>1. InRange'
    BY <1>3, EnteredIsInRange
  <2>2. /\ entry' \in [Calls -> Pipelines \cup {Nil}]
        /\ at' \in [Calls -> Nat]
    BY <1>1, <1>2 DEF TypeOK
  <2>. QED  BY <2>1, <2>2 DEF TypeOK, InRange
<1>. QED  BY <1>1, <1>3, <1>4, RegistryFrame

LEMMA RefuseKeepsInv ==
    ASSUME Inv, NEW c \in Calls, Refuse(c)
    PROVE  Inv'
<1>. USE DEF Inv, Refuse, handleVars, requestVars, statsVars
<1>1. pc'[c] = "refused" /\ \A d \in Calls : d # c => pc'[d] = pc[d]
  BY DEF TypeOK
<1>2. EnteredInv' /\ OwnPipeline'
  BY <1>1, EnteredFrame DEF Running, Reading
<1>3. TypeOK'
  <2>1. InRange'
    BY <1>2, EnteredIsInRange
  <2>. QED  BY <2>1 DEF TypeOK, InRange
<1>. QED  BY <1>1, <1>2, <1>3, RegistryFrame

LEMMA ReadStatsKeepsInv ==
    ASSUME Inv, NEW c \in Calls, ReadStats(c)
    PROVE  Inv'
<1>. USE DEF Inv, ReadStats, handleVars, requestVars
<1>1. pc'[c] = "told" /\ \A d \in Calls : d # c => pc'[d] = pc[d]
  BY DEF TypeOK
<1>2. entry[c] \in Pipelines /\ stack[entry[c]] \in Stacks /\ entry[c] = owner[c]
  BY DEF EnteredInv, OwnPipeline, Reading
<1>3. EnteredInv' /\ OwnPipeline'
  BY <1>1, <1>2, EnteredFrame DEF Running, Reading
<1>4. TypeOK'
  <2>1. InRange'
    BY <1>3, EnteredIsInRange
  <2>2. totals[entry[c]].calls \in Nat
    BY <1>2 DEF TypeOK
  <2>3. told' \in [Calls -> Nat]
    BY <2>2 DEF TypeOK
  <2>. QED  BY <2>1, <2>3 DEF TypeOK, InRange
<1>. QED  BY <1>1, <1>3, <1>4, RegistryFrame

\* A call that moves through the layers of its pipeline.
LEMMA MoveKeepsInv ==
    ASSUME Inv, NEW c \in Calls, NEW k \in Nat, NEW way \in {"down", "up"}, NEW s \in Nat,
           pc[c] \in {"down", "up"},
           pc' = [pc EXCEPT ![c] = way], at' = [at EXCEPT ![c] = k],
           saved' = [saved EXCEPT ![c] = s], UNCHANGED callFrame,
           way = "down" => k \in 1 .. Len(stack[entry[c]]) + 1,
           way = "up" => k <= Len(stack[entry[c]]),
           totals' \in [Pipelines -> [calls : Nat, saved : Nat]],
           DOMAIN cache' \subseteq Pipelines \X (Nat \ {0}) \X Hashes,
           cache' \in [DOMAIN cache' -> Nat],
           billed' \subseteq Calls
    PROVE  Inv'
<1>. USE DEF Inv, callFrame, handleVars, requestVars, statsVars
<1>1. /\ pc'[c] = way /\ at'[c] = k
      /\ \A d \in Calls : d # c => pc'[d] = pc[d] /\ at'[d] = at[d]
  BY DEF TypeOK
<1>2. EnteredInv' /\ OwnPipeline'
  <2>1. /\ entry[c] \in Pipelines /\ entry[c] = owner[c] /\ hash[c] \in Hashes
        /\ stack[entry[c]] \in Stacks /\ Len(stack[entry[c]]) \in Nat
    BY CallFacts
  <2>2. way = "up" => k \in 0 .. Len(stack[entry[c]])
    BY <2>1
  <2>. QED  BY <1>1, <2>1, <2>2, EnteredFrame DEF Running, Reading
<1>3. TypeOK'
  <2>1. InRange'
    BY <1>2, EnteredIsInRange
  <2>2. /\ pc' \in [Calls -> {"idle", "lookup", "down", "up", "returned", "stats", "told",
                              "refused"}]
        /\ at' \in [Calls -> Nat] /\ saved' \in [Calls -> Nat]
    BY DEF TypeOK
  <2>. QED  BY <2>1, <2>2 DEF TypeOK, InRange
<1>. QED  BY <1>1, <1>2, <1>3, RegistryFrame

LEMMA ProvideKeepsInv ==
    ASSUME Inv, NEW c \in Calls, Provide(c)
    PROVE  Inv'
<1>1. /\ pc[c] = "down" /\ at[c] - 1 \in Nat /\ at[c] - 1 <= Len(stack[entry[c]])
  BY CallFacts DEF Provide
<1>2. saved' = [saved EXCEPT ![c] = 0] /\ billed' \subseteq Calls
  BY DEF Inv, TypeOK, Provide, UpTo
<1>. QED  BY <1>1, <1>2, MoveKeepsInv DEF Inv, TypeOK, Provide, UpTo

\* A step downwards through a layer.
LEMMA DownKeepsInv ==
    ASSUME Inv, NEW c \in Calls, pc[c] = "down", Layer(c) # "mock", DownTo(c, at[c] + 1),
           UNCHANGED <<callFrame, totals, cache, saved, billed>>
    PROVE  Inv'
<1>1. at[c] + 1 \in Nat /\ at[c] + 1 \in 1 .. Len(stack[entry[c]]) + 1
  BY CallFacts
<1>2. saved' = [saved EXCEPT ![c] = saved[c]] /\ saved[c] \in Nat
  BY DEF Inv, TypeOK
<1>3. /\ totals' \in [Pipelines -> [calls : Nat, saved : Nat]]
      /\ DOMAIN cache' \subseteq Pipelines \X (Nat \ {0}) \X Hashes
      /\ cache' \in [DOMAIN cache' -> Nat]
      /\ billed' \subseteq Calls
  BY DEF Inv, TypeOK
<1>. QED  BY <1>1, <1>2, <1>3, MoveKeepsInv DEF DownTo

LEMMA AccountDownKeepsInv ==
    ASSUME Inv, NEW c \in Calls, AccountDown(c)
    PROVE  Inv'
BY DownKeepsInv DEF AccountDown

LEMMA DedupMissKeepsInv ==
    ASSUME Inv, NEW c \in Calls, DedupMiss(c)
    PROVE  Inv'
BY DownKeepsInv DEF DedupMiss

LEMMA DedupHitKeepsInv ==
    ASSUME Inv, NEW c \in Calls, DedupHit(c)
    PROVE  Inv'
<1>1. /\ pc[c] = "down" /\ at[c] - 1 \in Nat /\ at[c] - 1 <= Len(stack[entry[c]])
  BY CallFacts DEF DedupHit
<1>2. cache[Slot(c)] + 1 \in Nat
  BY DEF Inv, TypeOK, DedupHit
<1>. QED  BY <1>1, <1>2, MoveKeepsInv DEF Inv, TypeOK, DedupHit, UpTo

LEMMA DedupUpKeepsInv ==
    ASSUME Inv, NEW c \in Calls, DedupUp(c)
    PROVE  Inv'
<1>1. /\ pc[c] = "up" /\ at[c] - 1 \in Nat /\ at[c] - 1 <= Len(stack[entry[c]])
      /\ Slot(c) \in Pipelines \X (Nat \ {0}) \X Hashes
  BY CallFacts DEF DedupUp
<1>2. saved[c] \in Nat
  BY DEF Inv, TypeOK
<1>3. /\ DOMAIN cache' \subseteq Pipelines \X (Nat \ {0}) \X Hashes
      /\ cache' \in [DOMAIN cache' -> Nat]
  BY <1>1, <1>2 DEF Inv, TypeOK, DedupUp, Assign
<1>. QED  BY <1>1, <1>2, <1>3, MoveKeepsInv DEF Inv, TypeOK, DedupUp, UpTo

LEMMA AccountUpKeepsInv ==
    ASSUME Inv, NEW c \in Calls, AccountUp(c)
    PROVE  Inv'
<1>1. /\ pc[c] = "up" /\ at[c] - 1 \in Nat /\ at[c] - 1 <= Len(stack[entry[c]])
      /\ entry[c] \in Pipelines
  BY CallFacts DEF AccountUp
<1>2. saved[c] \in Nat
  BY DEF Inv, TypeOK
<1>3. totals[entry[c]].calls \in Nat /\ totals[entry[c]].saved \in Nat
  BY <1>1 DEF Inv, TypeOK
<1>4. totals' \in [Pipelines -> [calls : Nat, saved : Nat]]
  <2>. DEFINE r == Record(c, totals[entry[c]])
  <2>1. r \in [calls : Nat, saved : Nat]
    BY <1>2, <1>3 DEF Record
  <2>2. totals' = [totals EXCEPT ![entry[c]] = r]
    BY DEF AccountUp
  <2>3. totals \in [Pipelines -> [calls : Nat, saved : Nat]]
    BY DEF Inv, TypeOK
  <2>. HIDE DEF r
  <2>. QED  BY ONLY <2>1, <2>2, <2>3
<1>. QED  BY <1>1, <1>2, <1>4, MoveKeepsInv DEF Inv, TypeOK, AccountUp, UpTo

LEMMA ReturnKeepsInv ==
    ASSUME Inv, NEW c \in Calls, Return(c)
    PROVE  Inv'
<1>. USE DEF Inv, Return, callFrame, handleVars, requestVars, statsVars
<1>1. /\ pc'[c] = "returned" /\ at[c] = 0 /\ \A d \in Calls : d # c => pc'[d] = pc[d]
  BY DEF TypeOK
<1>2. EnteredInv' /\ OwnPipeline'
  <2>1. /\ entry[c] \in Pipelines /\ entry[c] = owner[c] /\ hash[c] \in Hashes
        /\ stack[entry[c]] \in Stacks
    BY CallFacts
  <2>. QED  BY <1>1, <2>1, EnteredFrame DEF Running, Reading
<1>3. TypeOK'
  <2>1. InRange'
    BY <1>2, EnteredIsInRange
  <2>. QED  BY <2>1 DEF TypeOK, InRange
<1>. QED  BY <1>1, <1>2, <1>3, RegistryFrame

LEMMA ExpireKeepsInv ==
    ASSUME Inv, NEW k \in DOMAIN cache, Expire(k)
    PROVE  Inv'
<1>. USE DEF Inv, Expire, callFrame, handleVars, requestVars, statsVars
<1>1. EnteredInv' /\ OwnPipeline'
  BY DEF EnteredInv, OwnPipeline, Running, Reading
<1>2. TypeOK'
  <2>1. InRange'
    BY <1>1, EnteredIsInRange
  <2>2. /\ DOMAIN cache' \subseteq Pipelines \X (Nat \ {0}) \X Hashes
        /\ cache' \in [DOMAIN cache' -> Nat]
    BY DEF TypeOK, Remove, Restrict
  <2>. QED  BY <2>1, <2>2 DEF TypeOK, InRange
<1>. QED  BY <1>1, <1>2, RegistryFrame

LEMMA InitSetsInv ==
    ASSUME Init
    PROVE  Inv
<1>. USE PipelinesAssumption DEF Init
<1>1. TypeOK
  BY DEF TypeOK, Running
<1>2. RegistryInv /\ ClosingInv /\ LookupInv
  BY DEF RegistryInv, ClosingInv, LookupInv
<1>3. EnteredInv /\ OwnPipeline /\ HandleLeadsHome
  BY DEF EnteredInv, OwnPipeline, HandleLeadsHome, Running, Reading
<1>. QED  BY <1>1, <1>2, <1>3 DEF Inv

LEMMA StutterKeepsInv ==
    ASSUME Inv, UNCHANGED vars
    PROVE  Inv'
<1>. USE DEF vars, handleVars, requestVars, statsVars, Inv
<1>1. TypeOK'
  BY DEF TypeOK, Running
<1>2. EnteredInv' /\ OwnPipeline'
  BY DEF EnteredInv, OwnPipeline, Running, Reading
<1>3. RegistryInv' /\ ClosingInv' /\ LookupInv' /\ HandleLeadsHome'
  BY RegistryFrame
<1>. QED  BY <1>1, <1>2, <1>3

LEMMA NextKeepsInv ==
    ASSUME Inv, [Next]_vars
    PROVE  Inv'
<1>1. ASSUME NEW p \in Pipelines, NEW mws \in Stacks, Create(p, mws)
      PROVE  Inv'
  BY <1>1, CreateKeepsInv
<1>2. ASSUME NEW t \in Closers, Closer(t)
      PROVE  Inv'
  BY <1>2, CloseKeepsInv, FreePipelineKeepsInv, ClosedKeepsInv DEF Closer
<1>3. ASSUME NEW c \in Calls, Call(c)
      PROVE  Inv'
  BY <1>3, CompleteKeepsInv, StatsKeepsInv, LookupKeepsInv, RefuseKeepsInv, ReadStatsKeepsInv,
     ProvideKeepsInv, AccountDownKeepsInv, DedupMissKeepsInv, DedupHitKeepsInv,
     DedupUpKeepsInv, AccountUpKeepsInv, ReturnKeepsInv DEF Call
<1>4. ASSUME NEW k \in DOMAIN cache, Expire(k)
      PROVE  Inv'
  BY <1>4, ExpireKeepsInv
<1>. QED  BY <1>1, <1>2, <1>3, <1>4, StutterKeepsInv DEF Next, Finished

LEMMA Invariance == Spec => []Inv
<1>1. Init => Inv
  BY InitSetsInv
<1>2. Inv /\ [Next]_vars => Inv'
  BY NextKeepsInv
<1>. QED  BY <1>1, <1>2, PTL DEF Spec

-----------------------------------------------------------------------------
\* What follows of the registry.

\* Every variable holds what the code can put in it, for any number of threads.
THEOREM TypeCorrect == Spec => []TypeOK
<1>1. Inv => TypeOK
  BY DEF Inv
<1>. QED  BY <1>1, Invariance, PTL

\* A call runs in, and stats are of, the pipeline they were made on.
THEOREM CallsAreTheirPipelines == Spec => []OwnPipeline
<1>1. Inv => OwnPipeline
  BY DEF Inv
<1>. QED  BY <1>1, Invariance, PTL

\* A handle leads to its pipeline until a close() of it frees it.
THEOREM HandlesLeadHome == Spec => []HandleLeadsHome
<1>1. Inv => HandleLeadsHome
  BY DEF Inv
<1>. QED  BY <1>1, Invariance, PTL

\* What happens to a call that has looked its id up.
LEMMA EntersByLookup ==
    ASSUME Inv, [Next]_vars, NEW c \in Calls,
           pc[c] = "lookup", pc'[c] \in {"down", "stats"}
    PROVE  Lookup(c)
<1>1. pc' # pc
  OBVIOUS
<1>2. ASSUME NEW p \in Pipelines, NEW mws \in Stacks, Create(p, mws)
      PROVE  FALSE
  BY <1>1, <1>2 DEF Create
<1>3. ASSUME NEW t \in Closers, Closer(t)
      PROVE  FALSE
  BY <1>1, <1>3 DEF Closer, Close, FreePipeline, Closed
<1>4. ASSUME NEW d \in Calls, Call(d)
      PROVE  Lookup(c)
  <2>1. d = c
    BY <1>4 DEF Call, Complete, Stats, Start, Lookup, Refuse, ReadStats, Provide, AccountDown,
                DedupMiss, DedupHit, DedupUp, AccountUp, Return, DownTo, UpTo, Inv, TypeOK
  <2>. QED  BY <1>4, <2>1 DEF Call, Complete, Stats, Start, Lookup, Refuse, ReadStats, Provide,
                AccountDown, DedupMiss, DedupHit, DedupUp, AccountUp, Return, Inv, TypeOK
<1>5. ASSUME NEW k \in DOMAIN cache, Expire(k)
      PROVE  FALSE
  BY <1>1, <1>5 DEF Expire
<1>. QED  BY <1>1, <1>2, <1>3, <1>4, <1>5 DEF Next, Finished, vars

\* No call and no stats enter a pipeline whose close() has returned.
THEOREM ClosedStaysClosed == Spec => ClosedIsFinal
<1>1. ASSUME Inv, [Next]_vars, NEW c \in Calls,
             pc[c] = "lookup", pc'[c] \in {"down", "stats"}
      PROVE  handle[owner[c]] # -1
  <2>1. id[c] \in DOMAIN pipelines
    BY <1>1, EntersByLookup DEF Lookup
  <2>2. pipelines[id[c]] = owner[c] /\ id[c] \in Nat
    BY <1>1, <2>1 DEF Inv, TypeOK, LookupInv
  <2>. QED  BY <1>1, <2>1, <2>2 DEF Inv, RegistryInv
<1>2. Inv /\ [Next]_vars =>
        [\A c \in Calls :
            pc[c] = "lookup" /\ pc'[c] \in {"down", "stats"} => handle[owner[c]] # -1]_vars
  BY <1>1
<1>. QED  BY <1>2, Invariance, PTL DEF Spec, ClosedIsFinal

-----------------------------------------------------------------------------
\* Counting.

\* The calls whose response has gone up past p's layer k.
Passed(p, k) ==
    {c \in Calls : entry[c] = p /\ (pc[c] = "returned" \/ (pc[c] = "up" /\ at[c] < k))}

\* A pipeline that has not been built has not counted anything; the calls that
\* stats() knew of have been answered; the total is right.
CountInv ==
    /\ \A p \in Pipelines : stack[p] = Nil => totals[p] = [calls |-> 0, saved |-> 0]
    /\ \A c \in Calls :
          /\ pc[c] = "idle" => known[c] = 0
          /\ pc[c] \in {"lookup", "stats"} => known[c] <= Cardinality(Answered(owner[c]))
    /\ EveryCallCounted

LEMMA PassedIsFinite ==
    ASSUME NEW p, NEW k
    PROVE  IsFiniteSet(Passed(p, k)) /\ Cardinality(Passed(p, k)) \in Nat
<1>1. Passed(p, k) \in SUBSET Calls
  BY DEF Passed
<1>2. IsFiniteSet(Passed(p, k))
  BY <1>1, FS_Subset, PipelinesAssumption
<1>. QED  BY <1>2, FS_CardinalityType

LEMMA LargerSet ==
    ASSUME NEW T, IsFiniteSet(T), NEW S \in SUBSET T
    PROVE  /\ IsFiniteSet(S) /\ Cardinality(S) \in Nat /\ Cardinality(T) \in Nat
           /\ Cardinality(S) <= Cardinality(T)
<1>1. IsFiniteSet(S) /\ Cardinality(S) <= Cardinality(T)
  BY FS_Subset
<1>. QED  BY <1>1, FS_CardinalityType

\* A response that has left the outermost layer stays there, whatever happens.
LEMMA AnsweredStays ==
    ASSUME Inv, [Next]_vars, NEW c \in Calls, NEW p, c \in Answered(p)
    PROVE  c \in Answered(p)'
<1>. SUFFICES entry'[c] = entry[c] /\ (pc'[c] = "returned" \/ (pc'[c] = "up" /\ at'[c] = 0))
  BY DEF Answered
<1>. USE DEF Answered, Inv, TypeOK
<1>1. ASSUME NEW q \in Pipelines, NEW mws \in Stacks, Create(q, mws)
      PROVE  UNCHANGED <<entry, pc, at>>
  BY <1>1 DEF Create
<1>2. ASSUME NEW t \in Closers, Closer(t)
      PROVE  UNCHANGED <<entry, pc, at>>
  BY <1>2 DEF Closer, Close, FreePipeline, Closed
<1>3. ASSUME NEW d \in Calls, Call(d), d # c
      PROVE  entry'[c] = entry[c] /\ pc'[c] = pc[c] /\ at'[c] = at[c]
  BY <1>3 DEF Call, Complete, Stats, Start, Lookup, Refuse, ReadStats, Provide, AccountDown,
              DedupMiss, DedupHit, DedupUp, AccountUp, Return, DownTo, UpTo, callFrame
<1>4. ASSUME Call(c)
      PROVE  Return(c)
  <2>1. pc[c] \in {"returned", "up"} /\ ~(pc[c] = "up" /\ at[c] > 0)
    OBVIOUS
  <2>. QED  BY ONLY <1>4, <2>1 DEF Call, Complete, Stats, Start, Lookup, Refuse, ReadStats, Provide, AccountDown,
              DedupMiss, DedupHit, DedupUp, AccountUp, Return
<1>5. ASSUME Return(c)
      PROVE  entry'[c] = entry[c] /\ pc'[c] = "returned"
  BY <1>5 DEF Return, callFrame
<1>6. ASSUME NEW k \in DOMAIN cache, Expire(k)
      PROVE  UNCHANGED <<entry, pc, at>>
  BY <1>6 DEF Expire, callFrame
<1>7. CASE UNCHANGED vars
  BY <1>7 DEF vars
<1>8. CASE \E d \in Calls : Call(d)
  BY <1>3, <1>4, <1>5, <1>8
<1>. QED  BY <1>1, <1>2, <1>6, <1>7, <1>8 DEF Next, Finished

LEMMA AnsweredGrows ==
    ASSUME Inv, [Next]_vars, NEW p
    PROVE  Cardinality(Answered(p)) <= Cardinality(Answered(p)')
<1>1. Answered(p) \subseteq Answered(p)'
  BY AnsweredStays DEF Answered
<1>2. IsFiniteSet(Answered(p)')
  <2>1. Answered(p)' \in SUBSET Calls
    BY DEF Answered
  <2>. QED  BY <2>1, FS_Subset, PipelinesAssumption
<1>. QED  BY <1>1, <1>2, LargerSet

\* The calls that have passed are those of before and the one that moved, if it has.
LEMMA SamePassed ==
    ASSUME NEW c \in Calls, NEW p, NEW k,
           \A d \in Calls : d # c =>
               pc'[d] = pc[d] /\ entry'[d] = entry[d] /\ at'[d] = at[d],
           c \in Passed(p, k)' <=> c \in Passed(p, k)
    PROVE  Passed(p, k)' = Passed(p, k)
<1>1. \A d \in Calls : d \in Passed(p, k)' <=> d \in Passed(p, k)
  <2>1. SUFFICES ASSUME NEW d \in Calls
                 PROVE  d \in Passed(p, k)' <=> d \in Passed(p, k)
    OBVIOUS
  <2>2. CASE d = c
    BY <2>2
  <2>3. CASE d # c
    BY <2>3 DEF Passed
  <2>. QED  BY <2>2, <2>3
<1>. QED  BY <1>1 DEF Passed

LEMMA AnsweredIsPassed ==
    ASSUME TypeOK, NEW p
    PROVE  Answered(p) = Passed(p, 1)
BY DEF Answered, Passed, TypeOK

LEMMA AnsweredIsPassedNext ==
    ASSUME TypeOK', NEW p
    PROVE  Answered(p)' = Passed(p, 1)'
BY DEF Answered, Passed, TypeOK

\* A step of one call that passes no account layer.
LEMMA CountedFrame ==
    ASSUME Inv, Inv', EveryCallCounted, NEW c \in Calls, UNCHANGED <<stack, totals>>,
           \A d \in Calls : d # c =>
               pc'[d] = pc[d] /\ entry'[d] = entry[d] /\ at'[d] = at[d],
           \A p \in Pipelines : stack[p] # Nil /\ Places(p, "account") = {1} =>
               (c \in Passed(p, 1)' <=> c \in Passed(p, 1))
    PROVE  EveryCallCounted'
<1>1. SUFFICES ASSUME NEW p \in Pipelines, stack[p] # Nil, Places(p, "account") = {1}
               PROVE  totals[p].calls = Cardinality(Answered(p)')
  BY DEF EveryCallCounted, Places
<1>2. Answered(p)' = Answered(p)
  BY <1>1, SamePassed, AnsweredIsPassed, AnsweredIsPassedNext DEF Inv
<1>. QED  BY <1>1, <1>2 DEF EveryCallCounted

\* Below an outermost account middleware, no other layer is the first.
LEMMA AccountIsOutermost ==
    ASSUME Inv, NEW c \in Calls, pc[c] \in {"down", "up"}, at[c] > 0, Layer(c) # "account",
           Places(entry[c], "account") = {1}
    PROVE  at[c] > 1
<1>1. stack[entry[c]] \in Stacks /\ at[c] \in Nat /\ Len(stack[entry[c]]) \in Nat
  BY CallFacts DEF Inv, TypeOK
<1>2. 1 \in DOMAIN stack[entry[c]] /\ stack[entry[c]][1] = "account"
  BY DEF Places
<1>3. 1 <= Len(stack[entry[c]])
  BY <1>1, <1>2, StackFacts
<1>4. at[c] # 1
  BY <1>2, <1>3 DEF Layer
<1>. QED  BY <1>1, <1>4

\* A response that leaves another layer than account upwards.
LEMMA UpKeepsCount ==
    ASSUME Inv, Inv', EveryCallCounted, NEW c \in Calls, NEW s,
           pc[c] \in {"down", "up"}, at[c] > 0, Layer(c) # "account", UpTo(c, at[c] - 1, s),
           UNCHANGED <<callFrame, totals>>
    PROVE  EveryCallCounted'
<1>1. /\ pc'[c] = "up" /\ at'[c] = at[c] - 1 /\ entry' = entry /\ UNCHANGED stack
      /\ \A d \in Calls : d # c => pc'[d] = pc[d] /\ at'[d] = at[d]
  BY DEF UpTo, callFrame, handleVars, Inv, TypeOK
<1>2. ASSUME NEW p \in Pipelines, Places(p, "account") = {1}
      PROVE  c \in Passed(p, 1)' <=> c \in Passed(p, 1)
  <2>1. CASE entry[c] # p
    BY <1>1, <2>1 DEF Passed
  <2>2. CASE entry[c] = p
    <3>1. at[c] > 1 /\ at[c] \in Nat
      BY <1>2, <2>2, AccountIsOutermost DEF Inv, TypeOK
    <3>2. ~(at[c] < 1) /\ ~(at[c] - 1 < 1)
      BY <3>1
    <3>. QED  BY <1>1, <3>2 DEF Passed
  <2>. QED  BY <2>1, <2>2
<1>. QED  BY <1>1, <1>2, CountedFrame

LEMMA AccountUpKeepsCount ==
    ASSUME Inv, Inv', EveryCallCounted, NEW c \in Calls, AccountUp(c)
    PROVE  EveryCallCounted'
<1> DEFINE q == entry[c]
<1>1. /\ pc[c] = "up" /\ pc'[c] = "up" /\ at[c] \in Nat /\ at[c] > 0 /\ at'[c] = at[c] - 1
      /\ entry' = entry /\ UNCHANGED stack
      /\ \A d \in Calls : d # c => pc'[d] = pc[d] /\ at'[d] = at[d]
  BY DEF AccountUp, UpTo, callFrame, handleVars, Inv, TypeOK
<1>2. /\ q \in Pipelines /\ totals'[q].calls = totals[q].calls + 1
      /\ \A p \in Pipelines : p # q => totals'[p] = totals[p]
  BY <1>1, CallFacts DEF AccountUp, Record, Inv, TypeOK
<1>3. SUFFICES ASSUME NEW p \in Pipelines, stack[p] # Nil, Places(p, "account") = {1}
               PROVE  totals'[p].calls = Cardinality(Answered(p)')
  BY <1>1 DEF EveryCallCounted, Places
<1>4. totals[p].calls = Cardinality(Answered(p))
  BY <1>3 DEF EveryCallCounted
<1>5. CASE p # q
  <2>1. c \in Passed(p, 1)' <=> c \in Passed(p, 1)
    BY <1>1, <1>5 DEF Passed
  <2>2. Answered(p)' = Answered(p)
    BY <1>1, <2>1, SamePassed, AnsweredIsPassed, AnsweredIsPassedNext DEF Inv
  <2>. QED  BY <1>2, <1>4, <1>5, <2>2
<1>6. CASE p = q
  <2>1. at[c] = 1
    <3>1. at[c] \in DOMAIN stack[q] /\ stack[q][at[c]] = "account"
      BY <1>1, CallFacts, StackFacts DEF AccountUp, Layer
    <3>. QED  BY <1>3, <1>6, <3>1 DEF Places
  <2>2. c \notin Answered(p) /\ c \in Answered(p)'
    BY <1>1, <1>6, <2>1 DEF Answered
  <2>3. \A d \in Calls : d # c => (d \in Answered(p)' <=> d \in Answered(p))
    BY <1>1 DEF Answered
  <2>4. Answered(p)' = Answered(p) \cup {c}
    BY <2>2, <2>3 DEF Answered
  <2>5. Cardinality(Answered(p) \cup {c}) = Cardinality(Answered(p)) + 1
    BY <2>2, AnsweredIsFinite, FS_AddElement
  <2>. QED  BY <1>2, <1>4, <1>6, <2>4, <2>5
<1>. QED  BY <1>5, <1>6

\* Nothing has been counted, and no call has been answered, before a pipeline is.
LEMMA CreateKeepsCount ==
    ASSUME Inv, CountInv, NEW q \in Pipelines, NEW mws \in Stacks, Create(q, mws)
    PROVE  EveryCallCounted'
<1>1. \A p \in Pipelines : Answered(p)' = Answered(p)
  BY DEF Answered, Create
<1>2. SUFFICES ASSUME NEW p \in Pipelines, stack'[p] # Nil, Places(p, "account")' = {1}
               PROVE  totals[p].calls = Cardinality(Answered(p))
  BY <1>1 DEF EveryCallCounted, Create
<1>3. CASE p = q
  <2>1. handle[q] = 0 /\ stack[q] = Nil
    BY DEF Create, Inv, RegistryInv
  <2>2. Answered(q) = {}
    BY <2>1, EnteredIsBuilt DEF Answered, Running
  <2>3. totals[q].calls = 0
    BY <2>1 DEF CountInv
  <2>. QED  BY <1>3, <2>2, <2>3, FS_EmptySet
<1>4. CASE p # q
  <2>1. stack'[p] = stack[p]
    BY <1>4 DEF Create, Inv, TypeOK
  <2>. QED  BY <1>2, <2>1 DEF CountInv, EveryCallCounted, Places
<1>. QED  BY <1>3, <1>4

\* A step in which no response moves.
LEMMA QuietKeepsCount ==
    ASSUME EveryCallCounted, UNCHANGED <<stack, totals>>,
           \A c \in Calls : /\ pc'[c] \in {"up", "returned"} <=> pc[c] \in {"up", "returned"}
                            /\ pc[c] \in {"up", "returned"} =>
                                  /\ entry'[c] = entry[c]
                                  /\ pc'[c] = "returned" \/ (pc'[c] = "up" /\ at'[c] = 0)
                                       <=> pc[c] = "returned" \/ (pc[c] = "up" /\ at[c] = 0)
    PROVE  EveryCallCounted'
<1>1. \A p \in Pipelines : Answered(p)' = Answered(p)
  BY DEF Answered
<1>. QED  BY <1>1 DEF EveryCallCounted, Places

LEMMA NextKeepsCounted ==
    ASSUME Inv, Inv', CountInv, [Next]_vars
    PROVE  EveryCallCounted'
<1>. USE DEF Inv, CountInv
<1>1. ASSUME NEW p \in Pipelines, NEW mws \in Stacks, Create(p, mws)
      PROVE  EveryCallCounted'
  BY <1>1, CreateKeepsCount
<1>2. ASSUME NEW t \in Closers, Closer(t)
      PROVE  EveryCallCounted'
  BY <1>2, QuietKeepsCount DEF Closer, Close, FreePipeline, Closed
<1>3. ASSUME NEW c \in Calls, Call(c)
      PROVE  EveryCallCounted'
  <2>1. ASSUME pc[c] \in {"idle", "lookup", "stats", "down"},
               pc' = [pc EXCEPT ![c] = pc'[c]],
               pc'[c] \in {"lookup", "stats", "told", "refused", "down"},
               entry' = [entry EXCEPT ![c] = entry'[c]], at' = [at EXCEPT ![c] = at'[c]],
               UNCHANGED <<stack, totals>>
        PROVE  EveryCallCounted'
    BY <2>1, QuietKeepsCount DEF TypeOK
  <2>2. CASE \/ \E p \in Pipelines, h \in Hashes : Complete(c, p, h)
             \/ \E p \in Pipelines : Stats(c, p)
    BY <2>1, <2>2 DEF Complete, Stats, Start, handleVars, TypeOK
  <2>3. CASE Lookup(c) \/ Refuse(c) \/ ReadStats(c)
    BY <2>1, <2>3 DEF Lookup, Refuse, ReadStats, handleVars, TypeOK
  <2>4. CASE AccountDown(c) \/ DedupMiss(c)
    BY <2>1, <2>4 DEF AccountDown, DedupMiss, DownTo, callFrame, handleVars, TypeOK
  <2>5. CASE Provide(c)
    <3>1. at[c] > 0
      BY <2>5, CallFacts DEF Provide
    <3>. QED  BY <2>5, <3>1, UpKeepsCount DEF Provide
  <2>6. CASE DedupHit(c)
    <3>1. at[c] > 0
      BY <2>6, CallFacts DEF DedupHit
    <3>. QED  BY <2>6, <3>1, UpKeepsCount DEF DedupHit
  <2>7. CASE DedupUp(c)
    BY <2>7, UpKeepsCount DEF DedupUp
  <2>8. CASE AccountUp(c)
    BY <2>8, AccountUpKeepsCount
  <2>9. CASE Return(c)
    BY <2>9, QuietKeepsCount DEF Return, callFrame, handleVars, TypeOK
  <2>. QED  BY <1>3, <2>2, <2>3, <2>4, <2>5, <2>6, <2>7, <2>8, <2>9 DEF Call
<1>4. ASSUME NEW k \in DOMAIN cache, Expire(k)
      PROVE  EveryCallCounted'
  BY <1>4, QuietKeepsCount DEF Expire, callFrame, handleVars
<1>5. CASE UNCHANGED vars
  BY <1>5, QuietKeepsCount DEF vars, handleVars
<1>. QED  BY <1>1, <1>2, <1>3, <1>4, <1>5 DEF Next, Finished

\* What a step does to what stats() knows.
LEMMA KnownChanges ==
    ASSUME Inv, [Next]_vars, NEW c \in Calls
    PROVE  \/ /\ known'[c] = known[c] /\ owner'[c] = owner[c]
              /\ pc'[c] = "idle" => pc[c] = "idle"
              /\ pc'[c] \in {"lookup", "stats"} => pc[c] \in {"lookup", "stats"}
           \/ /\ pc[c] = "idle" /\ pc'[c] = "lookup" /\ owner'[c] \in Pipelines
              /\ known'[c] \in {known[c], Cardinality(Answered(owner'[c]))}
<1>. USE DEF Inv, TypeOK
<1> DEFINE Old == /\ known'[c] = known[c] /\ owner'[c] = owner[c]
                  /\ pc'[c] = "idle" => pc[c] = "idle"
                  /\ pc'[c] \in {"lookup", "stats"} => pc[c] \in {"lookup", "stats"}
           New == /\ pc[c] = "idle" /\ pc'[c] = "lookup" /\ owner'[c] \in Pipelines
                  /\ known'[c] \in {known[c], Cardinality(Answered(owner'[c]))}
<1>1. ASSUME NEW p \in Pipelines, NEW mws \in Stacks, Create(p, mws)
      PROVE  Old
  BY <1>1 DEF Create, requestVars, statsVars
<1>2. ASSUME NEW t \in Closers, Closer(t)
      PROVE  Old
  BY <1>2 DEF Closer, Close, FreePipeline, Closed, requestVars, statsVars
<1>3. ASSUME NEW d \in Calls, NEW p \in Pipelines, NEW h \in Hashes, Complete(d, p, h)
      PROVE  Old \/ New
  BY <1>3 DEF Complete, Start, statsVars
<1>4. ASSUME NEW d \in Calls, NEW p \in Pipelines, Stats(d, p)
      PROVE  Old \/ New
  BY <1>4 DEF Stats, Start
<1>5. ASSUME NEW d \in Calls,
             \/ Lookup(d) \/ Refuse(d) \/ ReadStats(d) \/ Provide(d) \/ AccountDown(d)
             \/ DedupMiss(d) \/ DedupHit(d) \/ DedupUp(d) \/ AccountUp(d) \/ Return(d)
      PROVE  Old
  BY <1>5 DEF Lookup, Refuse, ReadStats, Provide, AccountDown, DedupMiss, DedupHit, DedupUp,
              AccountUp, Return, DownTo, UpTo, callFrame, requestVars, statsVars
<1>6. ASSUME NEW k \in DOMAIN cache, Expire(k)
      PROVE  Old
  BY <1>6 DEF Expire, callFrame, requestVars, statsVars
<1>7. CASE UNCHANGED vars
  BY <1>7 DEF vars, requestVars, statsVars
<1>. QED  BY <1>1, <1>2, <1>3, <1>4, <1>5, <1>6, <1>7 DEF Next, Call, Finished

\* Only a pipeline that a call is in, which is built, counts.
LEMMA UnbuiltKeepsZero ==
    ASSUME Inv, CountInv, [Next]_vars, NEW p \in Pipelines, stack'[p] = Nil
    PROVE  totals'[p] = [calls |-> 0, saved |-> 0]
<1>. USE DEF Inv, TypeOK
<1>1. ASSUME NEW q \in Pipelines, NEW mws \in Stacks, Create(q, mws)
      PROVE  stack[p] = Nil /\ totals' = totals
  BY <1>1, StackFacts DEF Create
<1>2. ASSUME NEW t \in Closers, Closer(t)
      PROVE  UNCHANGED <<stack, totals>>
  BY <1>2 DEF Closer, Close, FreePipeline, Closed
<1>3. ASSUME NEW c \in Calls, Call(c), ~AccountUp(c)
      PROVE  UNCHANGED <<stack, totals>>
  BY <1>3 DEF Call, Complete, Stats, Lookup, Refuse, ReadStats, Provide, AccountDown,
              DedupMiss, DedupHit, DedupUp, Return, callFrame, handleVars
<1>4. ASSUME NEW c \in Calls, AccountUp(c)
      PROVE  stack' = stack /\ (stack[p] = Nil => totals'[p] = totals[p])
  <2>1. stack[entry[c]] # Nil
    BY <1>4, CallFacts, StackFacts DEF AccountUp
  <2>. QED  BY <1>4, <2>1 DEF AccountUp, callFrame, handleVars
<1>5. ASSUME NEW k \in DOMAIN cache, Expire(k)
      PROVE  UNCHANGED <<stack, totals>>
  BY <1>5 DEF Expire, callFrame, handleVars
<1>6. CASE UNCHANGED vars
  BY <1>6 DEF vars, handleVars, CountInv
<1>. QED  BY <1>1, <1>2, <1>3, <1>4, <1>5, <1>6 DEF Next, Finished, CountInv

LEMMA NextKeepsCount ==
    ASSUME Inv, Inv', CountInv, [Next]_vars
    PROVE  CountInv'
<1>1. ASSUME NEW c \in Calls
      PROVE  /\ pc'[c] = "idle" => known'[c] = 0
             /\ \A p : p = owner'[c] /\ pc'[c] \in {"lookup", "stats"} =>
                         known'[c] <= Cardinality(Answered(p)')
  <2>1. known[c] \in Nat /\ known'[c] \in Nat
    BY DEF Inv, TypeOK
  <2>2. CASE /\ known'[c] = known[c] /\ owner'[c] = owner[c]
             /\ pc'[c] = "idle" => pc[c] = "idle"
             /\ pc'[c] \in {"lookup", "stats"} => pc[c] \in {"lookup", "stats"}
    <3>1. pc'[c] = "idle" => known'[c] = 0
      BY <2>2 DEF CountInv
    <3>2. ASSUME NEW p, p = owner'[c], pc'[c] \in {"lookup", "stats"}
          PROVE  known'[c] <= Cardinality(Answered(p)')
      <4>1. known'[c] <= Cardinality(Answered(p))
        BY <2>2, <3>2 DEF CountInv
      <4>2. Cardinality(Answered(p)) \in Nat /\ Cardinality(Answered(p)') \in Nat
        <5>1. Answered(p)' \in SUBSET Calls
          BY DEF Answered
        <5>. QED  BY <5>1, AnsweredIsFinite, LargerSet, PipelinesAssumption
      <4>. QED  BY <2>1, <4>1, <4>2, AnsweredGrows
    <3>. QED  BY <3>1, <3>2
  <2>3. CASE /\ pc[c] = "idle" /\ pc'[c] = "lookup" /\ owner'[c] \in Pipelines
             /\ known'[c] \in {known[c], Cardinality(Answered(owner'[c]))}
    <3>1. known[c] = 0
      BY <2>3 DEF CountInv
    <3>2. ASSUME NEW p, p = owner'[c]
          PROVE  known'[c] <= Cardinality(Answered(p)')
      <4>1. Cardinality(Answered(p)) \in Nat /\ Cardinality(Answered(p)') \in Nat
        <5>1. Answered(p)' \in SUBSET Calls
          BY DEF Answered
        <5>. QED  BY <5>1, AnsweredIsFinite, LargerSet, PipelinesAssumption
      <4>. QED  BY <2>3, <3>1, <3>2, <4>1, AnsweredGrows
    <3>. QED  BY <2>3, <3>2
  <2>. QED  BY <2>2, <2>3, KnownChanges
<1>2. \A c \in Calls : (pc[c] \in {"lookup", "stats"} =>
                          known[c] <= Cardinality(Answered(owner[c])))'
  BY <1>1 DEF Answered
<1>3. \A c \in Calls : (pc[c] = "idle" => known[c] = 0)'
  BY <1>1
<1>4. \A p \in Pipelines : (stack[p] = Nil => totals[p] = [calls |-> 0, saved |-> 0])'
  BY UnbuiltKeepsZero
<1>. QED  BY <1>2, <1>3, <1>4, NextKeepsCounted DEF CountInv

LEMMA InitSetsCount ==
    ASSUME Init
    PROVE  CountInv
<1>1. \A p \in Pipelines : Answered(p) = {}
  BY DEF Init, Answered
<1>2. \A c \in Calls : pc[c] = "idle" /\ known[c] = 0
  BY DEF Init
<1>3. \A p \in Pipelines : stack[p] = Nil /\ totals[p] = [calls |-> 0, saved |-> 0]
  BY DEF Init
<1>. QED  BY <1>1, <1>2, <1>3 DEF CountInv, EveryCallCounted

LEMMA CountInvariance == Spec => [](Inv /\ CountInv)
<1>1. Init => CountInv
  BY InitSetsCount
<1>2. Inv /\ Inv' /\ CountInv /\ [Next]_vars => CountInv'
  BY NextKeepsCount
<1>. QED  BY <1>1, <1>2, Invariance, PTL DEF Spec

\* The stats of a pipeline with account outermost count the calls that were
\* answered, however many run at a time.
THEOREM CallsCounted == Spec => []EveryCallCounted
<1>1. CountInv => EveryCallCounted
  BY DEF CountInv
<1>. QED  BY <1>1, CountInvariance, PTL

\* What stats() tells lies between what was answered when it began and what is now.
THEOREM StatsTellTheCalls == Spec => StatsAreCurrent
<1>1. ASSUME Inv, CountInv, [Next]_vars, NEW c \in Calls,
             pc[c] = "stats", pc'[c] = "told", Places(owner[c], "account") = {1}
      PROVE  told'[c] \in known[c] .. Cardinality(Answered(owner[c]))
  <2>1. ReadStats(c)
    <3>1. ASSUME NEW d \in Calls, Call(d)
          PROVE  ReadStats(d) /\ d = c
      BY <1>1, <3>1 DEF Call, Complete, Stats, Start, Lookup, Refuse, ReadStats, Provide,
                        AccountDown, DedupMiss, DedupHit, DedupUp, AccountUp, Return, DownTo, UpTo,
                        Inv, TypeOK
    <3>2. ~UNCHANGED pc
      BY <1>1
    <3>. QED  BY <1>1, <3>1, <3>2 DEF Next, Create, Closer, Close, FreePipeline, Closed, Expire,
                                      Finished, vars
  <2>2. entry[c] \in Pipelines /\ stack[entry[c]] # Nil /\ entry[c] = owner[c]
    BY <1>1, StackFacts DEF Inv, EnteredInv, OwnPipeline, Reading
  <2>3. told'[c] = Cardinality(Answered(owner[c]))
    BY <1>1, <2>1, <2>2 DEF ReadStats, CountInv, EveryCallCounted, Inv, TypeOK
  <2>4. /\ known[c] <= Cardinality(Answered(owner[c])) /\ known[c] \in Nat
        /\ Cardinality(Answered(owner[c])) \in Nat
    BY <1>1, AnsweredIsFinite DEF CountInv, Inv, TypeOK
  <2>. QED  BY <2>3, <2>4
<1>2. (Inv /\ CountInv) /\ [Next]_vars =>
        [\A c \in Calls : pc[c] = "stats" /\ pc'[c] = "told" =>
            LET p == owner[c]
            IN  Places(p, "account") = {1} =>
                    told'[c] \in known[c] .. Cardinality(Answered(p))]_vars
  BY <1>1
<1>. QED  BY <1>2, CountInvariance, PTL DEF Spec, StatsAreCurrent

-----------------------------------------------------------------------------
\* Savings, for stacks with one dedup middleware or none.

OneDedup ==
    \A mws \in Stacks : \A j, k \in DOMAIN mws : mws[j] = "dedup" /\ mws[k] = "dedup" => j = k

\* What is stored was paid for in full; what a call saves it saves by a hit, above
\* which there is no other dedup, and then no provider was asked.
SavedInv ==
    /\ \A k \in DOMAIN cache : cache[k] = 0
    /\ \A c \in Calls :
          /\ saved[c] \in {0, 1}
          /\ saved[c] = 1 => c \notin billed
          /\ c \in billed => pc[c] \in {"up", "returned"}
          /\ pc[c] = "up" /\ saved[c] = 1 =>
                \E j \in DOMAIN stack[entry[c]] : stack[entry[c]][j] = "dedup" /\ at[c] < j

\* The savings recorded are those of calls that have passed the account middleware
\* and that no provider was paid for.
SumInv ==
    \A p \in Pipelines, k \in Nat : stack[p] # Nil /\ Places(p, "account") = {k} =>
        totals[p].saved <= Cardinality(Passed(p, k) \ billed)

LEMMA CreateKeepsSaved ==
    ASSUME Inv, SavedInv, NEW q \in Pipelines, NEW mws \in Stacks, Create(q, mws)
    PROVE  SavedInv'
<1>1. \A c \in Calls : Running(c) => stack'[entry[c]] = stack[entry[c]]
  BY EnteredIsBuilt DEF Create, Inv, TypeOK
<1>. QED  BY <1>1 DEF SavedInv, Create, Running

\* A call that goes up a layer, with what it saved below or by a hit there.
LEMMA UpKeepsSaved ==
    ASSUME Inv, SavedInv, NEW c \in Calls, NEW s \in {0, 1},
           pc[c] \in {"down", "up"}, at[c] > 0, UpTo(c, at[c] - 1, s), UNCHANGED callFrame,
           \A k \in DOMAIN cache' : cache'[k] = 0,
           billed' = billed \/ (billed' = billed \cup {c} /\ s = 0),
           s = 1 => \/ pc[c] = "up" /\ saved[c] = 1
                    \/ pc[c] = "down" /\ billed' = billed /\ Layer(c) = "dedup"
    PROVE  SavedInv'
<1>0. DOMAIN stack[entry[c]] \subseteq Nat
  BY CallFacts, StackFacts
<1>. USE DEF Inv, TypeOK
<1>1. /\ pc'[c] = "up" /\ at'[c] = at[c] - 1 /\ at[c] \in Nat /\ saved'[c] = s
      /\ entry' = entry /\ stack' = stack
      /\ \A d \in Calls : d # c =>
            /\ pc'[d] = pc[d] /\ at'[d] = at[d] /\ saved'[d] = saved[d]
            /\ d \in billed' <=> d \in billed
  BY DEF UpTo, callFrame, handleVars
<1>2. SUFFICES ASSUME NEW d \in Calls
      PROVE  /\ saved'[d] \in {0, 1}
             /\ saved'[d] = 1 => d \notin billed'
             /\ d \in billed' => pc'[d] \in {"up", "returned"}
             /\ pc'[d] = "up" /\ saved'[d] = 1 =>
                   \E j \in DOMAIN stack[entry[d]] :
                       stack[entry[d]][j] = "dedup" /\ at'[d] < j
  BY <1>1 DEF SavedInv
<1>3. CASE d # c
  BY <1>1, <1>3 DEF SavedInv
<1>4. CASE d = c
  <2>1. saved[c] = 1 => c \notin billed
    BY DEF SavedInv
  <2>2. pc[c] = "down" => c \notin billed
    BY DEF SavedInv
  <2>3. s = 1 => c \notin billed'
    BY <2>1, <2>2
  <2>4. ASSUME s = 1
        PROVE  \E j \in DOMAIN stack[entry[c]] :
                   stack[entry[c]][j] = "dedup" /\ at[c] - 1 < j
    <3>1. CASE pc[c] = "up" /\ saved[c] = 1
      <4>1. PICK j \in DOMAIN stack[entry[c]] : stack[entry[c]][j] = "dedup" /\ at[c] < j
        BY <3>1 DEF SavedInv
      <4>2. j \in Nat
        BY <1>0
      <4>. QED  BY <1>1, <4>1, <4>2
    <3>2. CASE pc[c] = "down" /\ Layer(c) = "dedup"
      <4>1. at[c] \in 1 .. Len(stack[entry[c]]) + 1
        BY <3>2, CallFacts
      <4>2. Len(stack[entry[c]]) \in Nat /\ DOMAIN stack[entry[c]] = 1 .. Len(stack[entry[c]])
        BY CallFacts, StackFacts
      <4>3. ~(at[c] > Len(stack[entry[c]])) /\ stack[entry[c]][at[c]] = "dedup"
        BY <3>2 DEF Layer
      <4>. QED  BY ONLY <4>1, <4>2, <4>3
    <3>. QED  BY <2>4, <3>1, <3>2
  <2>. QED  BY <1>1, <1>4, <2>3, <2>4
<1>. QED  BY <1>3, <1>4

LEMMA ProvideKeepsSaved ==
    ASSUME Inv, SavedInv, NEW c \in Calls, Provide(c)
    PROVE  SavedInv'
<1>1. pc[c] = "down" /\ at[c] > 0 /\ UpTo(c, at[c] - 1, 0) /\ UNCHANGED callFrame
  BY CallFacts DEF Provide
<1>2. /\ billed' = billed \/ (billed' = billed \cup {c} /\ 0 = 0)
      /\ \A k \in DOMAIN cache' : cache'[k] = 0
  BY DEF Provide, SavedInv
<1>. QED  BY <1>1, <1>2, UpKeepsSaved

\* A step in which no response moves.
LEMMA QuietKeepsSaved ==
    ASSUME SavedInv, UNCHANGED <<stack, saved, billed>>,
           \A k \in DOMAIN cache' : cache'[k] = 0,
           \A c \in Calls :
              /\ pc[c] \in {"up", "returned"} => pc'[c] \in {"up", "returned"}
              /\ pc'[c] = "up" => pc[c] = "up" /\ at'[c] = at[c] /\ entry'[c] = entry[c]
    PROVE  SavedInv'
BY DEF SavedInv

LEMMA NextKeepsSaved ==
    ASSUME OneDedup, Inv, SavedInv, [Next]_vars
    PROVE  SavedInv'
<1>0. \A c \in Calls : pc[c] = "down" => at[c] > 0
  BY CallFacts
<1>. USE DEF Inv, TypeOK
<1>1. ASSUME NEW p \in Pipelines, NEW mws \in Stacks, Create(p, mws)
      PROVE  SavedInv'
  BY <1>1, CreateKeepsSaved
<1>2. ASSUME NEW t \in Closers, Closer(t)
      PROVE  SavedInv'
  BY <1>2, QuietKeepsSaved DEF Closer, Close, FreePipeline, Closed, SavedInv
<1>3. ASSUME NEW c \in Calls, Call(c)
      PROVE  SavedInv'
  <2>0. saved[c] \in {0, 1} /\ \A k \in DOMAIN cache : cache[k] = 0
    BY DEF SavedInv
  <2>2. CASE \/ \E p \in Pipelines, h \in Hashes : Complete(c, p, h)
             \/ \E p \in Pipelines : Stats(c, p)
    BY <2>0, <2>2, QuietKeepsSaved DEF Complete, Stats, Start, handleVars
  <2>3. CASE Lookup(c) \/ Refuse(c) \/ ReadStats(c)
    BY <2>0, <2>3, QuietKeepsSaved DEF Lookup, Refuse, ReadStats, handleVars
  <2>4. CASE AccountDown(c) \/ DedupMiss(c)
    BY <2>0, <2>4, QuietKeepsSaved DEF AccountDown, DedupMiss, DownTo, callFrame, handleVars
  <2>5. CASE Provide(c)
    BY <2>5, ProvideKeepsSaved
  <2>6. CASE DedupHit(c)
    <3>1. at[c] > 0
      BY <1>0, <2>6 DEF DedupHit
    <3>2. UpTo(c, at[c] - 1, 1)
      BY <2>0, <2>6 DEF DedupHit
    <3>. QED  BY <2>0, <2>6, <3>1, <3>2, UpKeepsSaved DEF DedupHit
  <2>7. CASE DedupUp(c)
    <3>1. at[c] \in DOMAIN stack[entry[c]] /\ stack[entry[c]][at[c]] = "dedup"
      BY <2>7, CallFacts, StackFacts DEF DedupUp, Layer
    <3>2. saved[c] # 1
      <4>1. SUFFICES ASSUME saved[c] = 1
                     PROVE  FALSE
        OBVIOUS
      <4>2. PICK j \in DOMAIN stack[entry[c]] : stack[entry[c]][j] = "dedup" /\ at[c] < j
        BY <2>7, <4>1 DEF SavedInv, DedupUp
      <4>3. j = at[c]
        BY <2>7, <3>1, <4>2, CallFacts DEF OneDedup, DedupUp
      <4>. QED  BY <4>2, <4>3
    <3>3. \A k \in DOMAIN cache' : cache'[k] = 0
      BY <2>0, <2>7, <3>2 DEF DedupUp, Assign
    <3>. QED  BY <2>0, <2>7, <3>2, <3>3, UpKeepsSaved DEF DedupUp
  <2>8. CASE AccountUp(c)
    BY <2>0, <2>8, UpKeepsSaved DEF AccountUp
  <2>9. CASE Return(c)
    BY <2>0, <2>9, QuietKeepsSaved DEF Return, callFrame, handleVars
  <2>. QED  BY <1>3, <2>2, <2>3, <2>4, <2>5, <2>6, <2>7, <2>8, <2>9 DEF Call
<1>4. ASSUME NEW k \in DOMAIN cache, Expire(k)
      PROVE  SavedInv'
  <2>1. \A j \in DOMAIN cache' : cache'[j] = 0
    BY <1>4 DEF Expire, Remove, Restrict, SavedInv
  <2>. QED  BY <1>4, <2>1, QuietKeepsSaved DEF Expire, callFrame, handleVars
<1>5. CASE UNCHANGED vars
  BY <1>5, QuietKeepsSaved DEF vars, handleVars, SavedInv
<1>. QED  BY <1>1, <1>2, <1>3, <1>4, <1>5 DEF Next, Finished

\* What has passed has passed, and what was not paid for then is not later on.
Passing ==
    \A c \in Calls : pc[c] \in {"up", "returned"} =>
        /\ entry'[c] = entry[c]
        /\ c \in billed' => c \in billed
        /\ pc'[c] = "returned" \/ (pc[c] = "up" /\ pc'[c] = "up" /\ at'[c] <= at[c])

LEMMA PassedGrows ==
    ASSUME Inv, Inv', Passing, NEW p, NEW k \in Nat
    PROVE  /\ Passed(p, k) \ billed \subseteq (Passed(p, k) \ billed)'
           /\ IsFiniteSet((Passed(p, k) \ billed)')
           /\ Cardinality(Passed(p, k) \ billed) \in Nat
           /\ Cardinality((Passed(p, k) \ billed)') \in Nat
           /\ Cardinality(Passed(p, k) \ billed) <= Cardinality((Passed(p, k) \ billed)')
<1>1. \A c \in Calls : at[c] \in Nat /\ at'[c] \in Nat
  BY DEF Inv, TypeOK
<1>2. Passed(p, k) \ billed \subseteq (Passed(p, k) \ billed)'
  BY <1>1 DEF Passing, Passed
<1>3. (Passed(p, k) \ billed)' \in SUBSET Calls
  BY DEF Passed
<1>4. IsFiniteSet((Passed(p, k) \ billed)')
  BY <1>3, FS_Subset, PipelinesAssumption
<1>. QED  BY <1>2, <1>4, LargerSet

LEMMA PassingKeepsSum ==
    ASSUME Inv, Inv', SumInv, Passing, UNCHANGED <<stack, totals>>
    PROVE  SumInv'
<1>1. SUFFICES ASSUME NEW p \in Pipelines, NEW k \in Nat,
                      stack[p] # Nil, Places(p, "account") = {k}
               PROVE  totals[p].saved <= Cardinality((Passed(p, k) \ billed)')
  BY DEF SumInv, Places
<1>2. totals[p].saved <= Cardinality(Passed(p, k) \ billed) /\ totals[p].saved \in Nat
  BY <1>1 DEF SumInv, Inv, TypeOK
<1>3. /\ Cardinality(Passed(p, k) \ billed) \in Nat
      /\ Cardinality((Passed(p, k) \ billed)') \in Nat
      /\ Cardinality(Passed(p, k) \ billed) <= Cardinality((Passed(p, k) \ billed)')
  BY ONLY PassedGrows, Inv, Inv', Passing, k \in Nat
<1>. QED  BY ONLY <1>2, <1>3

LEMMA CreateKeepsSum ==
    ASSUME Inv, Inv', CountInv, SumInv, NEW q \in Pipelines, NEW mws \in Stacks, Create(q, mws)
    PROVE  SumInv'
<1>1. Passing /\ totals' = totals
  BY DEF Passing, Create, Inv, TypeOK
<1>2. SUFFICES ASSUME NEW p \in Pipelines, NEW k \in Nat,
                      stack'[p] # Nil, Places(p, "account")' = {k}
               PROVE  totals[p].saved <= Cardinality((Passed(p, k) \ billed)')
  BY <1>1 DEF SumInv
<1>3. CASE p = q
  <2>1. totals[q].saved = 0
    BY DEF Create, Inv, RegistryInv, CountInv
  <2>2. Cardinality((Passed(p, k) \ billed)') \in Nat
    BY <1>1, PassedGrows
  <2>. QED  BY <1>3, <2>1, <2>2
<1>4. CASE p # q
  <2>1. stack'[p] = stack[p]
    BY <1>4 DEF Create, Inv, TypeOK
  <2>2. totals[p].saved <= Cardinality(Passed(p, k) \ billed) /\ totals[p].saved \in Nat
    BY <1>2, <2>1 DEF SumInv, Places, Inv, TypeOK
  <2>3. /\ Cardinality(Passed(p, k) \ billed) \in Nat
        /\ Cardinality((Passed(p, k) \ billed)') \in Nat
        /\ Cardinality(Passed(p, k) \ billed) <= Cardinality((Passed(p, k) \ billed)')
    BY ONLY <1>1, PassedGrows, Inv, Inv', k \in Nat
  <2>. QED  BY ONLY <2>2, <2>3
<1>. QED  BY <1>3, <1>4

\* What a call saved is recorded once, when it passes the account middleware.
LEMMA AccountUpKeepsSum ==
    ASSUME Inv, Inv', SavedInv, SumInv, NEW c \in Calls, AccountUp(c)
    PROVE  SumInv'
<1> DEFINE q == entry[c]
<1>1. /\ pc[c] = "up" /\ pc'[c] = "up" /\ at[c] \in Nat /\ at[c] > 0 /\ at'[c] = at[c] - 1
      /\ entry' = entry /\ stack' = stack /\ billed' = billed
      /\ \A d \in Calls : d # c => pc'[d] = pc[d] /\ at'[d] = at[d]
  BY DEF AccountUp, UpTo, callFrame, handleVars, Inv, TypeOK
<1>2. Passing
  <2>1. \A d \in Calls : at[d] \in Nat
    BY DEF Inv, TypeOK
  <2>. QED  BY ONLY <1>1, <2>1 DEF Passing
<1>3. /\ q \in Pipelines /\ totals'[q].saved = totals[q].saved + saved[c]
      /\ \A p \in Pipelines : p # q => totals'[p] = totals[p]
  BY <1>1, CallFacts DEF AccountUp, Record, Inv, TypeOK
<1>4. SUFFICES ASSUME NEW p \in Pipelines, NEW k \in Nat,
                      stack[p] # Nil, Places(p, "account") = {k}
               PROVE  totals'[p].saved <= Cardinality((Passed(p, k) \ billed)')
  BY <1>1 DEF SumInv, Places
<1> DEFINE U == Passed(p, k) \ billed
<1>5. totals[p].saved <= Cardinality(U) /\ totals[p].saved \in Nat
  BY <1>4 DEF SumInv, Inv, TypeOK
<1>6. /\ U \subseteq U' /\ IsFiniteSet(U') /\ Cardinality(U) \in Nat
      /\ Cardinality(U') \in Nat /\ Cardinality(U) <= Cardinality(U')
  BY <1>2, PassedGrows
<1>7. CASE p # q \/ saved[c] = 0
  <2>1. totals'[p].saved = totals[p].saved
    BY <1>3, <1>5, <1>7
  <2>. QED  BY <1>5, <1>6, <2>1
<1>8. CASE p = q /\ saved[c] = 1
  <2>1. at[c] = k
    <3>1. at[c] \in DOMAIN stack[q] /\ stack[q][at[c]] = "account"
      BY <1>1, CallFacts, StackFacts DEF AccountUp, Layer
    <3>. QED  BY <1>4, <1>8, <3>1 DEF Places
  <2>2. c \notin U
    BY ONLY <1>1, <2>1 DEF Passed
  <2>3. c \in U'
    BY <1>1, <1>8, <2>1 DEF Passed, SavedInv
  <2>4. IsFiniteSet(U)
    BY <1>6, LargerSet
  <2>5. Cardinality(U \cup {c}) = Cardinality(U) + 1
    BY <2>2, <2>4, FS_AddElement
  <2>6. U \cup {c} \in SUBSET U'
    BY <1>6, <2>3
  <2>7. Cardinality(U \cup {c}) <= Cardinality(U')
    BY <1>6, <2>6, LargerSet
  <2>. QED  BY <1>3, <1>5, <1>6, <1>8, <2>5, <2>7
<1>9. saved[c] \in {0, 1}
  BY DEF SavedInv
<1>. QED  BY <1>7, <1>8, <1>9

LEMMA NextKeepsSum ==
    ASSUME Inv, Inv', CountInv, SavedInv, SumInv, [Next]_vars
    PROVE  SumInv'
<1>1. ASSUME NEW p \in Pipelines, NEW mws \in Stacks, Create(p, mws)
      PROVE  SumInv'
  BY <1>1, CreateKeepsSum
<1>2. ASSUME NEW c \in Calls, AccountUp(c)
      PROVE  SumInv'
  BY <1>2, AccountUpKeepsSum
<1>3. ASSUME NEW c \in Calls, Call(c), ~AccountUp(c)
      PROVE  SumInv'
  <2>1. UNCHANGED <<stack, totals>>
    BY <1>3 DEF Call, Complete, Stats, Lookup, Refuse, ReadStats, Provide, AccountDown,
                DedupMiss, DedupHit, DedupUp, Return, callFrame, handleVars
  <2>2. /\ c \in billed' => c \in billed \/ pc[c] = "down"
        /\ \A d \in Calls : d # c =>
              /\ pc'[d] = pc[d] /\ at'[d] = at[d] /\ entry'[d] = entry[d]
              /\ d \in billed' => d \in billed
    BY <1>3, ZenonT(60) DEF Call, Complete, Stats, Start, Lookup, Refuse, ReadStats, Provide, AccountDown,
                DedupMiss, DedupHit, DedupUp, Return, DownTo, UpTo, callFrame, Inv, TypeOK
  <2>3. pc[c] \in {"up", "returned"} =>
          /\ entry'[c] = entry[c]
          /\ pc'[c] = "returned" \/ (pc[c] = "up" /\ pc'[c] = "up" /\ at'[c] <= at[c])
    <3>1. pc[c] \in {"up", "returned"} => DedupUp(c) \/ Return(c)
      BY ONLY <1>3 DEF Call, Complete, Stats, Start, Lookup, Refuse, ReadStats, Provide,
                       AccountDown, DedupMiss, DedupHit
    <3>2. ASSUME DedupUp(c)
          PROVE  entry'[c] = entry[c] /\ pc[c] = "up" /\ pc'[c] = "up" /\ at'[c] <= at[c]
      BY <3>2 DEF DedupUp, UpTo, callFrame, Inv, TypeOK
    <3>3. ASSUME Return(c)
          PROVE  entry'[c] = entry[c] /\ pc'[c] = "returned"
      BY <3>3 DEF Return, callFrame, Inv, TypeOK
    <3>. QED  BY <3>1, <3>2, <3>3
  <2>4. \A d \in Calls : at[d] \in Nat
    BY DEF Inv, TypeOK
  <2>5. Passing
    BY ONLY <2>2, <2>3, <2>4, pc[c] \in {"up", "returned"} => pc[c] # "down" DEF Passing
  <2>. QED  BY <2>1, <2>5, PassingKeepsSum
<1>4. ASSUME UNCHANGED <<stack, totals, entry, pc, at, billed>>
      PROVE  SumInv'
  <2>1. Passing
    BY <1>4 DEF Passing, Inv, TypeOK
  <2>. QED  BY <1>4, <2>1, PassingKeepsSum
<1>. QED  BY <1>1, <1>2, <1>3, <1>4 DEF Next, Closer, Close, FreePipeline, Closed, Expire,
                                        Finished, vars, callFrame, handleVars

\* With one account and at most one dedup middleware per stack, a pipeline reports no
\* more tokens as saved than were not paid for, however many calls overlap.
THEOREM SavingsReal ==
    ASSUME OneDedup
    PROVE  Spec => []SavingsAreReal
<1>1. Init => SavedInv /\ SumInv
  BY DEF Init, SavedInv, SumInv
<1>2. Inv /\ Inv' /\ CountInv /\ SavedInv /\ SumInv /\ [Next]_vars => SavedInv' /\ SumInv'
  BY OneDedup, NextKeepsSaved, NextKeepsSum
<1>3. Inv /\ SumInv => SavingsAreReal
  <2>1. SUFFICES ASSUME Inv, SumInv, NEW p \in Pipelines, stack[p] # Nil,
                        Cardinality(Places(p, "account")) = 1
        PROVE  totals[p].saved <= Cardinality({c \in Calls : entry[c] = p
                                            /\ pc[c] \in {"up", "returned"}} \ billed)
    BY DEF SavingsAreReal
  <2>2. Places(p, "account") \in SUBSET (1 .. Len(stack[p])) /\ Len(stack[p]) \in Nat
    BY <2>1, StackFacts DEF Places, Inv, TypeOK
  <2>3. IsFiniteSet(Places(p, "account"))
    <3>1. IsFiniteSet(1 .. Len(stack[p]))
      BY <2>2, FS_Interval
    <3>. QED  BY <2>2, <3>1, FS_Subset
  <2>4. PICK k : Places(p, "account") = {k}
    BY <2>1, <2>3, FS_Singleton
  <2>5. k \in Nat
    BY <2>2, <2>4
  <2> DEFINE S == Passed(p, k) \ billed
             T == {c \in Calls : entry[c] = p /\ pc[c] \in {"up", "returned"}} \ billed
  <2>6. totals[p].saved <= Cardinality(S) /\ totals[p].saved \in Nat
    BY <2>1, <2>4, <2>5 DEF SumInv, Inv, TypeOK
  <2>7. T \in SUBSET Calls /\ S \in SUBSET T
    BY DEF Passed
  <2>8. IsFiniteSet(T)
    BY <2>7, FS_Subset, PipelinesAssumption
  <2>9. Cardinality(S) <= Cardinality(T) /\ Cardinality(S) \in Nat /\ Cardinality(T) \in Nat
    BY <2>7, <2>8, LargerSet
  <2>. QED  BY <2>6, <2>9
<1>. QED  BY <1>1, <1>2, <1>3, CountInvariance, PTL DEF Spec

-----------------------------------------------------------------------------
\* Reuse, and the chain as one Provider, for any stacks.

HasTwin(p, h) == \E d \in billed : entry[d] = p /\ hash[d] = h

\* Nothing is stored that was not paid for, with the same request in the same
\* pipeline; ReusesItsOwn alone would allow a store that holds anything.
TwinInv ==
    /\ \A s \in DOMAIN cache : HasTwin(s[1], s[3])
    /\ \A c \in billed : pc[c] \in {"up", "returned"}
    /\ ReusesItsOwn

\* A call whose response has come up: it stays as it is, and a step by which it
\* comes up is the provider's answer or a hit.
Stays(c) ==
    /\ pc[c] \in {"up", "returned"} <=> pc'[c] \in {"up", "returned"}
    /\ pc[c] \in {"up", "returned"} => entry'[c] = entry[c] /\ hash'[c] = hash[c]
    /\ c \in billed' <=> c \in billed

LEMMA ComesUp ==
    ASSUME Inv, [Next]_vars, NEW c \in Calls
    PROVE  Stays(c) \/ Provide(c) \/ DedupHit(c)
<1>. USE DEF Inv, TypeOK
<1>1. ASSUME NEW p \in Pipelines, NEW mws \in Stacks, Create(p, mws)
      PROVE  Stays(c)
  BY <1>1 DEF Create, requestVars, Stays
<1>2. ASSUME NEW t \in Closers, Closer(t)
      PROVE  Stays(c)
  BY <1>2 DEF Closer, Close, FreePipeline, Closed, requestVars, Stays
<1>3. ASSUME NEW d \in Calls, NEW p \in Pipelines, NEW h \in Hashes, Complete(d, p, h)
      PROVE  Stays(c)
  BY <1>3 DEF Complete, Start, Stays
<1>4. ASSUME NEW d \in Calls, NEW p \in Pipelines, Stats(d, p)
      PROVE  Stays(c)
  BY <1>4 DEF Stats, Start, Stays
<1>5. ASSUME NEW d \in Calls, Lookup(d) \/ Refuse(d) \/ ReadStats(d)
      PROVE  Stays(c)
  BY <1>5 DEF Lookup, Refuse, ReadStats, requestVars, Stays
<1>6. ASSUME NEW d \in Calls, AccountDown(d) \/ DedupMiss(d)
      PROVE  Stays(c)
  BY <1>6 DEF AccountDown, DedupMiss, DownTo, callFrame, requestVars, Stays
<1>7. ASSUME NEW d \in Calls, DedupUp(d) \/ AccountUp(d) \/ Return(d)
      PROVE  Stays(c)
  BY <1>7 DEF DedupUp, AccountUp, Return, UpTo, callFrame, requestVars, Stays
<1>8. ASSUME NEW d \in Calls, Provide(d) \/ DedupHit(d), d # c
      PROVE  Stays(c)
  BY <1>8 DEF Provide, DedupHit, UpTo, callFrame, requestVars, Stays
<1>9. ASSUME NEW k \in DOMAIN cache, Expire(k)
      PROVE  Stays(c)
  BY <1>9 DEF Expire, callFrame, requestVars, Stays
<1>10. CASE UNCHANGED vars
  BY <1>10 DEF vars, requestVars, Stays
<1>11. ASSUME NEW d \in Calls, Call(d)
       PROVE  Stays(c) \/ Provide(c) \/ DedupHit(c)
  BY <1>3, <1>4, <1>5, <1>6, <1>7, <1>8, <1>11 DEF Call
<1>. QED  BY <1>1, <1>2, <1>9, <1>10, <1>11 DEF Next, Finished

\* A stored response was there before, or it is one that passes its dedup upwards.
LEMMA IsStored ==
    ASSUME Inv, [Next]_vars, NEW s \in DOMAIN cache'
    PROVE  \/ s \in DOMAIN cache /\ cache'[s] = cache[s]
           \/ \E c \in Calls : DedupUp(c) /\ s = Slot(c) /\ cache'[s] = saved[c]
<1>1. ASSUME NEW c \in Calls, DedupUp(c)
      PROVE  \/ s \in DOMAIN cache /\ cache'[s] = cache[s]
             \/ s = Slot(c) /\ cache'[s] = saved[c]
  BY <1>1 DEF DedupUp, Assign
<1>2. ASSUME NEW k \in DOMAIN cache, Expire(k)
      PROVE  s \in DOMAIN cache /\ cache'[s] = cache[s]
  BY <1>2 DEF Expire, Remove, Restrict
<1>3. ASSUME NEW c \in Calls, Call(c), ~DedupUp(c)
      PROVE  cache' = cache
  BY <1>3 DEF Call, Complete, Stats, Lookup, Refuse, ReadStats, Provide, AccountDown, DedupMiss,
              DedupHit, AccountUp, Return
<1>4. ASSUME NEW p \in Pipelines, NEW mws \in Stacks, Create(p, mws)
      PROVE  cache' = cache
  BY <1>4 DEF Create
<1>5. ASSUME NEW t \in Closers, Closer(t)
      PROVE  cache' = cache
  BY <1>5 DEF Closer, Close, FreePipeline, Closed
<1>6. CASE UNCHANGED vars
  BY <1>6 DEF vars
<1>. QED  BY <1>1, <1>2, <1>3, <1>4, <1>5, <1>6 DEF Next, Finished

LEMMA ProvideBills ==
    ASSUME Inv, NEW c \in Calls, Provide(c)
    PROVE  /\ pc[c] = "down" /\ pc'[c] = "up" /\ billed' = billed \cup {c}
           /\ entry' = entry /\ hash' = hash
BY DEF Provide, UpTo, callFrame, requestVars, Inv, TypeOK

LEMMA HitComesUp ==
    ASSUME Inv, NEW c \in Calls, DedupHit(c)
    PROVE  /\ pc[c] = "down" /\ pc'[c] = "up" /\ billed' = billed
           /\ entry' = entry /\ hash' = hash /\ Slot(c) \in DOMAIN cache
BY DEF DedupHit, UpTo, callFrame, requestVars, Inv, TypeOK

\* What was paid for stays so.
LEMMA BilledStay ==
    ASSUME Inv, TwinInv, [Next]_vars, NEW d \in billed
    PROVE  /\ d \in billed' /\ pc'[d] \in {"up", "returned"}
           /\ entry'[d] = entry[d] /\ hash'[d] = hash[d]
<1>1. d \in Calls /\ pc[d] \in {"up", "returned"}
  BY DEF Inv, TypeOK, TwinInv
<1>2. Stays(d)
  BY <1>1, ComesUp DEF Provide, DedupHit
<1>. QED  BY <1>1, <1>2 DEF Stays

LEMMA TwinStays ==
    ASSUME Inv, TwinInv, [Next]_vars, NEW p, NEW h, HasTwin(p, h)
    PROVE  \E d \in billed' : entry'[d] = p /\ hash'[d] = h
BY BilledStay DEF HasTwin

LEMMA NextKeepsTwins ==
    ASSUME Inv, TwinInv, [Next]_vars
    PROVE  TwinInv'
<1>1. ASSUME NEW s \in DOMAIN cache'
      PROVE  \E d \in billed' : entry'[d] = s[1] /\ hash'[d] = s[3]
  <2>1. CASE s \in DOMAIN cache
    BY <2>1, TwinStays DEF TwinInv
  <2>2. ASSUME NEW c \in Calls, DedupUp(c), s = Slot(c)
        PROVE  HasTwin(s[1], s[3])
    <3>1. s[1] = entry[c] /\ s[3] = hash[c] /\ pc[c] = "up"
      BY <2>2 DEF Slot, DedupUp
    <3>2. CASE c \in billed
      BY <3>1, <3>2 DEF HasTwin
    <3>3. CASE c \notin billed
      BY <3>1, <3>3 DEF HasTwin, TwinInv, ReusesItsOwn
    <3>. QED  BY <3>2, <3>3
  <2>. QED  BY <2>1, <2>2, IsStored, TwinStays
<1>2. ASSUME NEW c \in billed'
      PROVE  pc'[c] \in {"up", "returned"}
  <2>1. CASE c \in billed
    BY <2>1, BilledStay
  <2>2. CASE c \notin billed
    <3>1. \E d \in Calls : d = c /\ Provide(d)
      <4>1. c \in Calls
        <5>1. ASSUME NEW d \in Calls, Call(d)
              PROVE  c \in Calls
          BY <2>2, <5>1 DEF Call, Complete, Stats, Lookup, Refuse, ReadStats, Provide,
                AccountDown, DedupMiss, DedupHit, DedupUp, AccountUp, Return
        <5>. QED  BY <2>2, <5>1 DEF Next, Create, Closer, Close, FreePipeline, Closed, Expire,
                                    Finished, vars
      <4>2. ~Stays(c)
        BY <2>2 DEF Stays
      <4>3. ~DedupHit(c)
        BY <2>2 DEF DedupHit
      <4>. QED  BY <4>1, <4>2, <4>3, ComesUp
    <3>. QED  BY <3>1, ProvideBills
  <2>. QED  BY <2>1, <2>2
<1>3. ASSUME NEW c \in Calls, pc'[c] \in {"up", "returned"}, c \notin billed'
      PROVE  \E d \in billed' : entry'[d] = entry'[c] /\ hash'[d] = hash'[c]
  <2>1. CASE Stays(c)
    <3>1. /\ pc[c] \in {"up", "returned"} /\ c \notin billed
          /\ entry'[c] = entry[c] /\ hash'[c] = hash[c]
      BY <1>3, <2>1 DEF Stays
    <3>2. HasTwin(entry[c], hash[c])
      BY <3>1 DEF HasTwin, TwinInv, ReusesItsOwn
    <3>. QED  BY <3>1, <3>2, TwinStays
  <2>2. CASE Provide(c)
    BY <1>3, <2>2, ProvideBills
  <2>3. CASE DedupHit(c)
    <3>1. entry' = entry /\ hash' = hash /\ Slot(c) \in DOMAIN cache
      BY <2>3, HitComesUp
    <3>2. HasTwin(entry[c], hash[c])
      BY <3>1 DEF TwinInv, Slot
    <3>. QED  BY <3>1, <3>2, TwinStays
  <2>. QED  BY <2>1, <2>2, <2>3, ComesUp
<1>. QED  BY <1>1, <1>2, <1>3 DEF TwinInv, HasTwin, ReusesItsOwn

LEMMA TwinInvariance == Spec => [](Inv /\ TwinInv)
<1>1. Init => TwinInv
  BY DEF Init, TwinInv, ReusesItsOwn
<1>2. Inv /\ TwinInv /\ [Next]_vars => TwinInv'
  BY NextKeepsTwins
<1>. QED  BY <1>1, <1>2, Invariance, PTL DEF Spec

\* An answer that no provider was paid for repeats one to the same request of the
\* same pipeline, over any stack of middlewares and any overlap of calls.
THEOREM AnswersAreRepeated == Spec => []ReusesItsOwn
<1>1. TwinInv => ReusesItsOwn
  BY DEF TwinInv
<1>. QED  BY <1>1, TwinInvariance, PTL

\* A step in which no call begins, is answered or comes back.
LEMMA QuietAbstraction ==
    ASSUME billed' = billed,
           \A c \in Calls : /\ pc'[c] \in {"down", "up"} <=> pc[c] \in {"down", "up"}
                            /\ pc'[c] = "returned" <=> pc[c] = "returned"
    PROVE  UNCHANGED Abs!vars
<1>1. AbsPhase' = AbsPhase
  BY DEF AbsPhase
<1>2. AbsOutcome' = AbsOutcome
  BY DEF AbsOutcome
<1>. QED  BY <1>1, <1>2 DEF Abs!vars

LEMMA LookupInvokes ==
    ASSUME Inv, NEW c \in Calls, Lookup(c), hash[c] # Nil
    PROVE  Abs!Invoke(c)
<1>1. /\ pc[c] = "lookup" /\ pc'[c] = "down" /\ billed' = billed
      /\ \A d \in Calls : d # c => pc'[d] = pc[d]
  BY DEF Lookup, Inv, TypeOK
<1>2. AbsPhase[c] = "idle"
  BY <1>1 DEF AbsPhase
<1>3. AbsPhase' = [AbsPhase EXCEPT ![c] = "open"]
  BY <1>1 DEF AbsPhase
<1>4. AbsOutcome' = AbsOutcome
  BY <1>1 DEF AbsOutcome
<1>. QED  BY <1>1, <1>2, <1>3, <1>4 DEF Abs!Invoke

LEMMA ProvideExchanges ==
    ASSUME Inv, TwinInv, NEW c \in Calls, Provide(c)
    PROVE  Abs!Exchange(c, "ok")
<1>1. /\ pc[c] = "down" /\ pc'[c] = "up" /\ billed' = billed \cup {c}
      /\ \A d \in Calls : d # c => pc'[d] = pc[d]
  BY DEF Provide, UpTo, Inv, TypeOK
<1>2. c \notin billed
  BY <1>1 DEF TwinInv
<1>3. AbsPhase[c] = "open" /\ AbsOutcome[c] = "none"
  BY <1>1, <1>2 DEF AbsPhase, AbsOutcome
<1>4. AbsPhase' = AbsPhase
  BY <1>1 DEF AbsPhase
<1>5. AbsOutcome' = [AbsOutcome EXCEPT ![c] = "ok"]
  BY <1>1 DEF AbsOutcome
<1>. QED  BY <1>1, <1>2, <1>3, <1>4, <1>5 DEF Abs!Exchange

\* The caller has what a provider was paid for, or a repetition.
LEMMA ReturnAbstraction ==
    ASSUME Inv, TwinInv, NEW c \in Calls, Return(c)
    PROVE  Abs!Return(c) \/ Abs!Reuse(c)
<1>1. /\ pc[c] = "up" /\ pc'[c] = "returned" /\ billed' = billed
      /\ \A d \in Calls : d # c => pc'[d] = pc[d]
  BY DEF Return, Inv, TypeOK
<1>2. AbsPhase[c] = "open" /\ AbsPhase' = [AbsPhase EXCEPT ![c] = "returned"]
  BY <1>1 DEF AbsPhase
<1>3. CASE c \in billed
  <2>1. AbsOutcome[c] # "none" /\ AbsOutcome' = AbsOutcome
    BY <1>1, <1>3 DEF AbsOutcome
  <2>. QED  BY <1>1, <1>2, <2>1 DEF Abs!Return
<1>4. CASE c \notin billed
  <2>1. AbsOutcome' = [AbsOutcome EXCEPT ![c] = "ok"]
    BY <1>1 DEF AbsOutcome
  <2>2. PICK d \in billed : entry[d] = entry[c] /\ hash[d] = hash[c]
    BY <1>1, <1>4 DEF TwinInv, ReusesItsOwn
  <2>3. AbsOutcome[d] = "ok"
    BY <2>2 DEF AbsOutcome, Inv, TypeOK
  <2>. QED  BY <1>1, <1>2, <1>4, <2>1, <2>2, <2>3 DEF Abs!Reuse
<1>. QED  BY <1>3, <1>4

LEMMA StepAbstraction ==
    ASSUME Inv, TwinInv, [Next]_vars
    PROVE  [Abs!Next]_(Abs!vars)
<1>. USE DEF Inv, TypeOK
<1>1. ASSUME NEW p \in Pipelines, NEW mws \in Stacks, Create(p, mws)
      PROVE  UNCHANGED Abs!vars
  BY <1>1, QuietAbstraction DEF Create
<1>2. ASSUME NEW t \in Closers, Closer(t)
      PROVE  UNCHANGED Abs!vars
  BY <1>2, QuietAbstraction DEF Closer, Close, FreePipeline, Closed
<1>3. ASSUME NEW c \in Calls, Call(c)
      PROVE  [Abs!Next]_(Abs!vars)
  <2>1. CASE \/ \E p \in Pipelines, h \in Hashes : Complete(c, p, h)
             \/ \E p \in Pipelines : Stats(c, p)
    BY <2>1, QuietAbstraction DEF Complete, Stats, Start
  <2>2. CASE Lookup(c) /\ hash[c] = Nil
    BY <2>2, QuietAbstraction DEF Lookup
  <2>3. CASE Lookup(c) /\ hash[c] # Nil
    BY <2>3, LookupInvokes DEF Abs!Next
  <2>4. CASE Refuse(c) \/ ReadStats(c)
    BY <2>4, QuietAbstraction DEF Refuse, ReadStats
  <2>5. CASE AccountDown(c) \/ DedupMiss(c)
    BY <2>5, QuietAbstraction DEF AccountDown, DedupMiss, DownTo
  <2>6. CASE DedupHit(c) \/ DedupUp(c) \/ AccountUp(c)
    BY <2>6, QuietAbstraction DEF DedupHit, DedupUp, AccountUp, UpTo
  <2>7. CASE Provide(c)
    BY <2>7, ProvideExchanges DEF Abs!Next
  <2>8. CASE Return(c)
    BY <2>8, ReturnAbstraction DEF Abs!Next
  <2>. QED  BY <1>3, <2>1, <2>2, <2>3, <2>4, <2>5, <2>6, <2>7, <2>8 DEF Call
<1>4. ASSUME NEW k \in DOMAIN cache, Expire(k)
      PROVE  UNCHANGED Abs!vars
  BY <1>4, QuietAbstraction DEF Expire, callFrame
<1>5. CASE UNCHANGED vars
  BY <1>5, QuietAbstraction DEF vars
<1>. QED  BY <1>1, <1>2, <1>3, <1>4, <1>5 DEF Next, Finished

\* Whatever its stack, and however many dedups in it, a pipeline is a Provider as
\* each of its middlewares is: it pays once at most for a call, and repeats only
\* what was paid for.
THEOREM ChainIsAProvider == Spec => ImplementsCompletion
<1>1. Init => Abs!Init
  BY DEF Init, AbsPhase, AbsOutcome, Abs!Init
<1>. QED  BY <1>1, StepAbstraction, TwinInvariance, PTL DEF Spec, ImplementsCompletion, Abs!Spec

-----------------------------------------------------------------------------
\* Savings, for any stacks.

\* The dedups of a stack below layer k.
Below(mws, k) == {j \in DOMAIN mws : mws[j] = "dedup" /\ j > k}

\* A stored response has a saving for each dedup below the one that stores it at
\* most, and so has one on its way up for each that it has passed.
NestedInv ==
    /\ \A s \in DOMAIN cache :
          /\ stack[s[1]] # Nil
          /\ cache[s] <= Cardinality(Below(stack[s[1]], s[2]))
    /\ \A c \in Calls : pc[c] = "up" =>
          saved[c] <= Cardinality(Below(stack[entry[c]], at[c]))
    /\ SavingsBounded

LEMMA BelowIsFinite ==
    ASSUME NEW mws \in Stacks, NEW k
    PROVE  IsFiniteSet(Below(mws, k)) /\ Cardinality(Below(mws, k)) \in Nat
<1>1. Below(mws, k) \in SUBSET (1 .. Len(mws)) /\ Len(mws) \in Nat
  BY StackFacts DEF Below
<1>2. IsFiniteSet(1 .. Len(mws))
  BY <1>1, FS_Interval
<1>. QED  BY <1>1, <1>2, FS_Subset, FS_CardinalityType

\* One layer up there are as many, or one more at a dedup.
LEMMA BelowGrows ==
    ASSUME NEW mws \in Stacks, NEW k \in Nat \ {0}
    PROVE  /\ Cardinality(Below(mws, k)) <= Cardinality(Below(mws, k - 1))
           /\ k \in DOMAIN mws /\ mws[k] = "dedup" =>
                 Cardinality(Below(mws, k - 1)) = Cardinality(Below(mws, k)) + 1
<1>1. DOMAIN mws \subseteq Int
  BY StackFacts
<1>2. Below(mws, k) \in SUBSET Below(mws, k - 1)
  BY <1>1 DEF Below
<1>3. ASSUME k \in DOMAIN mws, mws[k] = "dedup"
      PROVE  Cardinality(Below(mws, k - 1)) = Cardinality(Below(mws, k)) + 1
  <2>1. Below(mws, k - 1) = Below(mws, k) \cup {k} /\ k \notin Below(mws, k)
    BY <1>1, <1>3 DEF Below
  <2>. QED  BY <2>1, BelowIsFinite, FS_AddElement
<1>. QED  BY <1>2, <1>3, BelowIsFinite, LargerSet

\* There are at most as many as the stack has.
LEMMA BelowIsPlaced ==
    ASSUME NEW p \in Pipelines, stack[p] \in Stacks, NEW k
    PROVE  /\ Cardinality(Places(p, "dedup")) \in Nat
           /\ Cardinality(Below(stack[p], k)) <= Cardinality(Places(p, "dedup"))
<1>1. Places(p, "dedup") \in SUBSET (1 .. Len(stack[p])) /\ Len(stack[p]) \in Nat
  BY StackFacts DEF Places
<1>2. IsFiniteSet(1 .. Len(stack[p]))
  BY <1>1, FS_Interval
<1>3. IsFiniteSet(Places(p, "dedup"))
  BY <1>1, <1>2, FS_Subset
<1>4. Below(stack[p], k) \in SUBSET Places(p, "dedup")
  BY DEF Below, Places
<1>. QED  BY <1>3, <1>4, LargerSet, FS_CardinalityType

\* A stored response's pipeline is one that has been built.
LEMMA SlotFacts ==
    ASSUME Inv, NestedInv, NEW s \in DOMAIN cache
    PROVE  /\ s[1] \in Pipelines /\ stack[s[1]] \in Stacks /\ handle[s[1]] # 0
           /\ cache[s] \in Nat
BY DEF Inv, TypeOK, NestedInv, RegistryInv

\* What the numbers of a call in its pipeline are.
LEMMA CallNumbers ==
    ASSUME Inv, NEW c \in Calls, pc[c] \in {"down", "up"}
    PROVE  /\ stack[entry[c]] \in Stacks /\ at[c] \in Nat /\ saved[c] \in Nat
           /\ pc[c] = "down" => at[c] > 0
<1>1. stack[entry[c]] \in Stacks
  BY CallFacts
<1>2. pc[c] = "down" => at[c] \in 1 .. Len(stack[entry[c]]) + 1
  BY CallFacts
<1>3. at[c] \in Nat /\ saved[c] \in Nat
  BY DEF Inv, TypeOK
<1>4. Len(stack[entry[c]]) \in Nat
  BY <1>1, StackFacts
<1>. QED  BY ONLY <1>1, <1>2, <1>3, <1>4

\* A response's savings, when it leaves layer at[c] upwards with s of them.
LEMMA UpKeepsNested ==
    ASSUME Inv, NestedInv, NEW c \in Calls, NEW s \in Nat,
           pc[c] \in {"down", "up"}, at[c] > 0, UpTo(c, at[c] - 1, s), UNCHANGED callFrame,
           s <= Cardinality(Below(stack[entry[c]], at[c] - 1))
    PROVE  \A d \in Calls : pc'[d] = "up" =>
               saved'[d] <= Cardinality(Below(stack'[entry'[d]], at'[d]))
<1>1. /\ pc'[c] = "up" /\ at'[c] = at[c] - 1 /\ saved'[c] = s
      /\ entry' = entry /\ stack' = stack
      /\ \A d \in Calls : d # c => pc'[d] = pc[d] /\ at'[d] = at[d] /\ saved'[d] = saved[d]
  BY DEF UpTo, callFrame, handleVars, Inv, TypeOK
<1>2. \A d \in Calls : pc[d] = "up" => saved[d] <= Cardinality(Below(stack[entry[d]], at[d]))
  BY DEF NestedInv
<1>. QED  BY ONLY <1>1, <1>2, s <= Cardinality(Below(stack[entry[c]], at[c] - 1))

\* What a call has saved it has saved one layer up.
LEMMA SavedBelow ==
    ASSUME Inv, NestedInv, NEW c \in Calls, pc[c] = "up", at[c] > 0
    PROVE  /\ saved[c] \in Nat
           /\ saved[c] <= Cardinality(Below(stack[entry[c]], at[c]))
           /\ saved[c] <= Cardinality(Below(stack[entry[c]], at[c] - 1))
<1>1. stack[entry[c]] \in Stacks /\ at[c] \in Nat \ {0} /\ saved[c] \in Nat
  BY CallNumbers
<1>2. saved[c] <= Cardinality(Below(stack[entry[c]], at[c]))
  BY DEF NestedInv
<1>3. /\ Cardinality(Below(stack[entry[c]], at[c])) \in Nat
      /\ Cardinality(Below(stack[entry[c]], at[c] - 1)) \in Nat
  BY <1>1, BelowIsFinite
<1>4. Cardinality(Below(stack[entry[c]], at[c]))
        <= Cardinality(Below(stack[entry[c]], at[c] - 1))
  BY <1>1, BelowGrows
<1>. QED  BY ONLY <1>1, <1>2, <1>3, <1>4

LEMMA CreateKeepsNested ==
    ASSUME Inv, CountInv, NestedInv, NEW q \in Pipelines, NEW mws \in Stacks, Create(q, mws)
    PROVE  NestedInv'
<1>1. /\ handle[q] = 0 /\ stack[q] = Nil /\ stack'[q] = mws
      /\ UNCHANGED <<totals, cache, pc, entry, at, saved>>
      /\ \A p \in Pipelines : p # q => stack'[p] = stack[p]
  BY DEF Create, Inv, TypeOK, RegistryInv
<1>2. ASSUME NEW s \in DOMAIN cache
      PROVE  stack'[s[1]] = stack[s[1]]
  BY <1>1, SlotFacts
<1>3. ASSUME NEW c \in Calls, pc[c] = "up"
      PROVE  stack'[entry[c]] = stack[entry[c]]
  BY <1>1, <1>3, EnteredIsBuilt DEF Running
<1>4. ASSUME NEW p \in Pipelines, stack'[p] # Nil
      PROVE  totals[p].saved <= totals[p].calls * Cardinality(Places(p, "dedup"))'
  <2>1. CASE p # q
    <3>1. Places(p, "dedup")' = Places(p, "dedup") /\ stack[p] # Nil
      BY <1>1, <1>4, <2>1 DEF Places
    <3>. QED  BY <3>1 DEF NestedInv, SavingsBounded
  <2>2. CASE p = q
    <3>1. totals[p].saved = 0 /\ totals[p].calls = 0
      BY <1>1, <2>2 DEF CountInv
    <3>2. Cardinality(Places(p, "dedup"))' \in Nat
      <4>1. Places(p, "dedup")' \in SUBSET (1 .. Len(mws)) /\ Len(mws) \in Nat
        BY <1>1, <2>2, StackFacts DEF Places
      <4>2. IsFiniteSet(1 .. Len(mws))
        BY <4>1, FS_Interval
      <4>. QED  BY <4>1, <4>2, FS_Subset, FS_CardinalityType
    <3>. QED  BY <3>1, <3>2
  <2>. QED  BY <2>1, <2>2
<1>5. SavingsBounded'
  BY <1>1, <1>4 DEF SavingsBounded
<1>. QED  BY <1>1, <1>2, <1>3, <1>5 DEF NestedInv

\* What is recorded of a call is no more than one saving for each dedup.
LEMMA AccountUpKeepsBound ==
    ASSUME Inv, NestedInv, NEW c \in Calls, AccountUp(c)
    PROVE  SavingsBounded'
<1> DEFINE q == entry[c]
           n == Cardinality(Places(q, "dedup"))
<1>1. pc[c] = "up" /\ at[c] > 0 /\ stack' = stack
  BY DEF AccountUp, callFrame, handleVars
<1>2. /\ q \in Pipelines /\ stack[q] \in Stacks /\ stack[q] # Nil
      /\ totals[q].calls \in Nat /\ totals[q].saved \in Nat
      /\ totals'[q].calls = totals[q].calls + 1
      /\ totals'[q].saved = totals[q].saved + saved[c]
      /\ \A p \in Pipelines : p # q => totals'[p] = totals[p]
  BY <1>1, CallFacts, StackFacts DEF AccountUp, Record, Inv, TypeOK
<1>3. n \in Nat /\ saved[c] \in Nat /\ saved[c] <= n
  <2>1. saved[c] \in Nat /\ saved[c] <= Cardinality(Below(stack[q], at[c]))
    BY <1>1, SavedBelow
  <2>2. n \in Nat /\ Cardinality(Below(stack[q], at[c])) <= n
    BY <1>2, BelowIsPlaced
  <2>3. Cardinality(Below(stack[q], at[c])) \in Nat
    BY <1>2, BelowIsFinite
  <2>. QED  BY ONLY <2>1, <2>2, <2>3
<1>4. totals[q].saved <= totals[q].calls * n
  BY <1>2 DEF NestedInv, SavingsBounded
<1>5. totals'[q].saved <= totals'[q].calls * n
  <2>1. ASSUME NEW a \in Nat, NEW b \in Nat
        PROVE  (a + 1) * b = a * b + b /\ a * b \in Nat
    OBVIOUS
  <2>2. /\ (totals[q].calls + 1) * n = totals[q].calls * n + n
        /\ totals[q].calls * n \in Nat
    BY ONLY <1>2, <1>3, <2>1
  <2>. QED  BY ONLY <1>2, <1>3, <1>4, <2>2
<1>6. SUFFICES ASSUME NEW p \in Pipelines, stack[p] # Nil
      PROVE  totals'[p].saved <= totals'[p].calls * Cardinality(Places(p, "dedup"))
  BY <1>1 DEF SavingsBounded, Places
<1>7. CASE p # q
  BY <1>2, <1>6, <1>7 DEF NestedInv, SavingsBounded
<1>. QED  BY <1>5, <1>7

\* A step in which no response moves or is stored.
LEMMA QuietKeepsNested ==
    ASSUME NestedInv, UNCHANGED <<stack, totals, saved>>,
           DOMAIN cache' \subseteq DOMAIN cache,
           \A s \in DOMAIN cache' : cache'[s] = cache[s],
           \A c \in Calls : pc'[c] = "up" =>
               pc[c] = "up" /\ at'[c] = at[c] /\ entry'[c] = entry[c]
    PROVE  NestedInv'
BY DEF NestedInv, SavingsBounded, Places

LEMMA NextKeepsNested ==
    ASSUME Inv, CountInv, NestedInv, [Next]_vars
    PROVE  NestedInv'
<1>0. \A c \in Calls : pc[c] \in {"down", "up"} =>
          /\ stack[entry[c]] \in Stacks /\ at[c] \in Nat
          /\ pc[c] = "down" => at[c] > 0
  BY CallNumbers
<1>1. ASSUME NEW p \in Pipelines, NEW mws \in Stacks, Create(p, mws)
      PROVE  NestedInv'
  BY <1>1, CreateKeepsNested
<1>2. ASSUME NEW t \in Closers, Closer(t)
      PROVE  NestedInv'
  BY <1>2, QuietKeepsNested DEF Closer, Close, FreePipeline, Closed
<1>3. ASSUME NEW c \in Calls, Call(c)
      PROVE  NestedInv'
  <2>1. CASE \/ \E p \in Pipelines, h \in Hashes : Complete(c, p, h)
             \/ \E p \in Pipelines : Stats(c, p)
    BY <2>1, QuietKeepsNested DEF Complete, Stats, Start, handleVars, Inv, TypeOK
  <2>2. CASE Lookup(c) \/ Refuse(c) \/ ReadStats(c)
    BY <2>2, QuietKeepsNested DEF Lookup, Refuse, ReadStats, handleVars, Inv, TypeOK
  <2>3. CASE AccountDown(c) \/ DedupMiss(c)
    BY <2>3, QuietKeepsNested DEF AccountDown, DedupMiss, DownTo, callFrame, handleVars, Inv,
                                  TypeOK
  <2>4. CASE Provide(c)
    <3>1. /\ pc[c] = "down" /\ at[c] \in Nat \ {0} /\ UpTo(c, at[c] - 1, 0)
          /\ UNCHANGED callFrame /\ UNCHANGED <<cache, totals, stack>>
      BY <1>0, <2>4 DEF Provide, callFrame, handleVars
    <3>2. 0 \in Nat /\ 0 <= Cardinality(Below(stack[entry[c]], at[c] - 1))
      <4>1. Cardinality(Below(stack[entry[c]], at[c] - 1)) \in Nat
        BY <1>0, <3>1, BelowIsFinite
      <4>. QED  BY ONLY <4>1
    <3>3. \A d \in Calls : pc'[d] = "up" =>
              saved'[d] <= Cardinality(Below(stack'[entry'[d]], at'[d]))
      <4>1. pc[c] \in {"down", "up"} /\ at[c] > 0
        BY ONLY <3>1
      <4>. QED  BY <3>1, <3>2, <4>1, UpKeepsNested, Zenon
    <3>. QED  BY <3>1, <3>3 DEF NestedInv, SavingsBounded, Places
  <2>5. CASE DedupHit(c)
    <3>1. /\ pc[c] = "down" /\ at[c] \in Nat \ {0} /\ Slot(c) \in DOMAIN cache
          /\ UpTo(c, at[c] - 1, cache[Slot(c)] + 1) /\ Layer(c) = "dedup"
          /\ UNCHANGED callFrame /\ UNCHANGED <<cache, totals, stack>>
      BY <1>0, <2>5 DEF DedupHit, callFrame, handleVars
    <3>2. stack[entry[c]] \in Stacks
      BY <1>0, <3>1
    <3>3. at[c] \in DOMAIN stack[entry[c]] /\ stack[entry[c]][at[c]] = "dedup"
      <4>1. DOMAIN stack[entry[c]] = 1 .. Len(stack[entry[c]]) /\ Len(stack[entry[c]]) \in Nat
        BY <3>2, StackFacts
      <4>2. ~(at[c] > Len(stack[entry[c]])) /\ stack[entry[c]][at[c]] = "dedup"
        BY <3>1 DEF Layer
      <4>. QED  BY ONLY <3>1, <4>1, <4>2
    <3>4. /\ cache[Slot(c)] \in Nat
          /\ cache[Slot(c)] <= Cardinality(Below(stack[entry[c]], at[c]))
      <4>1. Slot(c)[1] = entry[c] /\ Slot(c)[2] = at[c]
        BY DEF Slot
      <4>. QED  BY <3>1, <4>1, SlotFacts DEF NestedInv
    <3>5. /\ Cardinality(Below(stack[entry[c]], at[c])) \in Nat
          /\ Cardinality(Below(stack[entry[c]], at[c] - 1))
               = Cardinality(Below(stack[entry[c]], at[c])) + 1
      BY <3>1, <3>2, <3>3, BelowIsFinite, BelowGrows
    <3>6. /\ cache[Slot(c)] + 1 \in Nat
          /\ cache[Slot(c)] + 1 <= Cardinality(Below(stack[entry[c]], at[c] - 1))
      BY ONLY <3>4, <3>5
    <3>7. \A d \in Calls : pc'[d] = "up" =>
              saved'[d] <= Cardinality(Below(stack'[entry'[d]], at'[d]))
      BY <3>1, <3>6, UpKeepsNested
    <3>. QED  BY <3>1, <3>7 DEF NestedInv, SavingsBounded, Places
  <2>6. CASE DedupUp(c)
    <3>1. /\ pc[c] = "up" /\ at[c] > 0 /\ UpTo(c, at[c] - 1, saved[c])
          /\ UNCHANGED callFrame /\ UNCHANGED <<totals, stack>>
      BY <2>6 DEF DedupUp, callFrame, handleVars
    <3>2. /\ saved[c] \in Nat
          /\ saved[c] <= Cardinality(Below(stack[entry[c]], at[c]))
          /\ saved[c] <= Cardinality(Below(stack[entry[c]], at[c] - 1))
      BY <3>1, SavedBelow
    <3>3. \A d \in Calls : pc'[d] = "up" =>
              saved'[d] <= Cardinality(Below(stack'[entry'[d]], at'[d]))
      BY <3>1, <3>2, UpKeepsNested, Zenon
    <3>4. ASSUME NEW s \in DOMAIN cache'
          PROVE  stack[s[1]] # Nil /\ cache'[s] <= Cardinality(Below(stack[s[1]], s[2]))
      <4>1. CASE s = Slot(c)
        <5>1. s[1] = entry[c] /\ s[2] = at[c] /\ stack[entry[c]] # Nil
          BY <1>0, <3>1, <4>1, StackFacts DEF Slot
        <5>2. cache'[s] = saved[c]
          BY <2>6, <4>1 DEF DedupUp, Assign
        <5>. QED  BY <3>2, <5>1, <5>2
      <4>2. CASE s # Slot(c)
        BY <2>6, <4>2 DEF DedupUp, Assign, NestedInv
      <4>. QED  BY <4>1, <4>2
    <3>. QED  BY <3>1, <3>3, <3>4 DEF NestedInv, SavingsBounded, Places
  <2>7. CASE AccountUp(c)
    <3>1. /\ pc[c] = "up" /\ at[c] > 0 /\ UpTo(c, at[c] - 1, saved[c])
          /\ UNCHANGED callFrame /\ UNCHANGED <<cache, stack>>
      BY <2>7 DEF AccountUp, callFrame, handleVars
    <3>2. saved[c] \in Nat /\ saved[c] <= Cardinality(Below(stack[entry[c]], at[c] - 1))
      BY <3>1, SavedBelow
    <3>3. \A d \in Calls : pc'[d] = "up" =>
              saved'[d] <= Cardinality(Below(stack'[entry'[d]], at'[d]))
      BY <3>1, <3>2, UpKeepsNested, Zenon
    <3>4. SavingsBounded'
      BY <2>7, AccountUpKeepsBound
    <3>. QED  BY <3>1, <3>3, <3>4 DEF NestedInv
  <2>8. CASE Return(c)
    BY <2>8, QuietKeepsNested DEF Return, callFrame, handleVars, Inv, TypeOK
  <2>. QED  BY <1>3, <2>1, <2>2, <2>3, <2>4, <2>5, <2>6, <2>7, <2>8 DEF Call
<1>4. ASSUME NEW k \in DOMAIN cache, Expire(k)
      PROVE  NestedInv'
  BY <1>4, QuietKeepsNested DEF Expire, Remove, Restrict, callFrame, handleVars
<1>5. CASE UNCHANGED vars
  BY <1>5, QuietKeepsNested DEF vars, handleVars
<1>. QED  BY <1>1, <1>2, <1>3, <1>4, <1>5 DEF Next, Finished

\* Whatever the stack, a pipeline never reports more than one saving for each of its
\* dedups and each call that it records.
THEOREM SavingsAreBounded == Spec => []SavingsBounded
<1>1. Init => NestedInv
  BY DEF Init, NestedInv, SavingsBounded
<1>2. Inv /\ CountInv /\ NestedInv /\ [Next]_vars => NestedInv'
  BY NextKeepsNested
<1>3. NestedInv => SavingsBounded
  BY DEF NestedInv
<1>. QED  BY <1>1, <1>2, <1>3, CountInvariance, PTL DEF Spec

-----------------------------------------------------------------------------
(***************************************************************************)
(* What the abstract Complete promises is thereby true of the whole chain. *)
(***************************************************************************)

Promise == INSTANCE CompletionProofs WITH
    MayReuse <- TRUE, phase <- AbsPhase, outcome <- AbsOutcome

LEMMA PromiseIsAbs ==
    /\ Abs!Init <=> Promise!Init
    /\ [Abs!Next]_(Abs!vars) <=> [Promise!Next]_(Promise!vars)
    /\ Abs!Honest <=> Promise!Honest
    /\ [Abs!Settling]_(Abs!vars) <=> [Promise!Settling]_(Promise!vars)
<1>1. Abs!Init <=> Promise!Init
  BY DEF Abs!Init, Promise!Init
<1>2. [Abs!Next]_(Abs!vars) <=> [Promise!Next]_(Promise!vars)
  BY DEF Abs!Next, Promise!Next, Abs!vars, Promise!vars, Abs!Invoke, Promise!Invoke,
         Abs!Bill, Promise!Bill, Abs!Respond, Promise!Respond, Abs!Exchange,
         Promise!Exchange, Abs!Return, Promise!Return, Abs!Reuse, Promise!Reuse
<1>3. Abs!Honest <=> Promise!Honest
  BY DEF Abs!Honest, Promise!Honest
<1>4. [Abs!Settling]_(Abs!vars) <=> [Promise!Settling]_(Promise!vars)
  BY DEF Abs!Settling, Promise!Settling, Abs!vars, Promise!vars
<1>. QED  BY <1>1, <1>2, <1>3, <1>4

\* Whatever the stack, an answer that the mock did not give owes to one it gave.
THEOREM AnswersArePaidFor == Spec => []Abs!Honest
<1>1. Promise!Spec => []Promise!Honest
  BY Promise!AnswersArePaidFor
<1>. QED
  BY ChainIsAProvider, <1>1, PromiseIsAbs, PTL DEF ImplementsCompletion, Abs!Spec, Promise!Spec

\* However many dedups a chain has, the mock is not called for one that is answered.
THEOREM AnswersAreFinal == Spec => Abs!Settled
<1>1. Promise!Spec => Promise!Settled
  BY Promise!AnswersAreFinal
<1>. QED
  BY ChainIsAProvider, <1>1, PromiseIsAbs, PTL
     DEF ImplementsCompletion, Abs!Spec, Promise!Spec, Abs!Settled, Promise!Settled
=============================================================================
