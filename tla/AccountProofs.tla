---------------------------- MODULE AccountProofs ----------------------------
(***************************************************************************)
(* Proofs about Account, for any calls, requests, models, prices, tiers,   *)
(* chains and sinks, and any number of processes.                          *)
(***************************************************************************)
EXTENDS Account, SequenceTheorems, WellFoundedInduction, TLAPS

\* What a call has, by where it is.
Bookkeeping ==
    \A c \in Calls :
       /\ pc[c] = "idle" => exchanges[c] = <<>>
       /\ pc[c] \in {"idle", "ask", "wait", "failed"} => resp[c] = Nothing
       /\ pc[c] \in {"wait", "store"} => exchanges[c] # <<>>
       /\ pc[c] = "wait" => Exchange(c).served \in Models /\ Exchange(c).usage \in Counts
       /\ pc[c] = "failed" => IF exchanges[c] = <<>> THEN chain.tiers = <<>>
                                                     ELSE Exchange(c).seen = "error"

Inv == TypeOK /\ Bookkeeping

\* What the assumptions say of the constants, one fact at a time.
LEMMA ConstantFacts ==
    ASSUME chain \in Chains
    PROVE  /\ chain.tiers \in Seq(Tiers) /\ Len(chain.tiers) \in Nat
           /\ chain.dedup \in BOOLEAN /\ chain.cascade \in BOOLEAN
           /\ chain.sink \in {"slice", "writer", "file"}
           /\ chain.tiers = <<>> <=> Len(chain.tiers) = 0
           /\ \A n \in 1 .. Len(chain.tiers) : chain.tiers[n] \in Tiers
           /\ DOMAIN chain.tiers = 1 .. Len(chain.tiers)
           /\ ~chain.cascade => Len(chain.tiers) = 1
           /\ Nothing \notin Responses
<1>1. chain \in [dedup : BOOLEAN, cascade : BOOLEAN, tiers : Seq(Tiers),
                 sink : {"slice", "writer", "file"}]
  BY AccountAssumption
<1>2. chain.tiers \in Seq(Tiers) /\ chain.dedup \in BOOLEAN /\ chain.cascade \in BOOLEAN
      /\ chain.sink \in {"slice", "writer", "file"}
  BY <1>1
<1>3. ~chain.cascade => Len(chain.tiers) = 1
  BY AccountAssumption
<1>4. Nothing \notin Responses
  BY AccountAssumption DEF Responses
<1>. HIDE DEF Tiers
<1>5. \A n \in 1 .. Len(chain.tiers) : chain.tiers[n] \in Tiers
  BY <1>2, ElementOfSeq
<1>6. chain.tiers = <<>> <=> Len(chain.tiers) = 0
  BY <1>2, EmptySeq
<1>7. DOMAIN chain.tiers = 1 .. Len(chain.tiers)
  BY <1>2, LenProperties
<1>. QED  BY <1>2, <1>3, <1>4, <1>5, <1>6, <1>7

\* A call's history is a sequence of exchanges.
LEMMA HistoryFacts ==
    ASSUME TypeOK, NEW c \in Calls
    PROVE  /\ exchanges[c] \in Seq(Exchanges) /\ Len(exchanges[c]) \in Nat
           /\ exchanges[c] = <<>> <=> Len(exchanges[c]) = 0
           /\ exchanges[c] # <<>> => Exchange(c) \in Exchanges
<1>1. exchanges[c] \in Seq(Exchanges)
  BY DEF TypeOK
<1>2. /\ Len(exchanges[c]) \in Nat
      /\ exchanges[c] = <<>> <=> Len(exchanges[c]) = 0
  BY <1>1, EmptySeq, LenProperties
<1>3. ASSUME exchanges[c] # <<>>
      PROVE  Exchange(c) \in Exchanges
  <2>1. Len(exchanges[c]) \in 1 .. Len(exchanges[c])
    BY <1>2, <1>3
  <2>. HIDE DEF Exchanges
  <2>. QED  BY <1>1, <2>1, ElementOfSeq DEF Exchange
<1>. QED  BY <1>1, <1>2, <1>3

\* One more exchange, and the others' histories as they were.
LEMMA SentFacts ==
    ASSUME TypeOK, NEW c \in Calls, pc[c] = "ask", UNCHANGED <<chain, request>>,
           NEW m \in Models \cup {NoModel}, NEW u \in Counts \cup {Nothing},
           NEW seen \in {"pending", "read", "error"}, Sent(c, m, u, seen)
    PROVE  /\ exchanges' \in [Calls -> Seq(Exchanges')]
           /\ \A d \in Calls \ {c} : exchanges'[d] = exchanges[d]
           /\ Len(exchanges'[c]) = Len(exchanges[c]) + 1
           /\ Len(exchanges'[c]) <= Len(chain.tiers)
           /\ exchanges'[c] # <<>>
           /\ Exchange(c)'.seen = seen
           /\ Exchange(c)'.served = m
           /\ Exchange(c)'.usage = u
<1>. DEFINE tier == chain.tiers[Len(exchanges[c]) + 1]
            x == [body |-> Body(tier, request[c]), served |-> m, usage |-> u, seen |-> seen]
<1>1. exchanges' = [exchanges EXCEPT ![c] = Append(@, x)]
  BY DEF Sent
<1>2. /\ exchanges \in [Calls -> Seq(Exchanges)]
      /\ Len(exchanges[c]) < Len(chain.tiers)
      /\ chain \in Chains /\ request[c] \in Requests
  BY DEF TypeOK
<1>3. Len(exchanges[c]) \in Nat /\ exchanges[c] \in Seq(Exchanges)
  BY HistoryFacts
<1>4. Len(chain.tiers) \in Nat /\ DOMAIN chain.tiers = 1 .. Len(chain.tiers)
  BY <1>2, ConstantFacts
<1>5. Len(exchanges[c]) + 1 \in DOMAIN chain.tiers
  BY <1>2, <1>3, <1>4
<1>6. Body(tier, request[c]) \in Bodies
  BY <1>2, <1>5 DEF Bodies
<1>7. x \in Exchanges
  BY <1>6 DEF Exchanges
<1>8. Exchanges' = Exchanges
  BY DEF Exchanges, Bodies
<1>. HIDE DEF x, Exchanges
<1>9. /\ Append(exchanges[c], x) \in Seq(Exchanges)
      /\ Len(Append(exchanges[c], x)) = Len(exchanges[c]) + 1
      /\ Append(exchanges[c], x)[Len(exchanges[c]) + 1] = x
  BY <1>3, <1>7, AppendProperties
<1>10. exchanges'[c] = Append(exchanges[c], x)
       /\ \A d \in Calls \ {c} : exchanges'[d] = exchanges[d]
  BY <1>1, <1>2
<1>11. exchanges' \in [Calls -> Seq(Exchanges')]
  BY <1>1, <1>2, <1>8, <1>9
<1>12. Len(exchanges'[c]) = Len(exchanges[c]) + 1
       /\ exchanges'[c][Len(exchanges'[c])] = x
  BY <1>9, <1>10
<1>13. exchanges'[c] # <<>>
  <2>1. exchanges'[c] \in Seq(Exchanges) /\ Len(exchanges'[c]) # 0
    BY <1>3, <1>9, <1>10, <1>12
  <2>. QED  BY <2>1, EmptySeq
<1>14. x.seen = seen /\ x.served = m /\ x.usage = u
  BY DEF x
<1>15. Len(exchanges'[c]) <= Len(chain.tiers)
  BY <1>2, <1>3, <1>4, <1>12
<1>. QED  BY <1>10, <1>11, <1>12, <1>13, <1>14, <1>15 DEF Exchange

\* The last exchange is marked, nothing else changes.
LEMMA SeenFacts ==
    ASSUME TypeOK, NEW c \in Calls, exchanges[c] # <<>>, UNCHANGED chain,
           NEW what \in {"pending", "read", "error"}, Seen(c, what)
    PROVE  /\ exchanges' \in [Calls -> Seq(Exchanges')]
           /\ \A d \in Calls \ {c} : exchanges'[d] = exchanges[d]
           /\ Len(exchanges'[c]) = Len(exchanges[c])
           /\ exchanges'[c] # <<>>
           /\ Exchange(c)'.seen = what
           /\ Exchange(c)'.served = Exchange(c).served
           /\ Exchange(c)'.usage = Exchange(c).usage
<1>. DEFINE n == Len(exchanges[c])
            x == [exchanges[c][n] EXCEPT !.seen = what]
<1>1. exchanges' = [exchanges EXCEPT ![c] = [exchanges[c] EXCEPT ![n] = x]]
  BY DEF Seen
<1>2. exchanges \in [Calls -> Seq(Exchanges)]
  BY DEF TypeOK
<1>3. /\ exchanges[c] \in Seq(Exchanges) /\ n \in Nat /\ n # 0
      /\ exchanges[c][n] \in Exchanges
  BY HistoryFacts DEF Exchange
<1>4. x \in Exchanges
  BY <1>3 DEF Exchanges
<1>5. Exchanges' = Exchanges
  BY DEF Exchanges, Bodies
<1>6. n \in 1 .. Len(exchanges[c])
  BY <1>3
<1>. HIDE DEF x, n, Exchanges
<1>7. /\ [exchanges[c] EXCEPT ![n] = x] \in Seq(Exchanges)
      /\ Len([exchanges[c] EXCEPT ![n] = x]) = Len(exchanges[c])
      /\ [exchanges[c] EXCEPT ![n] = x][n] = x
  BY <1>3, <1>4, <1>6, ExceptSeq
<1>8. exchanges'[c] = [exchanges[c] EXCEPT ![n] = x]
      /\ \A d \in Calls \ {c} : exchanges'[d] = exchanges[d]
  BY <1>1, <1>2
<1>9. exchanges' \in [Calls -> Seq(Exchanges')]
  BY <1>1, <1>2, <1>5, <1>7
<1>10. Len(exchanges'[c]) = n /\ exchanges'[c][n] = x
  BY <1>7, <1>8 DEF n
<1>11. exchanges'[c] # <<>>
  <2>1. exchanges'[c] \in Seq(Exchanges) /\ Len(exchanges'[c]) # 0
    BY <1>3, <1>7, <1>8, <1>10
  <2>. QED  BY <2>1, EmptySeq
<1>12. x.seen = what /\ x.served = exchanges[c][n].served /\ x.usage = exchanges[c][n].usage
  BY <1>3 DEF x, Exchanges
<1>. QED  BY <1>8, <1>9, <1>10, <1>11, <1>12 DEF n, Exchange

\* Costs are natural numbers.
LEMMA CostTyped ==
    ASSUME NEW u \in Counts, NEW m \in Models
    PROVE  ComputeCost(u, m) \in Nat
<1>1. Prices[m] \in Counts
  BY AccountAssumption
<1>2. \A a, b \in Nat : a * b \in Nat
  OBVIOUS
<1>3. /\ u.input * Prices[m].input \in Nat
      /\ u.output * Prices[m].output \in Nat
      /\ u.cacheRead * Prices[m].cacheRead \in Nat
      /\ u.cacheWrite * Prices[m].cacheWrite \in Nat
  BY <1>1, <1>2 DEF Counts
<1>. HIDE <1>2
<1>. QED  BY <1>3 DEF ComputeCost

\* The tier that a call has reached is one of the chain's.
LEMMA TierFacts ==
    ASSUME TypeOK, NEW c \in Calls, exchanges[c] # <<>>
    PROVE  Tier(c) \in Tiers
<1>1. /\ chain \in Chains /\ Len(exchanges[c]) <= Len(chain.tiers)
  BY DEF TypeOK
<1>2. Len(exchanges[c]) \in 1 .. Len(chain.tiers)
  BY <1>1, HistoryFacts, ConstantFacts
<1>. QED  BY <1>1, <1>2, ConstantFacts DEF Tier

\* What an adapter, and the cascade above it, make of an answer.
LEMMA ResponseFacts ==
    ASSUME Inv, NEW c \in Calls, pc[c] = "wait"
    PROVE  /\ Response(c) \in Responses
           /\ Response(c).by = c
           /\ Response(c).model = IF chain.cascade THEN Tier(c).name ELSE Exchange(c).served
           /\ Response(c).usage = Exchange(c).usage
           /\ Response(c).cost = Cost(Table(Tier(c)), Exchange(c))
<1>. DEFINE x == Exchange(c)
            t == Tier(c)
            r == IF t.kind = "anthropic" THEN AnthropicResponse(c, x) ELSE OpenAIResponse(c, t, x)
<1>1. exchanges[c] # <<>> /\ x.served \in Models /\ x.usage \in Counts
  BY DEF Inv, Bookkeeping
<1>2. t \in Tiers
  BY <1>1, TierFacts DEF Inv
<1>3. t.name \in Names
  BY <1>2 DEF Tiers
<1>4. ComputeCost(x.usage, x.served) \in Nat
  BY <1>1, CostTyped
<1>. HIDE DEF x, t
<1>5. \A table : Cost(table, x) \in Nat
  BY <1>4 DEF Cost
<1>6. CacheStatus(x.usage) \in {"hit", "partial", "miss"}
  BY DEF CacheStatus
<1>7. /\ r \in Responses
      /\ r.by = c /\ r.model = x.served /\ r.usage = x.usage
      /\ r.cost = Cost(Table(t), x)
  <2>1. CASE t.kind = "anthropic"
    BY <1>1, <1>5, <1>6, <2>1 DEF AnthropicResponse, Responses, Table
  <2>2. CASE t.kind # "anthropic"
    BY <1>1, <1>5, <2>2 DEF OpenAIResponse, Responses, Table
  <2>. QED  BY <2>1, <2>2
<1>. HIDE DEF r
<1>8. Response(c) = IF chain.cascade THEN [r EXCEPT !.model = t.name] ELSE r
  BY DEF Response, r, t, x
<1>. QED
  <2>1. CASE chain.cascade
    BY <1>3, <1>7, <1>8, <2>1 DEF Responses, x, t
  <2>2. CASE ~chain.cascade
    BY <1>7, <1>8, <2>2 DEF x, t
  <2>. QED  BY <2>1, <2>2

\* An answer of the service is dealt with, well or not: the call goes on to w
\* with the response r.
LEMMA AnswerKeepsInv ==
    ASSUME Inv, NEW c \in Calls, pc[c] = "wait", UNCHANGED <<chain, request, store, sinkVars>>,
           NEW what \in {"error", "read"}, Seen(c, what),
           NEW w \in {"failed", "ask", "store", "record"}, Goto(c, w),
           resp' \in [Calls -> Responses \cup {Nothing}],
           \A d \in Calls \ {c} : resp'[d] = resp[d],
           w = "failed" => what = "error" /\ resp'[c] = Nothing,
           w = "ask" => Len(exchanges[c]) < Len(chain.tiers) /\ resp'[c] = Nothing,
           w \in {"store", "record"} => resp'[c] # Nothing
    PROVE  Inv'
<1>1. TypeOK /\ Bookkeeping /\ exchanges[c] # <<>>
  BY DEF Inv, Bookkeeping
<1>2. /\ pc'[c] = w /\ \A d \in Calls \ {c} : pc'[d] = pc[d]
      /\ pc' \in [Calls -> Places]
  BY <1>1 DEF TypeOK, Goto, Places
<1>3. /\ exchanges' \in [Calls -> Seq(Exchanges')]
      /\ \A d \in Calls \ {c} : exchanges'[d] = exchanges[d]
      /\ Len(exchanges'[c]) = Len(exchanges[c])
      /\ exchanges'[c] # <<>>
      /\ Exchange(c)'.seen = what
  BY <1>1, SeenFacts
<1>4. TypeOK'
  <2>1. ASSUME NEW d \in Calls
        PROVE  /\ pc'[d] = "ask" => Len(exchanges'[d]) < Len(chain.tiers)
               /\ Len(exchanges'[d]) <= Len(chain.tiers)
               /\ pc'[d] \in {"store", "record", "return", "done"} => resp'[d] # Nothing
    <3>1. CASE d = c
      BY <1>1, <1>2, <1>3, <3>1 DEF TypeOK
    <3>2. CASE d # c
      BY <1>1, <1>2, <1>3, <3>2 DEF TypeOK
    <3>. QED  BY <3>1, <3>2
  <2>. QED  BY <1>1, <1>2, <1>3, <2>1 DEF TypeOK, sinkVars
<1>5. Bookkeeping'
  <2>. SUFFICES ASSUME NEW d \in Calls
                PROVE  /\ pc'[d] = "idle" => exchanges'[d] = <<>>
                       /\ pc'[d] \in {"idle", "ask", "wait", "failed"} => resp'[d] = Nothing
                       /\ pc'[d] \in {"wait", "store"} => exchanges'[d] # <<>>
                       /\ pc'[d] = "wait" =>
                             Exchange(d)'.served \in Models /\ Exchange(d)'.usage \in Counts
                       /\ pc'[d] = "failed" => IF exchanges'[d] = <<>> THEN chain'.tiers = <<>>
                                                          ELSE Exchange(d)'.seen = "error"
    BY DEF Bookkeeping
  <2>1. CASE d = c
    BY <1>2, <1>3, <2>1
  <2>2. CASE d # c
    BY <1>1, <1>2, <1>3, <2>2 DEF Bookkeeping, Exchange
  <2>. QED  BY <2>1, <2>2
<1>. QED  BY <1>4, <1>5 DEF Inv

\* A request is sent: the call waits, or has failed.
LEMMA SendingKeepsInv ==
    ASSUME Inv, NEW c \in Calls, pc[c] = "ask",
           UNCHANGED <<chain, request, resp, store, sinkVars>>,
           NEW m \in Models \cup {NoModel}, NEW u \in Counts \cup {Nothing},
           NEW seen \in {"pending", "error"}, Sent(c, m, u, seen),
           NEW w \in {"wait", "failed"}, Goto(c, w),
           w = "wait" => m \in Models /\ u \in Counts,
           w = "failed" => seen = "error"
    PROVE  Inv'
<1>1. TypeOK /\ Bookkeeping
  BY DEF Inv
<1>2. /\ pc'[c] = w /\ \A d \in Calls \ {c} : pc'[d] = pc[d]
      /\ pc' \in [Calls -> Places]
  BY <1>1 DEF TypeOK, Goto, Places
<1>3. /\ exchanges' \in [Calls -> Seq(Exchanges')]
      /\ \A d \in Calls \ {c} : exchanges'[d] = exchanges[d]
      /\ Len(exchanges'[c]) <= Len(chain.tiers)
      /\ exchanges'[c] # <<>>
      /\ Exchange(c)'.seen = seen /\ Exchange(c)'.served = m /\ Exchange(c)'.usage = u
  BY <1>1, SentFacts
<1>4. TypeOK'
  <2>1. ASSUME NEW d \in Calls
        PROVE  /\ pc'[d] = "ask" => Len(exchanges'[d]) < Len(chain.tiers)
               /\ Len(exchanges'[d]) <= Len(chain.tiers)
               /\ pc'[d] \in {"store", "record", "return", "done"} => resp'[d] # Nothing
    <3>1. CASE d = c
      BY <1>1, <1>2, <1>3, <3>1 DEF TypeOK
    <3>2. CASE d # c
      BY <1>1, <1>2, <1>3, <3>2 DEF TypeOK
    <3>. QED  BY <3>1, <3>2
  <2>. QED  BY <1>1, <1>2, <1>3, <2>1 DEF TypeOK, sinkVars
<1>5. Bookkeeping'
  <2>. SUFFICES ASSUME NEW d \in Calls
                PROVE  /\ pc'[d] = "idle" => exchanges'[d] = <<>>
                       /\ pc'[d] \in {"idle", "ask", "wait", "failed"} => resp'[d] = Nothing
                       /\ pc'[d] \in {"wait", "store"} => exchanges'[d] # <<>>
                       /\ pc'[d] = "wait" =>
                             Exchange(d)'.served \in Models /\ Exchange(d)'.usage \in Counts
                       /\ pc'[d] = "failed" => IF exchanges'[d] = <<>> THEN chain'.tiers = <<>>
                                                          ELSE Exchange(d)'.seen = "error"
    BY DEF Bookkeeping
  <2>1. CASE d = c
    BY <1>1, <1>2, <1>3, <2>1 DEF Bookkeeping
  <2>2. CASE d # c
    BY <1>1, <1>2, <1>3, <2>2 DEF Bookkeeping, Exchange
  <2>. QED  BY <2>1, <2>2
<1>. QED  BY <1>4, <1>5 DEF Inv

\* Where a call is and what it holds changes, but no exchange: w is not a place
\* at an adapter that the call has not come to.
LEMMA MoveKeepsInv ==
    ASSUME Inv, NEW c \in Calls, UNCHANGED <<chain, request, exchanges>>,
           NEW w \in {"ask", "failed", "record", "return", "done"}, Goto(c, w),
           resp' \in [Calls -> Responses \cup {Nothing}],
           \A d \in Calls \ {c} : resp'[d] = resp[d],
           w \in {"ask", "failed"} => pc[c] = "idle" /\ resp'[c] = resp[c],
           w \in {"ask", "failed"} => (w = "failed" <=> chain.tiers = <<>>),
           w \in {"record", "return", "done"} => resp'[c] # Nothing,
           store' \in [Requests -> Responses \cup {Nothing}],
           sink' \in {"open", "closed", "broken"}, file' \in Seq(Entries),
           session' = session, answered' \in SUBSET Calls
    PROVE  Inv'
<1>1. TypeOK /\ Bookkeeping
  BY DEF Inv
<1>2. /\ pc'[c] = w /\ \A d \in Calls \ {c} : pc'[d] = pc[d]
      /\ pc' \in [Calls -> Places]
  BY <1>1 DEF TypeOK, Goto, Places
<1>3. \A d \in Calls : Exchange(d)' = Exchange(d)
  BY DEF Exchange
<1>4. w = "ask" => Len(exchanges[c]) < Len(chain.tiers)
  <2>1. chain \in Chains
    BY <1>1 DEF TypeOK
  <2>2. Len(chain.tiers) \in Nat /\ (chain.tiers = <<>> <=> Len(chain.tiers) = 0)
    BY <2>1, ConstantFacts
  <2>3. w = "ask" => exchanges[c] = <<>>
    BY <1>1 DEF Bookkeeping
  <2>4. w = "ask" => Len(exchanges[c]) = 0
    BY <1>1, <2>3, HistoryFacts
  <2>. QED  BY <2>2, <2>4
<1>5. TypeOK'
  <2>1. ASSUME NEW d \in Calls
        PROVE  /\ pc'[d] = "ask" => Len(exchanges[d]) < Len(chain.tiers)
               /\ Len(exchanges[d]) <= Len(chain.tiers)
               /\ pc'[d] \in {"store", "record", "return", "done"} => resp'[d] # Nothing
    <3>1. CASE d = c
      BY <1>1, <1>2, <1>4, <3>1 DEF TypeOK
    <3>2. CASE d # c
      BY <1>1, <1>2, <3>2 DEF TypeOK
    <3>. QED  BY <3>1, <3>2
  <2>2. Exchanges' = Exchanges
    BY DEF Exchanges, Bodies
  <2>. QED  BY <1>1, <1>2, <2>1, <2>2 DEF TypeOK
<1>6. Bookkeeping'
  <2>. SUFFICES ASSUME NEW d \in Calls
                PROVE  /\ pc'[d] = "idle" => exchanges[d] = <<>>
                       /\ pc'[d] \in {"idle", "ask", "wait", "failed"} => resp'[d] = Nothing
                       /\ pc'[d] \in {"wait", "store"} => exchanges[d] # <<>>
                       /\ pc'[d] = "wait" =>
                             Exchange(d).served \in Models /\ Exchange(d).usage \in Counts
                       /\ pc'[d] = "failed" => IF exchanges[d] = <<>> THEN chain.tiers = <<>>
                                                          ELSE Exchange(d).seen = "error"
    BY <1>3 DEF Bookkeeping
  <2>1. CASE d = c
    BY <1>1, <1>2, <2>1 DEF Bookkeeping
  <2>2. CASE d # c
    BY <1>1, <1>2, <2>2 DEF Bookkeeping
  <2>. QED  BY <2>1, <2>2
<1>. QED  BY <1>5, <1>6 DEF Inv

LEMMA InitInv == Init => Inv
<1>. SUFFICES ASSUME Init PROVE Inv
  OBVIOUS
<1>1. chain \in Chains /\ exchanges = [c \in Calls |-> <<>>]
  BY DEF Init
<1>2. <<>> \in Seq(Exchanges) /\ <<>> \in Seq(Entries) /\ Len(<<>>) = 0
  BY EmptySeq
<1>3. Len(chain.tiers) \in Nat
  BY <1>1, ConstantFacts
<1>4. TypeOK
  BY <1>1, <1>2, <1>3 DEF Init, TypeOK, Places
<1>5. Bookkeeping
  BY DEF Init, Bookkeeping
<1>. QED  BY <1>4, <1>5 DEF Inv

\* The sink's file is a sequence of entries.
LEMMA FileGrows ==
    ASSUME TypeOK, NEW c \in Calls, resp[c] # Nothing, NEW form \in {"line", "torn", "glued"}
    PROVE  /\ Append(file, Entry(c, form)) \in Seq(Entries)
           /\ Len(Append(file, Entry(c, form))) = Len(file) + 1
           /\ \A n \in 1 .. Len(file) : Append(file, Entry(c, form))[n] = file[n]
           /\ Append(file, Entry(c, form))[Len(file) + 1] = Entry(c, form)
<1>1. file \in Seq(Entries) /\ resp[c] \in Responses /\ session \in Nat
  BY DEF TypeOK
<1>2. Entry(c, form) \in Entries
  BY <1>1 DEF Entry, Entries
<1>. HIDE DEF Entries
<1>. QED  BY <1>1, <1>2, AppendProperties

LEMMA RestartKeepsInv == ASSUME Inv, Restart PROVE Inv'
<1>1. TypeOK /\ Bookkeeping
  BY DEF Inv
<1>2. /\ UNCHANGED <<chain, request, exchanges, resp>> /\ sink' = "open"
      /\ session' = session + 1 /\ answered' = {}
      /\ store' \in [Requests -> Responses \cup {Nothing}]
  BY DEF Restart
<1>3. \A c \in Calls : \/ pc'[c] = pc[c] /\ pc[c] \in {"idle", "done", "failed"}
                      \/ pc'[c] = "lost"
  BY DEF Restart
<1>4. pc' \in [Calls -> Places]
  BY <1>1 DEF Restart, TypeOK, Places
<1>5. file' \in Seq(Entries)
  <2>1. ASSUME NEW c \in Calls, pc[c] = "record", file' = AppendPart(c)
        PROVE  file' \in Seq(Entries)
    <3>1. resp[c] # Nothing
      BY <1>1, <2>1 DEF TypeOK
    <3>. QED  BY <1>1, <2>1, <3>1, FileGrows DEF AppendPart
  <2>2. file \in Seq(Entries)
    BY <1>1 DEF TypeOK
  <2>3. file' = <<>> \/ file' \in LeftBehind
    BY DEF Restart
  <2>. QED  BY <2>1, <2>2, <2>3, EmptySeq DEF LeftBehind
<1>6. \A c \in Calls : /\ pc'[c] = "ask" => Len(exchanges[c]) < Len(chain.tiers)
                       /\ Len(exchanges[c]) <= Len(chain.tiers)
                       /\ pc'[c] \in {"store", "record", "return", "done"} => resp[c] # Nothing
  BY <1>1, <1>3 DEF TypeOK
<1>7. Exchanges' = Exchanges /\ \A c \in Calls : Exchange(c)' = Exchange(c)
  BY <1>2 DEF Exchanges, Bodies, Exchange
<1>8. TypeOK'
  <2>1. /\ chain' \in Chains /\ request' \in [Calls -> Requests] /\ session' \in Nat
        /\ exchanges' \in [Calls -> Seq(Exchanges')]
        /\ resp' \in [Calls -> Responses \cup {Nothing}]
    BY <1>1, <1>2, <1>7 DEF TypeOK
  <2>. QED  BY <1>2, <1>4, <1>5, <1>6, <2>1 DEF TypeOK
<1>9. Bookkeeping'
  BY <1>1, <1>2, <1>3, <1>7 DEF Bookkeeping
<1>. QED  BY <1>8, <1>9 DEF Inv

\* What does not touch the calls keeps them as they are.
LEMMA SideKeepsInv ==
    ASSUME Inv, UNCHANGED <<chain, request, callVars>>,
           store' \in [Requests -> Responses \cup {Nothing}],
           sink' \in {"open", "closed", "broken"}, UNCHANGED <<file, session, answered>>
    PROVE  Inv'
<1>1. TypeOK /\ Bookkeeping
  BY DEF Inv
<1>2. Exchanges' = Exchanges /\ \A c \in Calls : Exchange(c)' = Exchange(c)
  BY DEF Exchanges, Bodies, Exchange, callVars
<1>3. TypeOK'
  BY <1>1, <1>2 DEF TypeOK, callVars
<1>4. Bookkeeping'
  BY <1>1, <1>2 DEF Bookkeeping, callVars
<1>. QED  BY <1>3, <1>4 DEF Inv

LEMMA NextInv == ASSUME Inv, [Next]_vars PROVE Inv'
<1>1. TypeOK /\ Bookkeeping
  BY DEF Inv
<1>. USE DEF sinkVars
<1>2. ASSUME NEW c \in Calls, NEW m \in Models, NEW u \in Usages, Served(c, m, u)
      PROVE  Inv'
  <2>1. u \in Counts
    BY AccountAssumption
  <2>. QED  BY <1>2, <2>1, SendingKeepsInv DEF Served
<1>3. ASSUME NEW c \in Calls, NotServed(c)
      PROVE  Inv'
  BY <1>3, SendingKeepsInv DEF NotServed
<1>4. ASSUME NEW c \in Calls, ReplyLost(c) \/ NoChoices(c) \/ Escalate(c)
      PROVE  Inv'
  <2>1. /\ pc[c] = "wait" /\ resp' = resp /\ resp[c] = Nothing
        /\ resp \in [Calls -> Responses \cup {Nothing}]
    BY <1>1, <1>4 DEF ReplyLost, NoChoices, Escalate, TypeOK, Bookkeeping
  <2>2. CASE ReplyLost(c) \/ NoChoices(c)
    BY <2>1, <2>2, AnswerKeepsInv DEF ReplyLost, NoChoices
  <2>3. CASE Escalate(c)
    BY <2>1, <2>3, AnswerKeepsInv DEF Escalate, HasNext
  <2>. QED  BY <1>4, <2>2, <2>3
<1>5. ASSUME NEW c \in Calls, Accept(c)
      PROVE  Inv'
  <2>1. /\ pc[c] = "wait" /\ Seen(c, "read") /\ resp' = [resp EXCEPT ![c] = Response(c)]
        /\ UNCHANGED <<chain, request, store, sinkVars>>
    BY <1>5 DEF Accept
  <2>2. Response(c) \in Responses /\ Nothing \notin Responses
    BY <1>1, <2>1, ResponseFacts, ConstantFacts DEF TypeOK
  <2>3. /\ resp' \in [Calls -> Responses \cup {Nothing}]
        /\ \A d \in Calls \ {c} : resp'[d] = resp[d]
        /\ resp'[c] # Nothing
    BY <1>1, <2>1, <2>2 DEF TypeOK
  <2>4. \E w \in {"store", "record"} : Goto(c, w)
    BY <1>5 DEF Accept, LeaveLoop, WayUp
  <2>. QED  BY <2>1, <2>3, <2>4, AnswerKeepsInv
<1>6. ASSUME NEW c \in Calls, Miss(c)
      PROVE  Inv'
  <2>1. /\ pc[c] = "idle" /\ UNCHANGED <<chain, request, exchanges, resp, store, sinkVars>>
    BY <1>6 DEF Miss
  <2>2. \E w \in {"ask", "failed"} : Goto(c, w) /\ (w = "failed" <=> chain.tiers = <<>>)
    BY <1>6 DEF Miss
  <2>. QED  BY <1>1, <2>1, <2>2, MoveKeepsInv DEF TypeOK
<1>7. ASSUME NEW c \in Calls, Hit(c)
      PROVE  Inv'
  <2>1. /\ store[request[c]] # Nothing /\ Goto(c, "record")
        /\ resp' = [resp EXCEPT ![c] = [store[request[c]] EXCEPT !.status = "hit"]]
        /\ UNCHANGED <<chain, request, exchanges, store, sinkVars>>
    BY <1>7 DEF Hit
  <2>2. store[request[c]] \in Responses
    BY <1>1, <2>1 DEF TypeOK
  <2>3. [store[request[c]] EXCEPT !.status = "hit"] \in Responses
    BY <2>2 DEF Responses
  <2>4. Nothing \notin Responses
    BY <1>1, ConstantFacts DEF TypeOK
  <2>5. /\ resp' \in [Calls -> Responses \cup {Nothing}]
        /\ \A d \in Calls \ {c} : resp'[d] = resp[d]
        /\ resp'[c] # Nothing
    BY <1>1, <2>1, <2>3, <2>4 DEF TypeOK
  <2>. QED  BY <1>1, <2>1, <2>5, MoveKeepsInv DEF TypeOK
<1>8. ASSUME NEW c \in Calls, Store(c)
      PROVE  Inv'
  <2>1. /\ pc[c] = "store" /\ Goto(c, "record")
        /\ store' = [store EXCEPT ![request[c]] = resp[c]]
        /\ resp' = [resp EXCEPT ![c] = StatusOfMiss(@)]
        /\ UNCHANGED <<chain, request, exchanges, sinkVars>>
    BY <1>8 DEF Store
  <2>2. resp[c] \in Responses
    BY <1>1, <2>1 DEF TypeOK
  <2>3. StatusOfMiss(resp[c]) \in Responses
    BY <2>2 DEF Responses, StatusOfMiss
  <2>4. Nothing \notin Responses
    BY <1>1, ConstantFacts DEF TypeOK
  <2>5. /\ resp' \in [Calls -> Responses \cup {Nothing}]
        /\ \A d \in Calls \ {c} : resp'[d] = resp[d]
        /\ resp'[c] # Nothing
    BY <1>1, <2>1, <2>3, <2>4 DEF TypeOK
  <2>6. store' \in [Requests -> Responses \cup {Nothing}]
    BY <1>1, <2>1, <2>2 DEF TypeOK
  <2>. QED  BY <1>1, <2>1, <2>5, <2>6, MoveKeepsInv DEF TypeOK
<1>9. ASSUME NEW c \in Calls, Record(c) \/ RecordFails(c) \/ RecordRefused(c)
      PROVE  Inv'
  <2>1. /\ pc[c] = "record" /\ Goto(c, "return")
        /\ UNCHANGED <<chain, request, exchanges, resp, store, session, answered>>
    BY <1>9 DEF Record, RecordFails, RecordRefused, DropError
  <2>2. resp[c] # Nothing
    BY <1>1, <2>1 DEF TypeOK
  <2>3. \/ file' = file
        \/ \E form \in {"line", "torn", "glued"} : file' = Append(file, Entry(c, form))
    BY <1>9 DEF Record, RecordFails, RecordRefused, AppendEntry, AppendPart, Form
  <2>4. file' \in Seq(Entries)
    BY <1>1, <2>2, <2>3, FileGrows DEF TypeOK
  <2>5. sink' \in {"open", "closed", "broken"}
    BY <1>1, <1>9 DEF Record, RecordFails, RecordRefused, Break, TypeOK
  <2>. QED  BY <1>1, <2>1, <2>2, <2>4, <2>5, MoveKeepsInv DEF TypeOK
<1>10. ASSUME NEW q \in Requests, Forget(q)
       PROVE  Inv'
  <2>1. store' \in [Requests -> Responses \cup {Nothing}]
    BY <1>1, <1>10 DEF Forget, TypeOK
  <2>. QED  BY <1>1, <1>10, <2>1, SideKeepsInv DEF Forget, TypeOK
<1>11. ASSUME Close
       PROVE  Inv'
  BY <1>1, <1>11, SideKeepsInv DEF Close, TypeOK
<1>12. ASSUME NEW c \in Calls, Return(c)
       PROVE  Inv'
  <2>1. resp[c] # Nothing
    BY <1>1, <1>12 DEF Return, TypeOK
  <2>. QED  BY <1>1, <1>12, <2>1, MoveKeepsInv DEF Return, TypeOK
<1>13. CASE UNCHANGED vars
  BY <1>1, <1>13, SideKeepsInv DEF vars, TypeOK
<1>. QED  BY <1>2, <1>3, <1>4, <1>5, <1>6, <1>7, <1>8, <1>9, <1>10, <1>11, <1>12, <1>13,
             RestartKeepsInv DEF Next, Adapter, Caller

LEMMA InvHolds == Spec => []Inv
<1>. QED  BY InitInv, NextInv, PTL DEF Spec

\* For any calls, chain and sink the state is well typed, no tier is asked beyond
\* the last one, and what is stored or recorded is a Response.
THEOREM TypeCorrect == Spec => []TypeOK
<1>. QED  BY InvHolds, PTL DEF Inv

\* A call fails only of its last exchange, or for want of a model: whatever the
\* sink does, a response that was paid for is returned (account.go:47).
THEOREM FailuresAreTheProviders == Spec => []FailureIsTheProviders
<1>1. Inv => FailureIsTheProviders
  BY DEF Inv, Bookkeeping, FailureIsTheProviders
<1>. QED  BY <1>1, InvHolds, PTL

-----------------------------------------------------------------------------
\* r answers a request that is identical to q, and its call is settled: no
\* exchange will follow the one it is the answer of.
Good(r, q) ==
    /\ r \in Responses
    /\ IsAnswerOf(r)
    /\ resp[r.by] # Nothing
    /\ request[r.by] = q

\* A call that holds the response of another was answered from the store.
Own(c, r) == r.by # c => chain.dedup /\ exchanges[c] = <<>>

RespGood == \A c \in Calls : resp[c] # Nothing => Good(resp[c], request[c]) /\ Own(c, resp[c])

StoreGood == \A q \in Requests : store[q] # Nothing => Good(store[q], q)

FileGood ==
    \A n \in 1 .. Len(file) :
       /\ file[n] \in Entries
       /\ Good(file[n].resp, request[file[n].call])
       /\ Own(file[n].call, file[n].resp)
       /\ resp[file[n].call] # Nothing

AllGood == RespGood /\ StoreGood /\ FileGood

\* The history of a settled call does not change any more.
LEMMA Frozen ==
    ASSUME Inv, [Next]_vars
    PROVE  /\ chain' = chain /\ request' = request
           /\ \A c \in Calls : resp[c] # Nothing => exchanges'[c] = exchanges[c]
           /\ \A c \in Calls : resp[c] # Nothing => resp'[c] # Nothing
<1>1. TypeOK /\ Bookkeeping
  BY DEF Inv
<1>2. chain' = chain /\ request' = request
  BY DEF Next, Adapter, Caller, Served, NotServed, ReplyLost, NoChoices, Escalate, Accept, Miss,
         Hit, Store, Record, RecordFails, RecordRefused, Return, Forget, Close, Restart, vars
<1>3. ASSUME NEW c \in Calls, resp[c] # Nothing
      PROVE  exchanges'[c] = exchanges[c] /\ resp'[c] # Nothing
  <2>1. pc[c] \notin {"idle", "ask", "wait", "failed"}
    BY <1>1, <1>3 DEF Bookkeeping
  <2>2. exchanges \in [Calls -> Seq(Exchanges)] /\ resp \in [Calls -> Responses \cup {Nothing}]
        /\ store \in [Requests -> Responses \cup {Nothing}] /\ request[c] \in Requests
    BY <1>1 DEF TypeOK
  <2>3. ASSUME NEW d \in Calls, Adapter(d)
        PROVE  exchanges'[c] = exchanges[c] /\ resp'[c] # Nothing
    <3>1. pc[d] \in {"ask", "wait"}
      BY <2>3 DEF Adapter, Served, NotServed, ReplyLost, NoChoices, Escalate, Accept
    <3>2. d # c
      BY <2>1, <3>1
    <3>3. exchanges'[c] = exchanges[c]
      BY <2>2, <2>3, <3>2
         DEF Adapter, Served, NotServed, ReplyLost, NoChoices, Escalate, Accept, Sent, Seen
    <3>4. resp'[c] = resp[c]
      BY <2>2, <2>3, <3>2
         DEF Adapter, Served, NotServed, ReplyLost, NoChoices, Escalate, Accept
    <3>. QED  BY <1>3, <3>3, <3>4
  <2>4. ASSUME NEW d \in Calls, Caller(d)
        PROVE  exchanges'[c] = exchanges[c] /\ resp'[c] # Nothing
    <3>1. exchanges' = exchanges
      BY <2>4 DEF Caller, Miss, Hit, Store, Record, RecordFails, RecordRefused, Return
    <3>2. CASE d # c
      <4>1. resp'[c] = resp[c]
        BY <2>2, <2>4, <3>2 DEF Caller, Miss, Hit, Store, Record, RecordFails, RecordRefused, Return
      <4>. QED  BY <1>3, <3>1, <4>1
    <3>3. CASE d = c /\ Store(c)
      <4>1. resp[c] \in Responses /\ resp'[c] = StatusOfMiss(resp[c])
        BY <1>3, <2>2, <3>3 DEF Store
      <4>2. StatusOfMiss(resp[c]) \in Responses /\ Nothing \notin Responses
        BY <1>1, <4>1, ConstantFacts DEF StatusOfMiss, Responses, TypeOK
      <4>. QED  BY <3>1, <4>1, <4>2
    <3>4. CASE d = c /\ ~Store(c)
      <4>1. resp' = resp
        BY <2>1, <2>4, <3>4 DEF Caller, Miss, Hit, Record, RecordFails, RecordRefused, Return
      <4>. QED  BY <1>3, <3>1, <4>1
    <3>. QED  BY <3>2, <3>3, <3>4
  <2>5. CASE (\E q \in Requests : Forget(q)) \/ Close \/ Restart \/ UNCHANGED vars
    BY <1>3, <2>5 DEF Forget, Close, Restart, vars, callVars
  <2>. QED  BY <2>3, <2>4, <2>5 DEF Next
<1>. QED  BY <1>2, <1>3

\* What is good stays so, and so does whose it is.
LEMMA GoodStays ==
    ASSUME Inv, [Next]_vars, NEW r, NEW q, Good(r, q)
    PROVE  Good(r, q)'
<1>1. r.by \in Calls
  BY DEF Good, Responses
<1>2. resp[r.by] # Nothing
  BY DEF Good
<1>3. exchanges'[r.by] = exchanges[r.by] /\ resp'[r.by] # Nothing
      /\ chain' = chain /\ request' = request
  BY <1>1, <1>2, Frozen
<1>4. IsAnswerOf(r)'
  BY <1>3 DEF Good, IsAnswerOf, Tier, Exchange
<1>. QED  BY <1>3, <1>4 DEF Good

LEMMA OwnStays ==
    ASSUME Inv, [Next]_vars, NEW c \in Calls, NEW r, resp[c] # Nothing, Own(c, r)
    PROVE  Own(c, r)'
<1>. QED  BY Frozen DEF Own

\* Neither looks at the status of a response.
LEMMA StatusIrrelevant ==
    ASSUME NEW r \in Responses, NEW s \in {"hit", "partial", "miss"}, NEW q, NEW c
    PROVE  /\ [r EXCEPT !.status = s] \in Responses
           /\ Good(r, q) => Good([r EXCEPT !.status = s], q)
           /\ Own(c, r) => Own(c, [r EXCEPT !.status = s])
<1>. DEFINE t == [r EXCEPT !.status = s]
<1>1. /\ t \in Responses /\ t.by = r.by /\ t.model = r.model /\ t.usage = r.usage
      /\ t.cost = r.cost
  BY DEF Responses
<1>. HIDE DEF t
<1>2. IsAnswerOf(r) => IsAnswerOf(t)
  BY <1>1 DEF IsAnswerOf
<1>3. Good(r, q) => Good(t, q)
  BY <1>1, <1>2 DEF Good
<1>4. Own(c, r) => Own(c, t)
  BY <1>1 DEF Own
<1>. QED  BY <1>1, <1>3, <1>4 DEF t

\* The response that an adapter makes is the answer of the call's last exchange.
LEMMA AcceptIsGood ==
    ASSUME Inv, NEW c \in Calls, Accept(c)
    PROVE  /\ Good(resp[c], request[c])'
           /\ resp'[c].by = c
<1>1. /\ pc[c] = "wait" /\ Seen(c, "read") /\ resp' = [resp EXCEPT ![c] = Response(c)]
      /\ UNCHANGED <<chain, request>>
  BY DEF Accept
<1>2. TypeOK /\ Bookkeeping /\ exchanges[c] # <<>> /\ chain \in Chains
  BY <1>1 DEF Inv, Bookkeeping, TypeOK
<1>. DEFINE r == Response(c)
<1>3. /\ r \in Responses /\ r.by = c /\ r.usage = Exchange(c).usage
      /\ r.model = IF chain.cascade THEN Tier(c).name ELSE Exchange(c).served
      /\ r.cost = Cost(Table(Tier(c)), Exchange(c))
  BY <1>1, ResponseFacts
<1>. HIDE DEF r
<1>4. /\ Len(exchanges'[c]) = Len(exchanges[c])
      /\ exchanges'[c] # <<>>
      /\ Exchange(c)'.seen = "read"
      /\ Exchange(c)'.served = Exchange(c).served
      /\ Exchange(c)'.usage = Exchange(c).usage
  BY <1>1, <1>2, SeenFacts
<1>5. Tier(c)' = Tier(c)
  BY <1>1, <1>4 DEF Tier
<1>6. resp'[c] = r
  BY <1>1, <1>2 DEF TypeOK, r
<1>7. IsAnswerOf(resp[c])'
  BY <1>1, <1>3, <1>4, <1>5, <1>6 DEF IsAnswerOf, Cost
<1>8. r # Nothing
  BY <1>2, <1>3, ConstantFacts
<1>. QED  BY <1>1, <1>3, <1>6, <1>7, <1>8 DEF Good

\* The same of a response that a step gives to a call or to the store.
LEMMA GoodResp ==
    ASSUME Inv, [Next]_vars, NEW c \in Calls, Good(resp'[c], request[c])
    PROVE  Good(resp[c], request[c])'
<1>1. ASSUME NEW r, NEW q, r = resp'[c], q = request[c]
      PROVE  Good(r, q)'
  BY <1>1, GoodStays
<1>2. request'[c] = request[c]
  BY Frozen
<1>. QED  BY <1>1, <1>2 DEF Good, IsAnswerOf

LEMMA RespGoodStep == ASSUME Inv, AllGood, [Next]_vars PROVE RespGood'
<1>. SUFFICES ASSUME NEW c \in Calls, resp'[c] # Nothing
              PROVE  Good(resp[c], request[c])' /\ Own(c, resp[c])'
  BY DEF RespGood
<1>1. TypeOK /\ Bookkeeping /\ request' = request /\ chain' = chain
  BY Frozen DEF Inv
<1>2. resp \in [Calls -> Responses \cup {Nothing}] /\ request[c] \in Requests
      /\ store \in [Requests -> Responses \cup {Nothing}]
  BY <1>1 DEF TypeOK
<1>3. CASE resp'[c] = resp[c]
  <2>1. Good(resp[c], request[c]) /\ Own(c, resp[c])
    BY <1>3 DEF AllGood, RespGood
  <2>2. Good(resp[c], request[c])'
    BY <1>3, <2>1, GoodResp
  <2>3. exchanges'[c] = exchanges[c]
    BY <1>3, Frozen
  <2>. QED  BY <1>1, <1>3, <2>1, <2>2, <2>3 DEF Own
<1>4. CASE Accept(c)
  BY <1>4, AcceptIsGood DEF Own
<1>5. CASE Hit(c)
  <2>. DEFINE s == store[request[c]]
  <2>1. /\ pc[c] = "idle" /\ chain.dedup /\ s # Nothing /\ exchanges' = exchanges
        /\ resp'[c] = [s EXCEPT !.status = "hit"]
    BY <1>2, <1>5 DEF Hit
  <2>2. s \in Responses /\ Good(s, request[c])
    BY <1>2, <2>1 DEF AllGood, StoreGood
  <2>3. exchanges[c] = <<>>
    BY <1>1, <2>1 DEF Bookkeeping
  <2>4. Good([s EXCEPT !.status = "hit"], request[c])
    BY <2>2, StatusIrrelevant
  <2>5. Good(resp'[c], request[c])
    BY <2>1, <2>4
  <2>6. Good(resp[c], request[c])'
    BY <2>5, GoodResp
  <2>. QED  BY <1>1, <2>1, <2>3, <2>6 DEF Own
<1>6. CASE Store(c)
  <2>1. pc[c] = "store" /\ resp'[c] = StatusOfMiss(resp[c]) /\ exchanges' = exchanges
    BY <1>2, <1>6 DEF Store
  <2>2. resp[c] \in Responses /\ Good(resp[c], request[c]) /\ Own(c, resp[c])
    BY <1>1, <1>2, <2>1 DEF AllGood, RespGood, TypeOK
  <2>3. Good(StatusOfMiss(resp[c]), request[c]) /\ Own(c, StatusOfMiss(resp[c]))
    BY <2>2, StatusIrrelevant DEF StatusOfMiss
  <2>4. Good(resp'[c], request[c])
    BY <2>1, <2>3
  <2>5. Good(resp[c], request[c])'
    BY <2>4, GoodResp
  <2>. QED  BY <1>1, <2>1, <2>3, <2>5 DEF Own
<1>7. resp'[c] = resp[c] \/ Accept(c) \/ Hit(c) \/ Store(c)
  <2>1. CASE \E d \in Calls : Adapter(d)
    BY <1>2, <2>1 DEF Adapter, Served, NotServed, ReplyLost, NoChoices, Escalate, Accept
  <2>2. CASE \E d \in Calls : Caller(d)
    BY <1>2, <2>2 DEF Caller, Miss, Hit, Store, Record, RecordFails, RecordRefused, Return
  <2>3. CASE (\E q \in Requests : Forget(q)) \/ Close \/ Restart \/ UNCHANGED vars
    BY <2>3 DEF Forget, Close, Restart, vars, callVars
  <2>. QED  BY <2>1, <2>2, <2>3 DEF Next
<1>. QED  BY <1>3, <1>4, <1>5, <1>6, <1>7

LEMMA StoreGoodStep == ASSUME Inv, AllGood, [Next]_vars PROVE StoreGood'
<1>. SUFFICES ASSUME NEW q \in Requests, store'[q] # Nothing
              PROVE  Good(store[q], q)'
  BY DEF StoreGood
<1>1. TypeOK /\ store \in [Requests -> Responses \cup {Nothing}]
  BY DEF Inv, TypeOK
<1>2. store'[q] = store[q] \/ \E c \in Calls : Store(c) /\ request[c] = q /\ store'[q] = resp[c]
  <2>1. CASE \E d \in Calls : Adapter(d)
    BY <2>1 DEF Adapter, Served, NotServed, ReplyLost, NoChoices, Escalate, Accept
  <2>2. CASE \E d \in Calls : Caller(d)
    BY <1>1, <2>2 DEF Caller, Miss, Hit, Store, Record, RecordFails, RecordRefused, Return
  <2>3. CASE (\E p \in Requests : Forget(p)) \/ Close \/ Restart \/ UNCHANGED vars
    BY <1>1, <2>3 DEF Forget, Close, Restart, vars
  <2>. QED  BY <2>1, <2>2, <2>3 DEF Next
<1>3. Good(store'[q], q)
  <2>1. CASE store'[q] = store[q]
    BY <2>1 DEF AllGood, StoreGood
  <2>2. ASSUME NEW c \in Calls, Store(c), request[c] = q, store'[q] = resp[c]
        PROVE  Good(store'[q], q)
    BY <2>2 DEF AllGood, RespGood
  <2>. QED  BY <1>2, <2>1, <2>2
<1>4. ASSUME NEW r, r = store'[q]
      PROVE  Good(r, q)'
  BY <1>3, <1>4, GoodStays
<1>. QED  BY <1>4 DEF Good, IsAnswerOf

\* The file is taken over, started anew, or has one more entry, of a call that is on
\* its way up.
LEMMA FileSteps ==
    ASSUME Inv, [Next]_vars
    PROVE  \/ file' = file
           \/ file' = <<>>
           \/ \E c \in Calls, form \in {"line", "torn", "glued"} :
                 resp[c] # Nothing /\ file' = Append(file, Entry(c, form))
<1>1. TypeOK
  BY DEF Inv
<1>2. CASE \E d \in Calls : Adapter(d)
  BY <1>2 DEF Adapter, Served, NotServed, ReplyLost, NoChoices, Escalate, Accept, sinkVars
<1>3. CASE \E d \in Calls : Caller(d)
  BY <1>1, <1>3 DEF Caller, Miss, Hit, Store, Record, RecordFails, RecordRefused, Return,
                    AppendEntry, AppendPart, Form, sinkVars, TypeOK
<1>4. CASE Restart
  BY <1>1, <1>4 DEF Restart, LeftBehind, AppendPart, TypeOK
<1>5. CASE (\E q \in Requests : Forget(q)) \/ Close \/ UNCHANGED vars
  BY <1>5 DEF Forget, Close, vars, sinkVars
<1>. QED  BY <1>2, <1>3, <1>4, <1>5 DEF Next

LEMMA FileGoodStep == ASSUME Inv, AllGood, [Next]_vars PROVE FileGood'
<1>1. TypeOK /\ request' = request /\ chain' = chain
  BY Frozen DEF Inv
<1>. DEFINE GoodEntry(e) == /\ e \in Entries
                            /\ Good(e.resp, request[e.call])
                            /\ Own(e.call, e.resp)
                            /\ resp[e.call] # Nothing
<1>2. ASSUME NEW e, GoodEntry(e)
      PROVE  GoodEntry(e)'
  <2>1. e.call \in Calls
    BY <1>2 DEF Entries
  <2>2. resp'[e.call] # Nothing
    BY <1>2, <2>1, Frozen
  <2>3. Own(e.call, e.resp)'
    BY <1>2, <2>1, OwnStays
  <2>4. ASSUME NEW q, q = request[e.call]
        PROVE  Good(e.resp, q)'
    BY <1>2, <2>4, GoodStays
  <2>5. Good(e.resp, request[e.call])'
    BY <1>1, <2>4
  <2>. QED  BY <1>2, <2>2, <2>3, <2>5
<1>3. FileGood <=> \A n \in 1 .. Len(file) : GoodEntry(file[n])
  BY DEF FileGood
<1>4. FileGood' <=> \A n \in 1 .. Len(file') : GoodEntry(file[n])'
  BY DEF FileGood
<1>5. ASSUME NEW n \in 1 .. Len(file'), GoodEntry(file'[n])
      PROVE  GoodEntry(file[n])'
  <2>1. ASSUME NEW e, e = file'[n]
        PROVE  GoodEntry(e)'
    <3>1. GoodEntry(e)
      BY <1>5, <2>1
    <3>. HIDE DEF GoodEntry
    <3>. QED  BY <3>1, <1>2
  <2>. QED  BY <2>1
<1>6. \A n \in 1 .. Len(file) : GoodEntry(file[n])
  BY <1>3 DEF AllGood
<1>. HIDE DEF GoodEntry
<1>7. CASE file' = file
  BY <1>4, <1>5, <1>6, <1>7
<1>8. CASE file' = <<>>
  <2>1. 1 .. Len(file') = {}
    BY <1>8, EmptySeq
  <2>. QED  BY <1>4, <2>1
<1>9. ASSUME NEW c \in Calls, NEW form \in {"line", "torn", "glued"}, resp[c] # Nothing,
             file' = Append(file, Entry(c, form))
      PROVE  FileGood'
  <2>1. /\ Len(file') = Len(file) + 1
        /\ \A n \in 1 .. Len(file) : file'[n] = file[n]
        /\ file'[Len(file) + 1] = Entry(c, form)
    BY <1>1, <1>9, FileGrows
  <2>2. Len(file) \in Nat
    BY <1>1, LenProperties DEF TypeOK
  <2>3. GoodEntry(Entry(c, form))
    <3>1. Good(resp[c], request[c]) /\ Own(c, resp[c])
      BY <1>9 DEF AllGood, RespGood
    <3>2. Entry(c, form) \in Entries
      BY <1>1, <1>9 DEF Entry, Entries, TypeOK
    <3>3. Entry(c, form).call = c /\ Entry(c, form).resp = resp[c]
      BY DEF Entry
    <3>. QED  BY <1>9, <3>1, <3>2, <3>3 DEF GoodEntry
  <2>4. ASSUME NEW n \in 1 .. Len(file')
        PROVE  GoodEntry(file'[n])
    <3>1. CASE n \in 1 .. Len(file)
      BY <1>6, <2>1, <3>1
    <3>2. CASE n = Len(file) + 1
      BY <2>1, <2>3, <3>2
    <3>. QED  BY <2>1, <2>2, <3>1, <3>2
  <2>. QED  BY <1>4, <1>5, <2>4
<1>. QED  BY <1>7, <1>8, <1>9, FileSteps

LEMMA GoodHolds == Spec => []AllGood
<1>1. Init => AllGood
  <2>. SUFFICES ASSUME Init PROVE AllGood
    OBVIOUS
  <2>1. file = <<>> /\ 1 .. Len(<<>>) = {}
    BY EmptySeq DEF Init
  <2>. QED  BY <2>1 DEF Init, AllGood, RespGood, StoreGood, FileGood
<1>2. Inv /\ AllGood /\ [Next]_vars => AllGood'
  BY RespGoodStep, StoreGoodStep, FileGoodStep DEF AllGood
<1>. QED  BY <1>1, <1>2, InvHolds, PTL DEF Spec

\* Every entry that the sink has taken, in any order of the calls and over any
\* number of processes, has the tokens of an exchange of its own or of an identical
\* call, and their cost at the price of the model that served it.
THEOREM EntriesHaveProvenance == Spec => []EntryProvenance
<1>1. Inv /\ AllGood => EntryProvenance
  <2>. SUFFICES ASSUME Inv, AllGood PROVE EntryProvenance
    OBVIOUS
  <2>1. DOMAIN file = 1 .. Len(file)
    BY LenProperties DEF Inv, TypeOK
  <2>. QED  BY <2>1 DEF AllGood, FileGood, EntryProvenance, Good, Own
<1>. QED  BY <1>1, InvHolds, GoodHolds, PTL

-----------------------------------------------------------------------------
\* The lines of the file: what OnlyTailTorn needs of the processes that wrote them,
\* and what AnsweredAreRecorded needs of the calls that will be answered.
SinkInv ==
    /\ AnsweredAreRecorded
    /\ OnlyTailTorn
    /\ sink = "open" =>
          /\ \A c \in Calls : pc[c] = "return" =>
                \E n \in DOMAIN file : file[n].call = c /\ file[n].form # "torn"
          /\ \A n \in DOMAIN file : file[n].form = "torn" => file[n].session < session
    /\ \A n \in DOMAIN file : file[n].session <= session
    /\ \A n, k \in DOMAIN file : n < k => file[n].session <= file[k].session

\* All steps but those of the sink leave it alone, or close it.
LEMMA SinkSteps ==
    ASSUME TypeOK, [Next]_vars
    PROVE  \/ /\ UNCHANGED <<file, answered, session>>
              /\ sink' \in {sink, "closed"}
              /\ \A c \in Calls : pc[c] \in {"return", "done", "lost"} => pc'[c] = pc[c]
              /\ \A c \in Calls : pc'[c] = "return" => pc[c] = "return"
           \/ \E c \in Calls : Record(c) \/ RecordFails(c) \/ RecordRefused(c) \/ Return(c)
           \/ Restart
<1>1. pc \in [Calls -> Places]
  BY DEF TypeOK
<1>2. CASE \E d \in Calls : Adapter(d)
  BY <1>1, <1>2 DEF Adapter, Served, NotServed, ReplyLost, NoChoices, Escalate, Accept,
                    LeaveLoop, WayUp, Goto, sinkVars
<1>3. CASE \E d \in Calls : Miss(d) \/ Hit(d) \/ Store(d)
  BY <1>1, <1>3 DEF Miss, Hit, Store, Goto, sinkVars
<1>4. CASE (\E q \in Requests : Forget(q)) \/ Close \/ UNCHANGED vars
  BY <1>4 DEF Forget, Close, vars, callVars, sinkVars
<1>. QED  BY <1>2, <1>3, <1>4 DEF Next, Caller

\* Entries are of calls of Calls, and their processes are numbered.
LEMMA FileFacts ==
    ASSUME TypeOK
    PROVE  /\ file \in Seq(Entries) /\ Len(file) \in Nat /\ session \in Nat
           /\ DOMAIN file = 1 .. Len(file)
           /\ \A n \in 1 .. Len(file) : file[n].call \in Calls /\ file[n].session \in Nat
<1>1. file \in Seq(Entries) /\ session \in Nat
  BY DEF TypeOK
<1>2. \A n \in 1 .. Len(file) : file[n] \in Entries
  BY <1>1, ElementOfSeq
<1>. QED  BY <1>1, <1>2, LenProperties DEF Entries

\* One more entry, of a call that has none: what it does to the file.
LEMMA EntryAdded ==
    ASSUME Inv, SinkInv, NEW c \in Calls, pc[c] = "record", sink = "open",
           NEW form \in {"line", "torn", "glued"}, form = "glued" => Form = "glued",
           file' = Append(file, Entry(c, form))
    PROVE  /\ DOMAIN file' = 1 .. Len(file) + 1
           /\ \A n \in 1 .. Len(file) : file'[n] = file[n] /\ file[n].call # c
           /\ file'[Len(file) + 1] = Entry(c, form)
           /\ \A n, k \in DOMAIN file' : file'[k].call = file'[n].call => k = n
           /\ OnlyTailTorn'
           /\ \A n \in DOMAIN file' : file'[n].session <= session
           /\ \A n, k \in DOMAIN file' : n < k => file'[n].session <= file'[k].session
<1>1. TypeOK /\ resp[c] # Nothing
  BY DEF Inv, TypeOK
<1>2. /\ Len(file) \in Nat /\ session \in Nat /\ DOMAIN file = 1 .. Len(file)
      /\ \A n \in 1 .. Len(file) : file[n].call \in Calls /\ file[n].session \in Nat
  BY <1>1, FileFacts
<1>3. /\ file' \in Seq(Entries) /\ Len(file') = Len(file) + 1
      /\ \A n \in 1 .. Len(file) : file'[n] = file[n]
      /\ file'[Len(file) + 1] = Entry(c, form)
  BY <1>1, FileGrows
<1>4. DOMAIN file' = 1 .. Len(file) + 1
  BY <1>3, LenProperties
<1>5. /\ Entry(c, form).call = c /\ Entry(c, form).form = form
      /\ Entry(c, form).session = session
  BY DEF Entry
<1>6. \A n \in 1 .. Len(file) : file[n].call # c
  BY <1>2 DEF SinkInv, AnsweredAreRecorded
<1>7. \A n \in 1 .. Len(file) + 1 : n \in 1 .. Len(file) \/ n = Len(file) + 1
  BY <1>2
<1>8. \A n \in 1 .. Len(file) :
         /\ file[n].session <= session
         /\ form = "glued" \/ file[n].form = "torn" => file[n].session < session
  <2>. SUFFICES ASSUME NEW n \in 1 .. Len(file)
                PROVE  /\ file[n].session <= session
                       /\ form = "glued" \/ file[n].form = "torn" => file[n].session < session
    OBVIOUS
  <2>1. file[n].session <= session /\ (file[n].form = "torn" => file[n].session < session)
    BY <1>2 DEF SinkInv
  <2>2. ASSUME form = "glued"
        PROVE  file[n].session < session
    <3>1. /\ file[Len(file)].form = "torn" /\ Len(file) \in 1 .. Len(file)
      BY <1>2, <2>2 DEF Form
    <3>2. file[Len(file)].session < session
      BY <1>2, <3>1 DEF SinkInv
    <3>3. n = Len(file) \/ file[n].session <= file[Len(file)].session
      <4>1. n = Len(file) \/ n < Len(file)
        BY <1>2
      <4>2. \A i, k \in 1 .. Len(file) : i < k => file[i].session <= file[k].session
        BY <1>2 DEF SinkInv
      <4>. QED  BY <3>1, <4>1, <4>2
    <3>. QED  BY <1>2, <3>1, <3>2, <3>3
  <2>. QED  BY <2>1, <2>2
<1>9. ASSUME NEW n \in 1 .. Len(file) + 1, NEW k \in 1 .. Len(file) + 1,
             file'[k].call = file'[n].call
      PROVE  k = n
  <2>1. CASE n \in 1 .. Len(file) /\ k \in 1 .. Len(file)
    BY <1>2, <1>3, <1>9, <2>1 DEF SinkInv, AnsweredAreRecorded
  <2>2. CASE n = Len(file) + 1 /\ k \in 1 .. Len(file)
    BY <1>3, <1>5, <1>6, <1>9, <2>2
  <2>3. CASE k = Len(file) + 1 /\ n \in 1 .. Len(file)
    BY <1>3, <1>5, <1>6, <1>9, <2>3
  <2>. QED  BY <1>7, <2>1, <2>2, <2>3
<1>10. ASSUME NEW n \in 1 .. Len(file) + 1, NEW k \in 1 .. Len(file) + 1, n < k
       PROVE  /\ file'[n].session <= file'[k].session
              /\ file'[n].form = "torn" \/ file'[k].form = "glued"
                 => file'[n].session < file'[k].session
  <2>1. n \in 1 .. Len(file) /\ file'[n] = file[n]
    BY <1>2, <1>3, <1>10
  <2>2. CASE k \in 1 .. Len(file)
    BY <1>2, <1>3, <1>10, <2>1, <2>2 DEF SinkInv, OnlyTailTorn
  <2>3. CASE k = Len(file) + 1
    BY <1>3, <1>5, <1>8, <2>1, <2>3
  <2>. QED  BY <1>7, <2>2, <2>3
<1>11. \A n \in 1 .. Len(file) + 1 : file'[n].session <= session
  BY <1>2, <1>3, <1>5, <1>7, <1>8
<1>12. OnlyTailTorn'
  BY <1>4, <1>10 DEF OnlyTailTorn
<1>. QED  BY <1>3, <1>4, <1>6, <1>9, <1>10, <1>11, <1>12

\* The entry of a call that goes on to return.
LEMMA LineAdded ==
    ASSUME Inv, SinkInv, NEW c \in Calls, pc[c] = "record", sink = "open", Goto(c, "return"),
           NEW form \in {"line", "torn", "glued"}, form = "glued" => Form = "glued",
           file' = Append(file, Entry(c, form)), UNCHANGED <<session, answered>>,
           sink' = "open" => form # "torn"
    PROVE  SinkInv'
<1>1. TypeOK
  BY DEF Inv
<1>2. pc'[c] = "return" /\ \A d \in Calls \ {c} : pc'[d] = pc[d]
  BY <1>1 DEF Goto, TypeOK
<1>3. /\ Len(file) \in Nat /\ session \in Nat /\ DOMAIN file = 1 .. Len(file)
      /\ \A n \in 1 .. Len(file) : file[n].call \in Calls /\ file[n].session \in Nat
  BY <1>1, FileFacts
<1>4. /\ DOMAIN file' = 1 .. Len(file) + 1
      /\ \A n \in 1 .. Len(file) : file'[n] = file[n] /\ file[n].call # c
      /\ file'[Len(file) + 1] = Entry(c, form)
  BY EntryAdded
<1>5. /\ \A n, k \in DOMAIN file' : file'[k].call = file'[n].call => k = n
      /\ OnlyTailTorn'
      /\ \A n \in DOMAIN file' : file'[n].session <= session
      /\ \A n, k \in DOMAIN file' : n < k => file'[n].session <= file'[k].session
  BY EntryAdded
<1>6. Entry(c, form).call = c /\ Entry(c, form).form = form
  BY DEF Entry
<1>7. \A n \in 1 .. Len(file) + 1 : n \in 1 .. Len(file) \/ n = Len(file) + 1
  BY <1>3
<1>8. ASSUME sink' = "open", NEW d \in Calls, pc'[d] = "return" \/ d \in answered
      PROVE  \E n \in DOMAIN file' : file'[n].call = d /\ file'[n].form # "torn"
  <2>1. CASE d = c
    <3>1. Len(file) + 1 \in DOMAIN file'
      BY <1>3, <1>4
    <3>. QED  BY <1>4, <1>6, <1>8, <2>1, <3>1
  <2>2. CASE d # c
    <3>1. PICK n \in DOMAIN file : file[n].call = d /\ file[n].form # "torn"
      BY <1>2, <1>8, <2>2 DEF SinkInv, AnsweredAreRecorded
    <3>2. n \in DOMAIN file' /\ file'[n] = file[n]
      BY <1>3, <1>4
    <3>. QED  BY <3>1, <3>2
  <2>. QED  BY <2>1, <2>2
<1>9. ASSUME NEW n \in 1 .. Len(file) + 1
      PROVE  \/ pc'[file'[n].call] \in {"return", "done"}
             \/ pc'[file'[n].call] = "lost" /\ file'[n].session < session
  <2>1. CASE n \in 1 .. Len(file)
    BY <1>2, <1>3, <1>4, <2>1 DEF SinkInv, AnsweredAreRecorded
  <2>2. CASE n = Len(file) + 1
    BY <1>2, <1>4, <1>6, <2>2
  <2>. QED  BY <1>7, <2>1, <2>2
<1>10. ASSUME sink' = "open", NEW n \in 1 .. Len(file) + 1, file'[n].form = "torn"
       PROVE  file'[n].session < session
  <2>1. n \in 1 .. Len(file) /\ file'[n] = file[n]
    BY <1>4, <1>6, <1>7, <1>10
  <2>. QED  BY <1>3, <1>10, <2>1 DEF SinkInv
<1>11. answered' = answered /\ answered \subseteq Calls /\ session' = session
  BY <1>1 DEF TypeOK
<1>12. AnsweredAreRecorded'
  BY <1>4, <1>5, <1>8, <1>9, <1>11 DEF AnsweredAreRecorded
<1>. QED  BY <1>4, <1>5, <1>8, <1>10, <1>11, <1>12 DEF SinkInv

\* A new process: its calls are none of those that have an entry.
LEMMA RestartKeepsSink == ASSUME Inv, SinkInv, Restart PROVE SinkInv'
<1>1. TypeOK
  BY DEF Inv
<1>2. /\ session' = session + 1 /\ answered' = {} /\ sink' = "open"
      /\ file' = <<>> \/ file' \in LeftBehind
      /\ \A d \in Calls : pc'[d] = IF pc[d] \in {"idle", "done", "failed"} THEN pc[d] ELSE "lost"
  BY DEF Restart
<1>3. /\ Len(file) \in Nat /\ session \in Nat /\ DOMAIN file = 1 .. Len(file)
      /\ \A n \in 1 .. Len(file) : file[n].call \in Calls /\ file[n].session \in Nat
  BY <1>1, FileFacts
<1>4. CASE file' = <<>>
  <2>1. DOMAIN file' = {}
    BY <1>4
  <2>. QED  BY <1>2, <2>1 DEF SinkInv, AnsweredAreRecorded, OnlyTailTorn
<1>5. CASE file' = file
  <2>1. \A n \in DOMAIN file : file[n].session < session'
    BY <1>2, <1>3 DEF SinkInv
  <2>2. \A n \in DOMAIN file : pc'[file[n].call] \in {"done", "lost"}
    BY <1>2, <1>3 DEF SinkInv, AnsweredAreRecorded
  <2>3. AnsweredAreRecorded' /\ OnlyTailTorn'
    BY <1>2, <1>5, <2>1, <2>2 DEF SinkInv, AnsweredAreRecorded, OnlyTailTorn
  <2>. QED  BY <1>2, <1>3, <1>5, <2>1, <2>3 DEF SinkInv
<1>6. ASSUME NEW c \in Calls, pc[c] = "record", sink = "open", file' = AppendPart(c)
      PROVE  SinkInv'
  <2>1. /\ DOMAIN file' = 1 .. Len(file) + 1
        /\ \A n \in 1 .. Len(file) : file'[n] = file[n] /\ file[n].call # c
        /\ file'[Len(file) + 1] = Entry(c, "torn")
        /\ \A n, k \in DOMAIN file' : file'[k].call = file'[n].call => k = n
        /\ OnlyTailTorn'
        /\ \A n \in DOMAIN file' : file'[n].session <= session
        /\ \A n, k \in DOMAIN file' : n < k => file'[n].session <= file'[k].session
    BY <1>6, EntryAdded DEF AppendPart
  <2>2. Entry(c, "torn").call = c /\ Entry(c, "torn").session = session
    BY DEF Entry
  <2>3. ASSUME NEW n \in DOMAIN file'
        PROVE  file'[n].session < session' /\ file'[n].session <= session'
    <3>1. CASE n \in 1 .. Len(file)
      <4>1. file'[n].session \in Nat /\ file'[n].session <= session
        BY <1>3, <2>1, <3>1
      <4>. QED  BY <1>2, <1>3, <4>1
    <3>2. CASE n = Len(file) + 1
      BY <1>2, <1>3, <2>1, <2>2, <3>2
    <3>. QED  BY <1>3, <2>1, <3>1, <3>2
  <2>4. ASSUME NEW n \in DOMAIN file'
        PROVE  pc'[file'[n].call] \in {"done", "lost"}
    <3>1. CASE n \in 1 .. Len(file)
      BY <1>2, <1>3, <2>1, <3>1 DEF SinkInv, AnsweredAreRecorded
    <3>2. CASE n = Len(file) + 1
      BY <1>2, <1>6, <2>1, <2>2, <3>2
    <3>. QED  BY <1>3, <2>1, <3>1, <3>2
  <2>5. AnsweredAreRecorded'
    BY <1>2, <2>1, <2>3, <2>4 DEF AnsweredAreRecorded
  <2>. QED  BY <1>2, <2>1, <2>3, <2>5 DEF SinkInv
<1>. QED  BY <1>2, <1>4, <1>5, <1>6 DEF LeftBehind

LEMMA SinkStep == ASSUME Inv, SinkInv, [Next]_vars PROVE SinkInv'
<1>1. TypeOK /\ pc \in [Calls -> Places] /\ answered \subseteq Calls
  BY DEF Inv, TypeOK
<1>2. /\ DOMAIN file = 1 .. Len(file)
      /\ \A n \in 1 .. Len(file) : file[n].call \in Calls /\ file[n].session \in Nat
  BY <1>1, FileFacts
<1>3. CASE /\ UNCHANGED <<file, answered, session>>
           /\ sink' \in {sink, "closed"}
           /\ \A c \in Calls : pc[c] \in {"return", "done", "lost"} => pc'[c] = pc[c]
           /\ \A c \in Calls : pc'[c] = "return" => pc[c] = "return"
  <2>1. AnsweredAreRecorded'
    BY <1>2, <1>3 DEF SinkInv, AnsweredAreRecorded
  <2>. QED  BY <1>2, <1>3, <2>1 DEF SinkInv, OnlyTailTorn
<1>4. ASSUME NEW c \in Calls, Record(c)
      PROVE  SinkInv'
  <2>1. Form \in {"line", "glued"}
    BY DEF Form
  <2>. QED  BY <1>4, <2>1, LineAdded DEF Record, AppendEntry
<1>5. ASSUME NEW c \in Calls, RecordFails(c) \/ RecordRefused(c), file' = file
      PROVE  SinkInv'
  <2>1. /\ session' = session /\ sink' # "open"
        /\ \A d \in Calls : pc[d] \in {"return", "done", "lost"} => pc'[d] = pc[d]
    BY <1>1, <1>5 DEF RecordFails, RecordRefused, Break, DropError, Goto, sinkVars
  <2>2. AnsweredAreRecorded'
    BY <1>2, <1>5, <2>1 DEF SinkInv, AnsweredAreRecorded
  <2>. QED  BY <1>2, <1>5, <2>1, <2>2 DEF SinkInv, OnlyTailTorn
<1>6. ASSUME NEW c \in Calls, RecordFails(c), file' # file
      PROVE  SinkInv'
  <2>1. /\ pc[c] = "record" /\ sink = "open" /\ Goto(c, "return")
        /\ file' = Append(file, Entry(c, "torn")) /\ sink' = "broken"
        /\ UNCHANGED <<session, answered>>
    BY <1>6 DEF RecordFails, AppendPart, Break, DropError
  <2>. QED  BY <2>1, LineAdded
<1>7. ASSUME NEW c \in Calls, Return(c)
      PROVE  SinkInv'
  <2>1. /\ pc[c] = "return" /\ pc'[c] = "done" /\ \A d \in Calls \ {c} : pc'[d] = pc[d]
        /\ answered' = answered \cup {c} /\ UNCHANGED <<sink, file, session>>
    BY <1>1, <1>7 DEF Return, Goto
  <2>2. AnsweredAreRecorded'
    BY <1>2, <2>1 DEF SinkInv, AnsweredAreRecorded
  <2>. QED  BY <1>2, <2>1, <2>2 DEF SinkInv, OnlyTailTorn
<1>8. \A c \in Calls : RecordRefused(c) => file' = file
  BY DEF RecordRefused, sinkVars
<1>. QED  BY <1>1, <1>3, <1>4, <1>5, <1>6, <1>7, <1>8, RestartKeepsSink, SinkSteps

LEMMA SinkHolds == Spec => []SinkInv
<1>1. Init => SinkInv
  <2>. SUFFICES ASSUME Init PROVE SinkInv
    OBVIOUS
  <2>1. DOMAIN file = {} /\ answered = {} /\ \A c \in Calls : pc[c] = "idle"
    BY DEF Init
  <2>. QED  BY <2>1 DEF SinkInv, AnsweredAreRecorded, OnlyTailTorn
<1>2. Inv /\ SinkInv /\ [Next]_vars => SinkInv'
  BY SinkStep
<1>. QED  BY <1>1, <1>2, InvHolds, PTL DEF Spec

\* As long as the sink takes every write, each call that was answered since it was
\* opened has its entry in full; none has two, and one that is not answered has one
\* only if its process ended in the middle of the Write or before the return.
THEOREM AnswersRecorded == Spec => []AnsweredAreRecorded
<1>. QED  BY SinkHolds, PTL DEF SinkInv

\* No process writes after a line that it has torn, and only the first entry of the
\* next one is glued to it.
THEOREM TornLinesEnd == Spec => []OnlyTailTorn
<1>. QED  BY SinkHolds, PTL DEF SinkInv

-----------------------------------------------------------------------------
LEMMA HitStep == ASSUME Inv, HitCostsNothing, [Next]_vars PROVE HitCostsNothing'
<1>. SUFFICES ASSUME NEW c \in Calls, chain'.dedup, pc'[c] \in {"record", "return", "done"}
              PROVE  resp'[c].status = "hit" <=> exchanges'[c] = <<>>
  BY DEF HitCostsNothing
<1>1. TypeOK /\ Bookkeeping /\ chain' = chain
  BY Frozen DEF Inv
<1>2. /\ resp \in [Calls -> Responses \cup {Nothing}] /\ request[c] \in Requests
      /\ store \in [Requests -> Responses \cup {Nothing}]
      /\ pc \in [Calls -> Places]
  BY <1>1 DEF TypeOK
<1>3. CASE pc[c] \in {"record", "return", "done"} /\ resp'[c] = resp[c]
  <2>1. resp[c] # Nothing
    BY <1>1, <1>3 DEF TypeOK
  <2>2. exchanges'[c] = exchanges[c]
    BY <2>1, Frozen
  <2>. QED  BY <1>1, <1>3, <2>2 DEF HitCostsNothing
<1>4. CASE Hit(c)
  <2>1. /\ pc[c] = "idle" /\ store[request[c]] \in Responses /\ exchanges' = exchanges
        /\ resp'[c] = [store[request[c]] EXCEPT !.status = "hit"]
    BY <1>2, <1>4 DEF Hit
  <2>2. resp'[c].status = "hit"
    BY <2>1 DEF Responses
  <2>3. exchanges[c] = <<>>
    BY <1>1, <2>1 DEF Bookkeeping
  <2>. QED  BY <2>1, <2>2, <2>3
<1>5. CASE Store(c)
  <2>1. /\ pc[c] = "store" /\ exchanges' = exchanges /\ resp'[c] = StatusOfMiss(resp[c])
    BY <1>2, <1>5 DEF Store
  <2>2. resp[c] \in Responses /\ exchanges[c] # <<>>
    BY <1>1, <1>2, <2>1 DEF TypeOK, Bookkeeping
  <2>3. resp'[c].status = "miss"
    BY <2>1, <2>2 DEF Responses, StatusOfMiss
  <2>. QED  BY <2>1, <2>2, <2>3
<1>6. (pc[c] \in {"record", "return", "done"} /\ resp'[c] = resp[c]) \/ Hit(c) \/ Store(c)
  <2>1. CASE \E d \in Calls : Adapter(d)
    <3>1. PICK d \in Calls : Adapter(d)
      BY <2>1
    <3>2. d # c
      BY <1>1, <1>2, <3>1 DEF Adapter, Served, NotServed, ReplyLost, NoChoices, Escalate, Accept,
                              LeaveLoop, WayUp, Goto
    <3>. QED  BY <1>2, <3>1, <3>2 DEF Adapter, Served, NotServed, ReplyLost, NoChoices, Escalate,
                                      Accept, LeaveLoop, Goto
  <2>2. CASE \E d \in Calls : Caller(d)
    BY <1>2, <2>2 DEF Caller, Miss, Hit, Store, Record, RecordFails, RecordRefused, Return,
                      DropError, Goto
  <2>3. CASE (\E q \in Requests : Forget(q)) \/ Close \/ Restart \/ UNCHANGED vars
    BY <2>3 DEF Forget, Close, Restart, vars, callVars
  <2>. QED  BY <2>1, <2>2, <2>3 DEF Next
<1>. QED  BY <1>3, <1>4, <1>5, <1>6

\* Under dedup the status of a response tells whether its call asked a provider, for
\* any statuses that the provider reports: it tells no more, as llmint.go:79-85 says,
\* how much of the input the provider's own cache held.
THEOREM HitsCostNothing == Spec => []HitCostsNothing
<1>1. Init => HitCostsNothing
  BY DEF Init, HitCostsNothing
<1>2. Inv /\ HitCostsNothing /\ [Next]_vars => HitCostsNothing'
  BY HitStep
<1>. QED  BY <1>1, <1>2, InvHolds, PTL DEF Spec

-----------------------------------------------------------------------------
\* Of one call, a step asks the next tier, settles, or does not count.
LEMMA StepImplements ==
    ASSUME Inv, [Next]_vars, NEW c \in Calls
    PROVE  [L(c)!Next]_(L(c)!vars)
<1>1. TypeOK /\ Bookkeeping /\ chain' = chain
  BY Frozen DEF Inv
<1>2. /\ Len(exchanges[c]) \in Nat /\ Len(chain.tiers) \in Nat
      /\ exchanges[c] = <<>> <=> Len(exchanges[c]) = 0
      /\ chain.tiers = <<>> <=> Len(chain.tiers) = 0
  BY <1>1, HistoryFacts, ConstantFacts DEF TypeOK
<1>3. /\ resp \in [Calls -> Responses \cup {Nothing}]
      /\ exchanges \in [Calls -> Seq(Exchanges)]
      /\ pc \in [Calls -> Places]
  BY <1>1 DEF TypeOK
<1>. DEFINE Same == Len(exchanges'[c]) = Len(exchanges[c])
            Open == LadderOutcome(c) = "open"
<1>4. Same /\ LadderOutcome(c)' = LadderOutcome(c) => [L(c)!Next]_(L(c)!vars)
  BY <1>1 DEF L!vars
<1>5. pc[c] \in {"idle", "ask", "wait"} => Open /\ resp[c] = Nothing
  BY <1>1 DEF LadderOutcome, Bookkeeping
<1>6. exchanges'[c] = exchanges[c] /\ (pc'[c] = "failed" <=> pc[c] = "failed")
         /\ (resp'[c] = Nothing <=> resp[c] = Nothing)
      => [L(c)!Next]_(L(c)!vars)
  BY <1>4 DEF LadderOutcome
<1>7. CASE (\E m \in Models, u \in Usages : Served(c, m, u)) \/ NotServed(c)
  <2>1. PICK m \in Models \cup {NoModel}, u \in Counts \cup {Nothing}, seen \in {"pending", "error"} :
           Sent(c, m, u, seen)
    BY <1>7, AccountAssumption DEF Served, NotServed
  <2>2. /\ pc[c] = "ask" /\ UNCHANGED <<chain, request, resp>>
        /\ pc'[c] \in {"wait", "failed"}
    BY <1>3, <1>7 DEF Served, NotServed, Goto
  <2>3. Len(exchanges'[c]) = Len(exchanges[c]) + 1
    BY <1>1, <2>1, <2>2, SentFacts
  <2>4. Len(exchanges[c]) < Len(chain.tiers)
    BY <1>1, <2>2 DEF TypeOK
  <2>5. LadderOutcome(c)' \in {"open", "error"}
    BY <1>5, <2>2 DEF LadderOutcome
  <2>6. \E o \in {"open", "response", "error"} : L(c)!CallNext(o)
    BY <1>1, <1>5, <2>2, <2>3, <2>4, <2>5 DEF L!CallNext
  <2>. QED  BY <2>6 DEF L!Next
<1>8. CASE ReplyLost(c) \/ NoChoices(c) \/ Escalate(c) \/ Accept(c)
  <2>1. pc[c] = "wait" /\ \E what \in {"error", "read"} : Seen(c, what)
    BY <1>8 DEF ReplyLost, NoChoices, Escalate, Accept
  <2>2. exchanges[c] # <<>>
    BY <1>1, <2>1 DEF Bookkeeping
  <2>3. Same /\ exchanges'[c] # <<>>
    BY <1>1, <2>1, <2>2, SeenFacts
  <2>4. Len(exchanges[c]) > 0
    BY <1>2, <2>2
  <2>5. CASE Escalate(c)
    <3>1. pc'[c] = "ask" /\ resp'[c] = Nothing
      BY <1>3, <1>5, <2>1, <2>5 DEF Escalate, Goto
    <3>2. LadderOutcome(c)' = "open"
      BY <3>1 DEF LadderOutcome
    <3>. QED  BY <1>4, <1>5, <2>1, <2>3, <3>2
  <2>6. CASE ~Escalate(c)
    <3>1. LadderOutcome(c)' \in {"response", "error"}
      <4>1. CASE ReplyLost(c) \/ NoChoices(c)
        <5>1. pc'[c] = "failed"
          BY <1>3, <4>1 DEF ReplyLost, NoChoices, Goto
        <5>. QED  BY <5>1 DEF LadderOutcome
      <4>2. CASE Accept(c)
        <5>1. Response(c) \in Responses /\ Nothing \notin Responses
          BY <1>1, <2>1, ResponseFacts, ConstantFacts DEF TypeOK
        <5>2. resp'[c] # Nothing
          BY <1>3, <4>2, <5>1 DEF Accept
        <5>. QED  BY <2>3, <5>2 DEF LadderOutcome
      <4>. QED  BY <1>8, <2>6, <4>1, <4>2
    <3>2. \E o \in {"response", "error"} : L(c)!Settle(o)
      BY <1>1, <1>5, <2>1, <2>3, <2>4, <3>1 DEF L!Settle
    <3>. QED  BY <3>2 DEF L!Next
  <2>. QED  BY <2>5, <2>6
<1>9. CASE Miss(c)
  <2>1. /\ pc[c] = "idle" /\ exchanges' = exchanges /\ resp' = resp
        /\ pc'[c] = IF chain.tiers = <<>> THEN "failed" ELSE "ask"
    BY <1>3, <1>9 DEF Miss, Goto
  <2>2. CASE chain.tiers # <<>>
    BY <1>6, <2>1, <2>2
  <2>3. CASE chain.tiers = <<>>
    <3>1. LadderOutcome(c)' = "error"
      BY <1>5, <2>1, <2>3 DEF LadderOutcome
    <3>2. L(c)!NoModels
      BY <1>1, <1>2, <1>5, <2>1, <2>3, <3>1 DEF L!NoModels
    <3>. QED  BY <3>2 DEF L!Next
  <2>. QED  BY <2>2, <2>3
<1>10. CASE Hit(c)
  <2>1. /\ pc[c] = "idle" /\ exchanges' = exchanges /\ pc'[c] = "record"
        /\ exchanges[c] = <<>>
    BY <1>1, <1>3, <1>10 DEF Hit, Goto, Bookkeeping
  <2>. QED  BY <1>4, <2>1 DEF LadderOutcome
<1>11. CASE Store(c) \/ Record(c) \/ RecordFails(c) \/ RecordRefused(c) \/ Return(c)
  <2>1. /\ pc[c] \in {"store", "record", "return"} /\ exchanges' = exchanges
        /\ pc'[c] \in {"record", "return", "done"}
    BY <1>3, <1>11 DEF Store, Record, RecordFails, RecordRefused, Return, DropError, Goto
  <2>2. resp[c] # Nothing
    BY <1>1, <2>1 DEF TypeOK
  <2>. QED  BY <1>6, <2>1, <2>2, Frozen
<1>12. ASSUME NEW d \in Calls \ {c}, Adapter(d) \/ Caller(d)
       PROVE  exchanges'[c] = exchanges[c] /\ pc'[c] = pc[c] /\ resp'[c] = resp[c]
  <2>1. CASE Adapter(d)
    BY <1>3, <1>12, <2>1 DEF Adapter, Served, NotServed, ReplyLost, NoChoices, Escalate, Accept,
                             LeaveLoop, Goto, Sent, Seen
  <2>2. CASE Caller(d)
    BY <1>3, <1>12, <2>2 DEF Caller, Miss, Hit, Store, Record, RecordFails, RecordRefused, Return,
                             DropError, Goto
  <2>. QED  BY <1>12, <2>1, <2>2
<1>13. CASE (\E q \in Requests : Forget(q)) \/ Close \/ Restart \/ UNCHANGED vars
  <2>1. /\ exchanges' = exchanges /\ resp' = resp
        /\ pc'[c] = "failed" <=> pc[c] = "failed"
    BY <1>13 DEF Forget, Close, Restart, vars, callVars
  <2>. QED  BY <1>6, <2>1
<1>14. CASE \E d \in Calls \ {c} : Adapter(d) \/ Caller(d)
  BY <1>6, <1>12, <1>14
<1>15. CASE Adapter(c) \/ Caller(c)
  BY <1>7, <1>8, <1>9, <1>10, <1>11, <1>15 DEF Adapter, Caller
<1>. QED  BY <1>13, <1>14, <1>15 DEF Next

\* Each call asks its tiers in order, each at most once, and none once it has
\* settled, in any interleaving of the calls and over any number of processes.
THEOREM Refinement == Spec => ImplementsLadder
<1>1. Init => \A c \in Calls : L(c)!Init
  <2>. SUFFICES ASSUME Init, NEW c \in Calls PROVE L(c)!Init
    OBVIOUS
  <2>1. chain \in Chains /\ exchanges[c] = <<>> /\ resp[c] = Nothing /\ pc[c] = "idle"
    BY DEF Init
  <2>2. Len(chain.tiers) \in Nat
    BY <2>1, ConstantFacts
  <2>. QED  BY <2>1, <2>2, EmptySeq DEF L!Init, LadderOutcome
<1>2. Inv /\ [Next]_vars => \A c \in Calls : [L(c)!Next]_(L(c)!vars)
  BY StepImplements
<1>3. [Next]_vars /\ Inv => [\A c \in Calls : [L(c)!Next]_(L(c)!vars)]_vars
  BY <1>2
<1>. QED  BY <1>1, <1>3, InvHolds, PTL DEF Spec, ImplementsLadder

-----------------------------------------------------------------------------
\* Induction, for a set in the place of a predicate: the least number that is not
\* in T would be 0 or come after one that is.
LEMMA SetInduction ==
    ASSUME NEW T, 0 \in T, \A n \in Nat : n \in T => n + 1 \in T
    PROVE  Nat \subseteq T
<1>. DEFINE Missing == Nat \ T
<1>. SUFFICES ASSUME Missing # {}
              PROVE  FALSE
  OBVIOUS
<1>1. Missing \subseteq Nat
  OBVIOUS
<1>2. PICK x \in Missing : \A y \in Missing : <<y, x>> \notin OpToRel(<, Nat)
  <2>. HIDE DEF Missing
  <2>. QED  BY <1>1, WFMin, NatLessThanWellFounded
<1>3. \A y \in Missing : ~(y < x)
  BY <1>1, <1>2 DEF OpToRel
<1>4. x # 0 /\ x \in Nat
  BY <1>2
<1>5. x - 1 \in Nat /\ x - 1 < x
  BY <1>4
<1>6. x - 1 \in T
  BY <1>3, <1>5
<1>7. x \in T
  BY <1>4, <1>5, <1>6
<1>. QED  BY <1>2, <1>7

\* Two functions agree if they agree on 0, and on n if they do on n - 1.
StepwiseSame(N, f, h) ==
    /\ f[0] = h[0]
    /\ \A n \in 1 .. N : f[n - 1] = h[n - 1] => f[n] = h[n]

SameUpTo(N, f, h) == \A n \in 0 .. N : f[n] = h[n]

LEMMA AgreeByInduction ==
    ASSUME NEW N, N \in Nat, NEW f, NEW h, StepwiseSame(N, f, h)
    PROVE  SameUpTo(N, f, h)
<1>. USE DEF StepwiseSame, SameUpTo
<1>. DEFINE T == {n \in Nat : n <= N => f[n] = h[n]}
<1>1. 0 \in T
  OBVIOUS
<1>2. ASSUME NEW n \in Nat, n \in T
      PROVE  n + 1 \in T
  <2>1. (n + 1) - 1 = n /\ (n + 1 <= N => n + 1 \in 1 .. N /\ f[n] = h[n])
    BY <1>2
  <2>. QED  BY <2>1
<1>3. Nat \subseteq T
  <2>. HIDE DEF T
  <2>. QED  BY <1>1, <1>2, SetInduction
<1>. QED  BY <1>3

\* What a loop of N rounds has after each, if it starts with a and the n-th round
\* turns what it has into g[n] of it.
IsLoop(f, N, X, a, g) ==
    /\ f \in [0 .. N -> X]
    /\ f[0] = a
    /\ \A n \in 1 .. N : f[n] = g[n][f[n - 1]]

\* There is such a function: nothing but induction shows it.
LEMMA LoopExists ==
    ASSUME NEW N \in Nat, NEW X, NEW a \in X, NEW g, g \in [1 .. N -> [X -> X]]
    PROVE  \E f : IsLoop(f, N, X, a, g)
<1>. DEFINE Runs(k, f) == f[0] = a /\ \A n \in 1 .. k : f[n] = g[n][f[n - 1]]
            T == {k \in Nat : k <= N => \E f \in [0 .. k -> X] : Runs(k, f)}
<1>1. 0 \in T
  <2>. DEFINE f == [n \in 0 .. 0 |-> a]
  <2>1. f \in [0 .. 0 -> X] /\ Runs(0, f)
    OBVIOUS
  <2>. QED  BY <2>1
<1>2. ASSUME NEW k \in Nat, k \in T
      PROVE  k + 1 \in T
  <2>. SUFFICES ASSUME k + 1 <= N
                PROVE  \E f \in [0 .. k + 1 -> X] : Runs(k + 1, f)
    OBVIOUS
  <2>1. PICK f \in [0 .. k -> X] : Runs(k, f)
    BY <1>2
  <2>. DEFINE h == [n \in 0 .. k + 1 |-> IF n = k + 1 THEN g[k + 1][f[k]] ELSE f[n]]
  <2>2. g[k + 1][f[k]] \in X
    <3>1. k + 1 \in 1 .. N /\ f[k] \in X
      BY <2>1
    <3>. QED  BY <3>1
  <2>3. h \in [0 .. k + 1 -> X]
    BY <2>1, <2>2
  <2>4. h[0] = a
    BY <2>1
  <2>5. ASSUME NEW n \in 1 .. k + 1
        PROVE  h[n] = g[n][h[n - 1]]
    <3>1. n - 1 \in 0 .. k + 1 /\ n - 1 # k + 1
      OBVIOUS
    <3>2. h[n - 1] = f[n - 1]
      BY <3>1
    <3>3. CASE n = k + 1
      BY <3>2, <3>3
    <3>4. CASE n # k + 1
      BY <2>1, <3>2, <3>4
    <3>. QED  BY <3>3, <3>4
  <2>6. Runs(k + 1, h)
    BY <2>4, <2>5
  <2>. HIDE DEF h, Runs
  <2>. QED  BY <2>3, <2>6
<1>3. N \in T
  <2>. HIDE DEF T
  <2>. QED  BY <1>1, <1>2, SetInduction
<1>. QED  BY <1>3 DEF IsLoop

\* What the loop that builds the messages has after each round.
LEMMA KeptRounds ==
    ASSUME NEW S, NEW s \in Seq(S), NEW roles
    PROVE  /\ Kept(roles, s) \in [0 .. Len(s) -> Seq(S)]
           /\ Kept(roles, s)[0] = <<>>
           /\ \A n \in 1 .. Len(s) :
                 Kept(roles, s)[n] = IF s[n].role \in roles
                                     THEN Append(Kept(roles, s)[n - 1], s[n])
                                     ELSE Kept(roles, s)[n - 1]
<1>. DEFINE N == Len(s)
            Round(f, n) == IF s[n].role \in roles THEN Append(f[n - 1], s[n]) ELSE f[n - 1]
            Loop(f) == [n \in 0 .. N |-> IF n = 0 THEN <<>> ELSE Round(f, n)]
            g == [n \in 1 .. N |->
                     [acc \in Seq(S) |-> IF s[n].role \in roles THEN Append(acc, s[n]) ELSE acc]]
            K == Kept(roles, s)
<1>1. N \in Nat /\ \A n \in 1 .. N : s[n] \in S
  BY LenProperties, ElementOfSeq
<1>2. <<>> \in Seq(S)
  BY EmptySeq
<1>3. g \in [1 .. N -> [Seq(S) -> Seq(S)]]
  <2>1. \A n \in 1 .. N : \A acc \in Seq(S) : Append(acc, s[n]) \in Seq(S)
    BY <1>1, AppendProperties
  <2>. QED  BY <2>1
<1>4. PICK f \in [0 .. N -> Seq(S)] : f[0] = <<>> /\ \A n \in 1 .. N : f[n] = g[n][f[n - 1]]
  <2>. HIDE DEF g, N
  <2>1. \E h : IsLoop(h, N, Seq(S), <<>>, g)
    BY <1>1, <1>2, <1>3, LoopExists
  <2>. QED  BY <2>1 DEF IsLoop
<1>5. \A n \in 1 .. N : n - 1 \in 0 .. N /\ n - 1 \in Nat /\ n # 0
  BY <1>1
<1>6. \A n \in 1 .. N : f[n] = Round(f, n)
  BY <1>4, <1>5
<1>7. f = Loop(f)
  <2>. HIDE DEF Round, N, g
  <2>1. \A n \in 0 .. N : n = 0 \/ n \in 1 .. N
    BY <1>1
  <2>2. \A n \in 0 .. N : f[n] = IF n = 0 THEN <<>> ELSE Round(f, n)
    BY <1>4, <1>6, <2>1
  <2>. QED  BY <1>4, <2>2
<1>8. K = CHOOSE h : h = Loop(h)
  BY DEF Kept
<1>9. K = Loop(K)
  <2>. HIDE DEF Loop, K
  <2>. QED  BY <1>7, <1>8
<1>10. /\ K[0] = <<>>
       /\ \A n \in 1 .. N : K[n] = Round(K, n)
  <2>. HIDE DEF Round, K
  <2>. QED  BY <1>1, <1>5, <1>9
<1>11. \A n \in 0 .. N : K[n] = f[n]
  <2>1. \A n \in 1 .. N : K[n - 1] = f[n - 1] => K[n] = f[n]
    <3>. HIDE DEF K
    <3>. QED  BY <1>6, <1>10
  <2>2. K[0] = f[0]
    BY <1>4, <1>10
  <2>. HIDE DEF K, N
  <2>3. StepwiseSame(N, K, f)
    BY <2>1, <2>2 DEF StepwiseSame
  <2>4. SameUpTo(N, K, f)
    BY <1>1, <2>3, AgreeByInduction
  <2>. QED  BY <2>4 DEF SameUpTo
<1>12. K \in [0 .. N -> Seq(S)]
  <2>1. K = [n \in 0 .. N |-> K[n]]
    BY <1>9
  <2>. HIDE DEF K
  <2>. QED  BY <1>4, <1>11, <2>1
<1>. QED  BY <1>10, <1>12

\* What the loop has kept after k rounds depends on the first k messages only.
LEMMA KeptOfPrefix ==
    ASSUME NEW S, NEW s \in Seq(S), NEW t \in Seq(S), NEW roles, NEW k \in Nat,
           k <= Len(s), k <= Len(t), \A n \in 1 .. k : s[n] = t[n]
    PROVE  Kept(roles, s)[k] = Kept(roles, t)[k]
<1>1. Len(s) \in Nat /\ Len(t) \in Nat
  BY LenProperties
<1>2. Kept(roles, s)[0] = Kept(roles, t)[0]
  BY KeptRounds
<1>3. ASSUME NEW n \in 1 .. k, Kept(roles, s)[n - 1] = Kept(roles, t)[n - 1]
      PROVE  Kept(roles, s)[n] = Kept(roles, t)[n]
  <2>1. n \in 1 .. Len(s) /\ n \in 1 .. Len(t) /\ s[n] = t[n]
    BY <1>1
  <2>. QED  BY <1>3, <2>1, KeptRounds
<1>4. \A n \in 0 .. k : Kept(roles, s)[n] = Kept(roles, t)[n]
  <2>1. StepwiseSame(k, Kept(roles, s), Kept(roles, t))
    BY <1>2, <1>3 DEF StepwiseSame
  <2>2. SameUpTo(k, Kept(roles, s), Kept(roles, t))
    BY <2>1, AgreeByInduction
  <2>. QED  BY <2>2 DEF SameUpTo
<1>. QED  BY <1>4

\* One more message is kept or not, and nothing else changes.
LEMMA OfRolesAppend ==
    ASSUME NEW S, NEW s \in Seq(S), NEW msg \in S, NEW roles
    PROVE  /\ OfRoles(roles, s) \in Seq(S)
           /\ OfRoles(roles, Append(s, msg)) =
                 IF msg.role \in roles THEN Append(OfRoles(roles, s), msg) ELSE OfRoles(roles, s)
<1>. DEFINE t == Append(s, msg)
            k == Len(s)
<1>1. /\ k \in Nat /\ t \in Seq(S) /\ Len(t) = k + 1
      /\ t[k + 1] = msg /\ \A n \in 1 .. k : t[n] = s[n]
  BY LenProperties, AppendProperties
<1>. HIDE DEF t
<1>2. Kept(roles, s)[k] \in Seq(S)
  BY <1>1, KeptRounds
<1>3. Kept(roles, t)[k] = Kept(roles, s)[k]
  BY <1>1, KeptOfPrefix
<1>4. k + 1 \in 1 .. Len(t) /\ (k + 1) - 1 = k
  BY <1>1
<1>5. Kept(roles, t)[k + 1] =
         IF msg.role \in roles THEN Append(Kept(roles, t)[k], msg) ELSE Kept(roles, t)[k]
  BY <1>1, <1>4, KeptRounds
<1>6. OfRoles(roles, t) =
         IF msg.role \in roles THEN Append(OfRoles(roles, s), msg) ELSE OfRoles(roles, s)
  BY <1>1, <1>3, <1>5 DEF OfRoles
<1>. QED  BY <1>2, <1>6 DEF OfRoles, t

\* Roles that are dropped now may as well have been dropped before.
LEMMA OfRolesTwice ==
    ASSUME NEW S, NEW s \in Seq(S), NEW roles, NEW more, roles \subseteq more
    PROVE  OfRoles(roles, OfRoles(more, s)) = OfRoles(roles, s)
<1>. DEFINE T == {n \in Nat : n <= Len(s) =>
                      OfRoles(roles, Kept(more, s)[n]) = Kept(roles, s)[n]}
<1>1. Len(s) \in Nat /\ \A n \in 1 .. Len(s) : s[n] \in S
  BY LenProperties, ElementOfSeq
<1>2. \A n \in 0 .. Len(s) : Kept(more, s)[n] \in Seq(S)
  BY KeptRounds
<1>3. 0 \in T
  <2>. DEFINE none == <<>>
  <2>1. none \in Seq(S) /\ Len(none) = 0
    BY EmptySeq
  <2>2. Kept(more, s)[0] = none /\ Kept(roles, s)[0] = none
    BY KeptRounds
  <2>3. \A t \in Seq(S) : Kept(roles, t)[0] = none
    BY KeptRounds
  <2>. HIDE DEF none
  <2>4. Kept(roles, none)[0] = none
    BY <2>1, <2>3
  <2>. QED  BY <2>1, <2>2, <2>4 DEF OfRoles
<1>4. ASSUME NEW n \in Nat, n \in T
      PROVE  n + 1 \in T
  <2>. SUFFICES ASSUME n + 1 <= Len(s)
                PROVE  OfRoles(roles, Kept(more, s)[n + 1]) = Kept(roles, s)[n + 1]
    OBVIOUS
  <2>. DEFINE msg == s[n + 1]
              kept == Kept(more, s)[n]
  <2>1. n + 1 \in 1 .. Len(s) /\ (n + 1) - 1 = n /\ n \in 0 .. Len(s)
    BY <1>1
  <2>2. msg \in S /\ kept \in Seq(S) /\ OfRoles(roles, kept) = Kept(roles, s)[n]
    BY <1>1, <1>2, <1>4, <2>1
  <2>3. Kept(more, s)[n + 1] = IF msg.role \in more THEN Append(kept, msg) ELSE kept
    BY <2>1, KeptRounds
  <2>4. Kept(roles, s)[n + 1] =
           IF msg.role \in roles THEN Append(OfRoles(roles, kept), msg) ELSE OfRoles(roles, kept)
    BY <2>1, <2>2, KeptRounds
  <2>. HIDE DEF msg, kept
  <2>5. CASE msg.role \in more
    BY <2>2, <2>3, <2>4, <2>5, OfRolesAppend
  <2>6. CASE msg.role \notin more
    BY <2>3, <2>4, <2>6
  <2>. QED  BY <2>5, <2>6
<1>5. Len(s) \in T
  <2>. HIDE DEF T
  <2>. QED  BY <1>1, <1>3, <1>4, SetInduction
<1>. QED  BY <1>5 DEF OfRoles

\* A message in front that is not kept leaves what is kept as it was.
LEMMA OfRolesBehind ==
    ASSUME NEW S, NEW s \in Seq(S), NEW msg \in S, NEW roles, msg.role \notin roles
    PROVE  OfRoles(roles, <<msg>> \o s) = OfRoles(roles, s)
<1>. DEFINE t == <<msg>> \o s
            T == {n \in Nat : n <= Len(s) => Kept(roles, t)[n + 1] = Kept(roles, s)[n]}
<1>1. <<msg>> \in Seq(S) /\ Len(<<msg>>) = 1 /\ <<msg>>[1] = msg
  OBVIOUS
<1>2. Len(s) \in Nat
  BY LenProperties
<1>3. /\ t \in Seq(S) /\ Len(t) = Len(s) + 1
      /\ t[1] = msg /\ \A n \in 1 .. Len(s) : t[n + 1] = s[n]
  <2>. DEFINE one == <<msg>>
  <2>. HIDE DEF one
  <2>1. one \in Seq(S) /\ Len(one) = 1 /\ one[1] = msg
    BY <1>1 DEF one
  <2>2. /\ one \o s \in Seq(S) /\ Len(one \o s) = Len(one) + Len(s)
        /\ \A i \in 1 .. Len(one) + Len(s) :
              (one \o s)[i] = IF i <= Len(one) THEN one[i] ELSE s[i - Len(one)]
    BY <2>1, ConcatProperties
  <2>3. (one \o s)[1] = msg /\ \A n \in 1 .. Len(s) : (one \o s)[n + 1] = s[n]
    BY <1>2, <2>1, <2>2
  <2>. QED  BY <2>2, <2>3 DEF one
<1>. HIDE DEF t
<1>4. 0 \in T
  <2>1. 1 \in 1 .. Len(t)
    BY <1>2, <1>3
  <2>2. Kept(roles, t)[1] = Kept(roles, t)[1 - 1]
    BY <1>3, <2>1, KeptRounds
  <2>. QED  BY <1>3, <2>2, KeptRounds
<1>5. ASSUME NEW n \in Nat, n \in T
      PROVE  n + 1 \in T
  <2>. SUFFICES ASSUME n + 1 <= Len(s)
                PROVE  Kept(roles, t)[n + 2] = Kept(roles, s)[n + 1]
    OBVIOUS
  <2>1. /\ n + 1 \in 1 .. Len(s) /\ n + 2 \in 1 .. Len(t)
        /\ (n + 1) - 1 = n /\ (n + 2) - 1 = n + 1 /\ t[n + 2] = s[n + 1]
        /\ Kept(roles, t)[n + 1] = Kept(roles, s)[n]
    BY <1>2, <1>3, <1>5
  <2>. QED  BY <1>3, <2>1, KeptRounds
<1>6. Len(s) \in T
  <2>. HIDE DEF T
  <2>. QED  BY <1>2, <1>4, <1>5, SetInduction
<1>. QED  BY <1>2, <1>3, <1>6 DEF OfRoles, t

-----------------------------------------------------------------------------
\* What each tier is asked is the body that its adapter makes of the Request, and
\* only an exchange that was served is billed.
ExchangesInv ==
    \A c \in Calls : \A n \in 1 .. Len(exchanges[c]) :
       LET x == exchanges[c][n]
       IN  /\ x.body = Body(chain.tiers[n], request[c])
           /\ x.served # NoModel => x.served \in Models /\ x.usage \in Counts

\* A step adds an exchange to a call's history, marks the last one, or does neither.
LEMMA HistorySteps ==
    ASSUME Inv, [Next]_vars, NEW c \in Calls
    PROVE  \/ exchanges'[c] = exchanges[c]
           \/ \E m \in Models \cup {NoModel} : \E u, seen :
                 /\ m = NoModel \/ u \in Counts
                 /\ exchanges'[c] =
                       Append(exchanges[c],
                              [body |-> Body(chain.tiers[Len(exchanges[c]) + 1], request[c]),
                               served |-> m, usage |-> u, seen |-> seen])
           \/ \E what :
                 /\ exchanges[c] # <<>>
                 /\ exchanges'[c] = [exchanges[c] EXCEPT ![Len(exchanges[c])] =
                                        [exchanges[c][Len(exchanges[c])] EXCEPT !.seen = what]]
<1>. DEFINE Same == exchanges'[c] = exchanges[c]
            New(m, u, seen) ==
               exchanges'[c] = Append(exchanges[c],
                              [body |-> Body(chain.tiers[Len(exchanges[c]) + 1], request[c]),
                               served |-> m, usage |-> u, seen |-> seen])
            Marked(what) == exchanges'[c] = [exchanges[c] EXCEPT ![Len(exchanges[c])] =
                                        [exchanges[c][Len(exchanges[c])] EXCEPT !.seen = what]]
<1>1. TypeOK /\ Bookkeeping
  BY DEF Inv
<1>2. exchanges \in [Calls -> Seq(Exchanges)]
  BY <1>1 DEF TypeOK
<1>3. \A m, u, seen : Sent(c, m, u, seen) => New(m, u, seen)
  BY <1>2 DEF Sent
<1>4. \A what : Seen(c, what) => Marked(what)
  BY <1>2 DEF Seen
<1>5. ASSUME NEW m, NEW u, NEW seen, NEW d \in Calls, d # c,
             Sent(d, m, u, seen) \/ Seen(d, seen)
      PROVE  Same
  BY <1>2, <1>5 DEF Sent, Seen
<1>. HIDE DEF Same, New, Marked
<1>6. ASSUME NEW d \in Calls, Adapter(d)
      PROVE  \/ Same
             \/ \E m \in Models \cup {NoModel} : \E u, seen :
                   (m = NoModel \/ u \in Counts) /\ New(m, u, seen)
             \/ \E what : exchanges[c] # <<>> /\ Marked(what)
  <2>1. CASE d # c
    <3>1. \E m, u, seen : Sent(d, m, u, seen) \/ Seen(d, seen)
      BY <1>6 DEF Adapter, Served, NotServed, ReplyLost, NoChoices, Escalate, Accept
    <3>. QED  BY <1>5, <2>1, <3>1
  <2>2. CASE d = c /\ pc[c] = "wait"
    <3>1. \E what : Seen(c, what)
      BY <1>6, <2>2 DEF Adapter, Served, NotServed, ReplyLost, NoChoices, Escalate, Accept
    <3>2. exchanges[c] # <<>>
      BY <1>1, <2>2 DEF Bookkeeping
    <3>. QED  BY <1>4, <3>1, <3>2
  <2>3. CASE d = c /\ pc[c] # "wait"
    <3>1. \/ \E m \in Models, u \in Usages : Sent(c, m, u, "pending")
          \/ Sent(c, NoModel, Nothing, "error")
      BY <1>6, <2>3 DEF Adapter, Served, NotServed, ReplyLost, NoChoices, Escalate, Accept
    <3>2. \E m \in Models \cup {NoModel} : \E u, seen :
             (m = NoModel \/ u \in Counts) /\ Sent(c, m, u, seen)
      BY <3>1, AccountAssumption
    <3>. QED  BY <1>3, <3>2
  <2>. QED  BY <2>1, <2>2, <2>3
<1>7. CASE ~ \E d \in Calls : Adapter(d)
  <2>1. exchanges' = exchanges
    BY <1>7 DEF Next, Caller, Miss, Hit, Store, Record, RecordFails, RecordRefused, Return,
                Forget, Close, Restart, vars, callVars
  <2>. QED  BY <2>1 DEF Same
<1>. QED  BY <1>6, <1>7 DEF Same, New, Marked

LEMMA ExchangesStep == ASSUME Inv, ExchangesInv, [Next]_vars PROVE ExchangesInv'
<1>. SUFFICES ASSUME NEW c \in Calls, NEW n \in 1 .. Len(exchanges'[c])
              PROVE  /\ exchanges'[c][n].body = Body(chain.tiers[n], request[c])
                     /\ exchanges'[c][n].served # NoModel =>
                           exchanges'[c][n].served \in Models /\ exchanges'[c][n].usage \in Counts
  <2>1. chain' = chain /\ request' = request
    BY Frozen
  <2>. QED  BY <2>1 DEF ExchangesInv
<1>1. /\ exchanges[c] \in Seq(Exchanges) /\ Len(exchanges[c]) \in Nat
      /\ exchanges[c] = <<>> <=> Len(exchanges[c]) = 0
  BY HistoryFacts DEF Inv
<1>2. \A k \in 1 .. Len(exchanges[c]) :
         /\ exchanges[c][k].body = Body(chain.tiers[k], request[c])
         /\ exchanges[c][k].served # NoModel =>
               exchanges[c][k].served \in Models /\ exchanges[c][k].usage \in Counts
         /\ exchanges[c][k] \in Exchanges
  BY <1>1, ElementOfSeq DEF ExchangesInv
<1>3. CASE exchanges'[c] = exchanges[c]
  BY <1>2, <1>3
<1>4. ASSUME NEW m \in Models \cup {NoModel}, NEW u, NEW seen, m = NoModel \/ u \in Counts,
             exchanges'[c] = Append(exchanges[c],
                                    [body |-> Body(chain.tiers[Len(exchanges[c]) + 1], request[c]),
                                     served |-> m, usage |-> u, seen |-> seen])
      PROVE  /\ exchanges'[c][n].body = Body(chain.tiers[n], request[c])
             /\ exchanges'[c][n].served # NoModel =>
                   exchanges'[c][n].served \in Models /\ exchanges'[c][n].usage \in Counts
  <2>. DEFINE x == [body |-> Body(chain.tiers[Len(exchanges[c]) + 1], request[c]),
                    served |-> m, usage |-> u, seen |-> seen]
  <2>1. /\ x.body = Body(chain.tiers[Len(exchanges[c]) + 1], request[c])
        /\ x.served = m /\ x.usage = u
    OBVIOUS
  <2>2. exchanges'[c] = Append(exchanges[c], x)
    BY <1>4
  <2>. HIDE DEF x
  <2>3. /\ Len(exchanges'[c]) = Len(exchanges[c]) + 1
        /\ exchanges'[c][Len(exchanges[c]) + 1] = x
        /\ \A k \in 1 .. Len(exchanges[c]) : exchanges'[c][k] = exchanges[c][k]
    BY <1>1, <2>2 DEF Exchanges
  <2>4. n \in 1 .. Len(exchanges[c]) \/ n = Len(exchanges[c]) + 1
    BY <1>1, <2>3
  <2>5. CASE n \in 1 .. Len(exchanges[c])
    BY <1>2, <2>3, <2>5
  <2>6. CASE n = Len(exchanges[c]) + 1
    BY <1>4, <2>1, <2>3, <2>6
  <2>. QED  BY <2>4, <2>5, <2>6
<1>5. ASSUME NEW what, exchanges[c] # <<>>,
             exchanges'[c] = [exchanges[c] EXCEPT ![Len(exchanges[c])] =
                                 [exchanges[c][Len(exchanges[c])] EXCEPT !.seen = what]]
      PROVE  /\ exchanges'[c][n].body = Body(chain.tiers[n], request[c])
             /\ exchanges'[c][n].served # NoModel =>
                   exchanges'[c][n].served \in Models /\ exchanges'[c][n].usage \in Counts
  <2>. DEFINE k == Len(exchanges[c])
              x == [exchanges[c][k] EXCEPT !.seen = what]
  <2>1. k \in 1 .. k
    BY <1>1, <1>5
  <2>2. x.body = exchanges[c][k].body /\ x.served = exchanges[c][k].served
        /\ x.usage = exchanges[c][k].usage
    BY <1>2, <2>1 DEF Exchanges
  <2>3. exchanges'[c] = [exchanges[c] EXCEPT ![k] = x]
    BY <1>5
  <2>. HIDE DEF x
  <2>4. DOMAIN exchanges[c] = 1 .. k
    BY <1>1, LenProperties
  <2>5. Len(exchanges'[c]) = k
    BY <1>1, <2>1, <2>3, <2>4
  <2>6. CASE n = k
    <3>1. exchanges'[c][n] = x
      BY <2>1, <2>3, <2>4, <2>6
    <3>. QED  BY <1>2, <2>1, <2>2, <2>6, <3>1
  <2>7. CASE n # k
    <3>1. exchanges'[c][n] = exchanges[c][n]
      BY <2>3, <2>4, <2>5, <2>7
    <3>. QED  BY <1>2, <2>5, <3>1
  <2>. QED  BY <2>6, <2>7
<1>. QED  BY <1>3, <1>4, <1>5, HistorySteps

LEMMA ExchangesHold == Spec => []ExchangesInv
<1>1. Init => ExchangesInv
  <2>. SUFFICES ASSUME Init, NEW c \in Calls PROVE 1 .. Len(exchanges[c]) = {}
    BY DEF ExchangesInv
  <2>1. exchanges[c] = <<>>
    BY DEF Init
  <2>. QED  BY <2>1
<1>2. Inv /\ ExchangesInv /\ [Next]_vars => ExchangesInv'
  BY ExchangesStep
<1>. QED  BY <1>1, <1>2, InvHolds, PTL DEF Spec

\* Whichever adapter makes the body, the turns in it are those of the Request.
LEMMA TurnsOfBody ==
    ASSUME NEW tier, NEW q \in Requests
    PROVE  Turns(Body(tier, q).messages) = Turns(q.messages)
<1>. DEFINE Messages == [role : Roles, content : STRING]
            spoken == {"user", "assistant"}
<1>1. /\ q \in [model : Models \cup {NoModel}, system : STRING \cup {NoSystem},
                messages : Seq(Messages)]
  BY AccountAssumption
<1>2. q.messages \in Seq(Messages) /\ q.system \in STRING \cup {NoSystem}
  BY <1>1
<1>3. CASE tier.kind = "anthropic"
  <2>1. Body(tier, q).messages = OfRoles(Roles \ {"system"}, q.messages)
    BY <1>3 DEF Body, AnthropicBody
  <2>2. spoken \subseteq Roles \ {"system"}
    BY DEF Roles
  <2>. HIDE DEF Messages, spoken
  <2>3. OfRoles(spoken, OfRoles(Roles \ {"system"}, q.messages)) = OfRoles(spoken, q.messages)
    BY <1>2, <2>2, OfRolesTwice
  <2>. QED  BY <2>1, <2>3 DEF Turns, spoken
<1>4. CASE tier.kind # "anthropic"
  <2>1. Body(tier, q).messages = SystemPrompt(q) \o q.messages
    BY <1>4 DEF Body, OpenAIBody
  <2>2. CASE q.system = NoSystem
    <3>1. SystemPrompt(q) \o q.messages = q.messages
      BY <1>2, <2>2, ConcatEmptySeq DEF SystemPrompt
    <3>. QED  BY <2>1, <3>1
  <2>3. CASE q.system # NoSystem
    <3>. DEFINE msg == [role |-> "system", content |-> q.system]
    <3>1. SystemPrompt(q) = <<msg>>
      BY <2>3 DEF SystemPrompt
    <3>2. msg \in Messages /\ msg.role \notin spoken
      BY <1>2, <2>3 DEF Roles
    <3>. HIDE DEF Messages, spoken, msg
    <3>3. OfRoles(spoken, <<msg>> \o q.messages) = OfRoles(spoken, q.messages)
      BY <1>2, <3>2, OfRolesBehind
    <3>. QED  BY <2>1, <3>1, <3>3 DEF Turns, spoken
  <2>. QED  BY <2>2, <2>3
<1>. QED  BY <1>3, <1>4

\* The turns of the user and of the assistant reach every tier that is asked, for
\* Requests of any length, with any system prompt and any mixture of roles.
THEOREM ConversationsArrive == Spec => []ConversationArrives
<1>1. Inv /\ ExchangesInv => ConversationArrives
  <2>. SUFFICES ASSUME Inv, ExchangesInv, NEW c \in Calls, NEW n \in DOMAIN exchanges[c]
                PROVE  Turns(exchanges[c][n].body.messages) = Turns(request[c].messages)
    BY DEF ConversationArrives
  <2>1. exchanges[c] \in Seq(Exchanges) /\ request[c] \in Requests
    BY DEF Inv, TypeOK
  <2>2. n \in 1 .. Len(exchanges[c])
    BY <2>1, LenProperties
  <2>3. exchanges[c][n].body = Body(chain.tiers[n], request[c])
    BY <2>2 DEF ExchangesInv
  <2>. QED  BY <2>1, <2>3, TurnsOfBody
<1>. QED  BY <1>1, InvHolds, ExchangesHold, PTL

-----------------------------------------------------------------------------
\* What has been charged after each of a call's exchanges.
LEMMA ChargesRounds ==
    ASSUME Inv, ExchangesInv, NEW c \in Calls
    PROVE  /\ \A n \in 0 .. Len(exchanges[c]) : Charges(c)[n] \in Nat
           /\ Charges(c)[0] = 0
           /\ \A n \in 1 .. Len(exchanges[c]) :
                 /\ Charge(exchanges[c][n]) \in Nat
                 /\ Charges(c)[n] = Charges(c)[n - 1] + Charge(exchanges[c][n])
<1>. DEFINE N == Len(exchanges[c])
            charge(n) == Charge(exchanges[c][n])
            Loop(f) == [n \in 0 .. N |-> IF n = 0 THEN 0 ELSE f[n - 1] + charge(n)]
            g == [n \in 1 .. N |-> [acc \in Nat |-> acc + charge(n)]]
            K == Charges(c)
<1>1. N \in Nat
  BY HistoryFacts DEF Inv
<1>2. \A n \in 1 .. N : charge(n) \in Nat
  <2>. SUFFICES ASSUME NEW n \in 1 .. N, exchanges[c][n].served # NoModel
                PROVE  ComputeCost(exchanges[c][n].usage, exchanges[c][n].served) \in Nat
    BY DEF Charge
  <2>1. exchanges[c][n].served \in Models /\ exchanges[c][n].usage \in Counts
    BY DEF ExchangesInv
  <2>. QED  BY <2>1, CostTyped
<1>. HIDE DEF N, charge
<1>3. \A n \in 1 .. N : n - 1 \in 0 .. N /\ n # 0 /\ n \in 0 .. N
  BY <1>1
<1>4. g \in [1 .. N -> [Nat -> Nat]]
  BY <1>2
<1>5. PICK f : IsLoop(f, N, Nat, 0, g)
  <2>. HIDE DEF g
  <2>. QED  BY <1>1, <1>4, LoopExists
<1>6. f \in [0 .. N -> Nat] /\ f[0] = 0 /\ \A n \in 1 .. N : f[n] = f[n - 1] + charge(n)
  BY <1>3, <1>5 DEF IsLoop
<1>7. f = Loop(f)
  <2>1. \A n \in 0 .. N : n = 0 \/ n \in 1 .. N
    BY <1>1
  <2>2. \A n \in 0 .. N : f[n] = IF n = 0 THEN 0 ELSE f[n - 1] + charge(n)
    BY <1>6, <2>1
  <2>. QED  BY <1>6, <2>2
<1>8. K = CHOOSE h : h = Loop(h)
  BY DEF Charges, N, charge
<1>9. K = Loop(K)
  <2>. HIDE DEF Loop, K
  <2>. QED  BY <1>7, <1>8
<1>10. K[0] = 0 /\ \A n \in 1 .. N : K[n] = K[n - 1] + charge(n)
  <2>. HIDE DEF K
  <2>. QED  BY <1>1, <1>3, <1>9
<1>11. \A n \in 0 .. N : K[n] = f[n]
  <2>1. \A n \in 1 .. N : K[n - 1] = f[n - 1] => K[n] = f[n]
    <3>. HIDE DEF K
    <3>. QED  BY <1>6, <1>10
  <2>2. K[0] = f[0]
    BY <1>6, <1>10
  <2>. HIDE DEF K
  <2>3. StepwiseSame(N, K, f)
    BY <2>1, <2>2 DEF StepwiseSame
  <2>4. SameUpTo(N, K, f)
    BY <1>1, <2>3, AgreeByInduction
  <2>. QED  BY <2>4 DEF SameUpTo
<1>12. \A n \in 0 .. N : K[n] \in Nat
  BY <1>6, <1>11
<1>. HIDE DEF K
<1>. QED  BY <1>2, <1>10, <1>12 DEF K, N, charge

\* An entry's cost is what was charged in the last exchange of the call it is
\* about, or 0 if no table has the price.
LEMMA CostOfEntry ==
    ASSUME Inv, ExchangesInv, FileGood, NEW n \in DOMAIN file,
           NEW c, c = file[n].resp.by
    PROVE  /\ c \in Calls
           /\ Len(exchanges[c]) \in Nat \ {0}
           /\ file[n].resp.cost =
                 IF Exchange(c).served \in Table(Tier(c)) THEN Charge(Exchange(c)) ELSE 0
<1>1. file \in Seq(Entries)
  BY DEF Inv, TypeOK
<1>2. n \in 1 .. Len(file)
  BY <1>1, LenProperties
<1>3. IsAnswerOf(file[n].resp) /\ c \in Calls
  BY <1>2 DEF FileGood, Good, Responses
<1>4. exchanges[c] # <<>> /\ Len(exchanges[c]) \in Nat \ {0}
  BY <1>3, HistoryFacts DEF Inv, IsAnswerOf
<1>5. Tier(c) \in Tiers
  BY <1>3, <1>4, TierFacts DEF Inv
<1>6. NoModel \notin Table(Tier(c))
  BY <1>5, AccountAssumption DEF Table, Tiers
<1>. QED  BY <1>3, <1>4, <1>6 DEF IsAnswerOf, Charge

\* No entry overstates what was charged for its response, over any number of
\* escalations, hits, prices that are missing, and processes.
THEOREM EntriesNeverOverstate == Spec => []NeverOverstated
<1>1. Inv /\ ExchangesInv /\ FileGood => NeverOverstated
  <2>. SUFFICES ASSUME Inv, ExchangesInv, FileGood, NEW n \in DOMAIN file,
                       NEW c, c = file[n].resp.by
                PROVE  file[n].resp.cost <= Charged(c)
    BY DEF NeverOverstated
  <2>. DEFINE k == Len(exchanges[c])
  <2>1. c \in Calls /\ k \in Nat \ {0}
    BY CostOfEntry
  <2>2. k \in 1 .. k /\ k - 1 \in 0 .. k
    BY <2>1
  <2>3. /\ Charged(c) = Charges(c)[k - 1] + Charge(exchanges[c][k])
        /\ Charges(c)[k - 1] \in Nat /\ Charge(exchanges[c][k]) \in Nat
    BY <2>1, <2>2, ChargesRounds DEF Charged
  <2>4. file[n].resp.cost \in {0, Charge(exchanges[c][k])}
    BY CostOfEntry DEF Exchange
  <2>. QED  BY <2>3, <2>4
<1>. QED  BY <1>1, InvHolds, ExchangesHold, GoodHolds, PTL DEF AllGood

\* The entry is exact where one tier was asked, whose table knows the model: only
\* escalations, hits and missing prices set EntryIsCostOfCall apart.
THEOREM EntriesExactForOneTier == Spec => []ExactForOneTier
<1>1. Inv /\ ExchangesInv /\ FileGood => ExactForOneTier
  <2>. SUFFICES ASSUME Inv, ExchangesInv, FileGood, NEW n \in DOMAIN file,
                       NEW c, c = file[n].resp.by, Len(exchanges[c]) = 1,
                       Exchange(c).served \in Table(Tier(c))
                PROVE  file[n].resp.cost = Charged(c)
    BY DEF ExactForOneTier
  <2>1. c \in Calls /\ 1 \in 1 .. Len(exchanges[c]) /\ 1 - 1 = 0
    BY CostOfEntry
  <2>2. /\ Charged(c) = Charges(c)[0] + Charge(exchanges[c][1])
        /\ Charges(c)[0] = 0 /\ Charge(exchanges[c][1]) \in Nat
    BY <2>1, ChargesRounds DEF Charged
  <2>3. file[n].resp.cost = Charge(exchanges[c][1])
    BY CostOfEntry DEF Exchange
  <2>. QED  BY <2>2, <2>3
<1>. QED  BY <1>1, InvHolds, ExchangesHold, GoodHolds, PTL DEF AllGood

\* A cascade asks each tier for another model, as EscalationAsksAnother wants, if the
\* Request names none and the tiers are openai's with a default of their own each.
THEOREM DefaultsAskAnother == Spec => []AsksAnotherByDefault
<1>1. Inv /\ ExchangesInv => AsksAnotherByDefault
  <2>. SUFFICES ASSUME Inv, ExchangesInv, NEW c \in Calls, request[c].model = NoModel,
                       DistinctDefaults(chain.tiers),
                       NEW n \in DOMAIN exchanges[c], NEW k \in DOMAIN exchanges[c], n # k
                PROVE  exchanges[c][n].body.model # exchanges[c][k].body.model
    BY DEF AsksAnotherByDefault
  <2>1. exchanges[c] \in Seq(Exchanges) /\ chain \in Chains
        /\ Len(exchanges[c]) <= Len(chain.tiers)
    BY DEF Inv, TypeOK
  <2>2. DOMAIN chain.tiers = 1 .. Len(chain.tiers) /\ Len(chain.tiers) \in Nat
    BY <2>1, ConstantFacts
  <2>3. Len(exchanges[c]) \in Nat /\ DOMAIN exchanges[c] = 1 .. Len(exchanges[c])
    BY <2>1, LenProperties
  <2>4. n \in DOMAIN chain.tiers /\ k \in DOMAIN chain.tiers
    BY <2>1, <2>2, <2>3
  <2>5. ASSUME NEW i \in {n, k}
        PROVE  exchanges[c][i].body.model = chain.tiers[i].default
    <3>1. exchanges[c][i].body = Body(chain.tiers[i], request[c])
      BY <2>3 DEF ExchangesInv
    <3>2. chain.tiers[i].kind = "openai"
      BY <2>4 DEF DistinctDefaults
    <3>. QED  BY <3>1, <3>2 DEF Body, OpenAIBody
  <2>. QED  BY <2>4, <2>5 DEF DistinctDefaults
<1>. QED  BY <1>1, InvHolds, ExchangesHold, PTL
=============================================================================
