------------------------------- MODULE Account -------------------------------
(***************************************************************************)
(* middleware/account with the sinks, over the two adapters: concurrent    *)
(* calls go through account, then dedup if the chain has it, then either   *)
(* one adapter or a cascade of adapters, and what they cost is written to  *)
(* one sink, which may fail, be closed, or be opened again by a new        *)
(* process.                                                                *)
(*                                                                         *)
(* The middleware below account is modelled by what it promises: a cascade *)
(* settles on some model's response as Ladder says, and dedup's store may  *)
(* lose an entry at any time (Dedup has the times and the keys).  Prices,  *)
(* tokens and costs are natural numbers.                                   *)
(***************************************************************************)
EXTENDS Integers, Sequences

CONSTANTS Calls,      \* the calls of Complete that are made
          Requests,   \* what they may ask
          Models,     \* the models the services behind the adapters know
          NoModel,    \* a Request's empty Model
          NoSystem,   \* a Request's empty System
          Names,      \* the names of a cascade's tiers
          Prices,     \* per model, USD per token of each kind
          Anthropic,  \* the models in anthropic.Models
          Usages,     \* the token counts that a service may bill
          Chains,     \* how the middleware may be put together
          MaxSessions,\* bound: the processes that run one after the other
          Nothing     \* no response, no usage, no entry of the store

Roles == {"user", "assistant", "system"}

Counts == [input : Nat, output : Nat, cacheRead : Nat, cacheWrite : Nat]

\* A tier of a cascade, or the one adapter of a chain without: pricing and
\* default are openai's WithPricing and WithModel.
Tiers == [kind : {"anthropic", "openai"}, default : Models,
          pricing : SUBSET Models, name : Names]

ASSUME AccountAssumption ==
    /\ Requests \subseteq [model : Models \cup {NoModel}, system : STRING \cup {NoSystem},
                           messages : Seq([role : Roles, content : STRING])]
    /\ Prices \in [Models -> Counts]
    /\ Anthropic \subseteq Models
    /\ Usages \subseteq Counts
    /\ Chains \subseteq [dedup : BOOLEAN, cascade : BOOLEAN, tiers : Seq(Tiers),
                         sink : {"slice", "writer", "file"}]
    /\ \A ch \in Chains : ~ch.cascade => Len(ch.tiers) = 1
    /\ MaxSessions \in Nat
    /\ NoModel \notin Models
    /\ Nothing \notin [by : Calls, model : Models \cup Names, usage : Counts,
                       cost : Nat, status : {"hit", "partial", "miss"}]

VARIABLES
    chain,      \* what the calls go through
    request,    \* per call
    pc,         \* per call: "idle"; "ask" and "wait" at an adapter, "store" in
                \* dedup, "record" and "return" in account, before and after the
                \* sink; "done" and "failed" when it has returned, "lost" with its
                \* process
    exchanges,  \* history: per call, what was sent to a tier, in order, who
                \* served it, what was billed and whether the answer was read
    resp,       \* per call, the response on its way up
    store,      \* per Request (its Hash), the response that dedup's store holds
    sink,       \* "open", "closed", or "broken" once a write has failed
    file,       \* what the sink has taken, in order: an entry that is a line, one
                \* that is torn, or one that is glued to a torn one before it
    session,    \* history: the process that runs, counted from 1
    answered    \* history: the calls that this process has answered

callVars == <<pc, exchanges, resp>>

sinkVars == <<sink, file, session, answered>>

vars == <<chain, request, callVars, store, sinkVars>>

Goto(c, where) == pc' = [pc EXCEPT ![c] = where]

\* The tier that call c has reached, and the exchange with it.
Tier(c) == chain.tiers[Len(exchanges[c])]
Exchange(c) == exchanges[c][Len(exchanges[c])]

Seen(c, what) ==
    exchanges' = [exchanges EXCEPT ![c][Len(exchanges[c])].seen = what]

-----------------------------------------------------------------------------
(* The adapters.                                                           *)

\* The loop that builds the messages: what it has kept after n rounds.
Kept(roles, messages) ==
    LET upTo[n \in 0 .. Len(messages)] ==
            IF n = 0 THEN <<>>
            ELSE IF messages[n].role \in roles THEN Append(upTo[n - 1], messages[n])
            ELSE upTo[n - 1]
    IN  upTo

OfRoles(roles, messages) == Kept(roles, messages)[Len(messages)]

\* Plausible bug: only the user's turns are kept.
AnthropicBodyOfUser(q) ==
    [model |-> q.model, system |-> q.system, messages |-> OfRoles({"user"}, q.messages)]

\* The API takes the system prompt beside the messages, and no other.
AnthropicBody(q) ==
    [model |-> q.model, system |-> q.system,
     messages |-> OfRoles(Roles \ {"system"}, q.messages)]

SystemPrompt(q) ==
    IF q.system = NoSystem THEN <<>> ELSE <<[role |-> "system", content |-> q.system]>>

\* The system prompt is the first message; the model defaults to WithModel's.
OpenAIBody(tier, q) ==
    [model |-> IF q.model = NoModel THEN tier.default ELSE q.model,
     system |-> NoSystem,
     messages |-> SystemPrompt(q) \o q.messages]

Body(tier, q) == IF tier.kind = "anthropic" THEN AnthropicBody(q) ELSE OpenAIBody(tier, q)

\* Usage.ComputeCost of model m's prices.
ComputeCost(u, m) ==
    u.input * Prices[m].input + u.output * Prices[m].output
      + u.cacheRead * Prices[m].cacheRead + u.cacheWrite * Prices[m].cacheWrite

\* Plausible bug: the price is that of the model that was asked for.
CostOfAsked(table, x) ==
    IF x.body.model \in table THEN ComputeCost(x.usage, x.body.model) ELSE 0

\* The price is that of the model that answered, 0 without one.
Cost(table, x) == IF x.served \in table THEN ComputeCost(x.usage, x.served) ELSE 0

CacheStatus(u) ==
    IF u.cacheRead = 0 THEN "miss" ELSE IF u.input = 0 THEN "hit" ELSE "partial"

AnthropicResponse(c, x) ==
    [by |-> c, model |-> x.served, usage |-> x.usage,
     cost |-> Cost(Anthropic, x), status |-> CacheStatus(x.usage)]

OpenAIResponse(c, tier, x) ==
    [by |-> c, model |-> x.served, usage |-> x.usage,
     cost |-> Cost(tier.pricing, x), status |-> "miss"]

\* The adapter's Response, with the tier's name for a model under a cascade.
Response(c) ==
    LET r == IF Tier(c).kind = "anthropic" THEN AnthropicResponse(c, Exchange(c))
                                           ELSE OpenAIResponse(c, Tier(c), Exchange(c))
    IN  IF chain.cascade THEN [r EXCEPT !.model = Tier(c).name] ELSE r

\* What the services bill: OpenAI's API counts no cache tokens apart.
Billed(tier) ==
    {u \in Usages : tier.kind = "openai" => u.cacheRead = 0 /\ u.cacheWrite = 0}

Sent(c, m, u, seen) ==
    LET tier == chain.tiers[Len(exchanges[c]) + 1]
    IN  exchanges' = [exchanges EXCEPT ![c] =
            Append(@, [body |-> Body(tier, request[c]), served |-> m,
                       usage |-> u, seen |-> seen])]

\* The service answers the next tier's request, and bills it.
Served(c, m, u) ==
    /\ pc[c] = "ask"
    /\ u \in Billed(chain.tiers[Len(exchanges[c]) + 1])
    /\ Sent(c, m, u, "pending")
    /\ Goto(c, "wait")
    /\ UNCHANGED <<chain, request, resp, store, sinkVars>>

\* No connection, a cancelled context, or a status other than 200.
NotServed(c) ==
    /\ pc[c] = "ask"
    /\ Sent(c, NoModel, Nothing, "error")
    /\ Goto(c, "failed")
    /\ UNCHANGED <<chain, request, resp, store, sinkVars>>

\* The answer is cut off, does not parse, or comes after ctx was cancelled.
ReplyLost(c) ==
    /\ pc[c] = "wait"
    /\ Seen(c, "error")
    /\ Goto(c, "failed")
    /\ UNCHANGED <<chain, request, resp, store, sinkVars>>

\* An answer without choices is an error for openai; for anthropic one without
\* content is a Response as any other.
NoChoices(c) ==
    /\ pc[c] = "wait"
    /\ Tier(c).kind = "openai"
    /\ Seen(c, "error")
    /\ Goto(c, "failed")
    /\ UNCHANGED <<chain, request, resp, store, sinkVars>>

-----------------------------------------------------------------------------
(* The cascade's choice, dedup's store and the call of Complete.           *)

\* Plausible bug: len for len - 1.
HasNextLate(c) == Len(exchanges[c]) <= Len(chain.tiers)

HasNext(c) == Len(exchanges[c]) < Len(chain.tiers)

\* The cascade discards the response, with its Usage, and tries the next tier.
Escalate(c) ==
    /\ pc[c] = "wait"
    /\ chain.cascade
    /\ HasNext(c)
    /\ Seen(c, "read")
    /\ Goto(c, "ask")
    /\ UNCHANGED <<chain, request, resp, store, sinkVars>>

WayUp == IF chain.dedup THEN "store" ELSE "record"

\* Plausible bug: the loop goes on after a response was accepted.
LeaveLoopLate(c) == Goto(c, IF HasNext(c) THEN "ask" ELSE WayUp)

LeaveLoop(c) == Goto(c, WayUp)

Accept(c) ==
    /\ pc[c] = "wait"
    /\ Seen(c, "read")
    /\ resp' = [resp EXCEPT ![c] = Response(c)]
    /\ LeaveLoop(c)
    /\ UNCHANGED <<chain, request, store, sinkVars>>

\* A cascade without models fails.
Miss(c) ==
    /\ pc[c] = "idle"
    /\ chain.dedup => store[request[c]] = Nothing
    /\ Goto(c, IF chain.tiers = <<>> THEN "failed" ELSE "ask")
    /\ UNCHANGED <<chain, request, exchanges, resp, store, sinkVars>>

Hit(c) ==
    /\ pc[c] = "idle"
    /\ chain.dedup
    /\ store[request[c]] # Nothing
    /\ resp' = [resp EXCEPT ![c] = [store[request[c]] EXCEPT !.status = "hit"]]
    /\ Goto(c, "record")
    /\ UNCHANGED <<chain, request, exchanges, store, sinkVars>>

StatusOfMiss(r) == [r EXCEPT !.status = "miss"]

\* The response is stored with the provider's status, and returned with another.
Store(c) ==
    /\ pc[c] = "store"
    /\ store' = [store EXCEPT ![request[c]] = resp[c]]
    /\ resp' = [resp EXCEPT ![c] = StatusOfMiss(@)]
    /\ Goto(c, "record")
    /\ UNCHANGED <<chain, request, exchanges, sinkVars>>

\* An entry expires, or the application deletes it.
Forget(q) ==
    /\ store[q] # Nothing
    /\ store' = [store EXCEPT ![q] = Nothing]
    /\ UNCHANGED <<chain, request, callVars, sinkVars>>

-----------------------------------------------------------------------------
(* account.Complete on its way up, and the sink.                           *)

Entry(c, form) == [call |-> c, resp |-> resp[c], form |-> form, session |-> session]

\* No newline follows a torn line, and what is written next is glued to it.
Form == IF file # <<>> /\ file[Len(file)].form = "torn" THEN "glued" ELSE "line"

\* Plausible bug: a hit, which cost nothing, is not recorded.
AppendPaidOnly(c) ==
    file' = IF resp[c].by = c THEN Append(file, Entry(c, Form)) ELSE file

AppendEntry(c) == file' = Append(file, Entry(c, Form))

\* A Write that fails, or is cut short, may have taken a part of the line.
AppendPart(c) == Append(file, Entry(c, "torn"))

\* The slice grows, or the encoder's one Write succeeds.
Record(c) ==
    /\ pc[c] = "record"
    /\ sink = "open"
    /\ AppendEntry(c)
    /\ Goto(c, "return")
    /\ UNCHANGED <<chain, request, exchanges, resp, store, sink, session, answered>>

\* Plausible bug: a new encoder per entry, which has no error to remember.
BreakNothing == UNCHANGED sink

\* json.Encoder keeps the error of a Write and returns it from then on.
Break == sink' = "broken"

\* Plausible bug: a sink that cannot take the entry makes the call fail.
FailOnError(c) == Goto(c, "failed")

\* The error that Record returns is dropped.
DropError(c) == Goto(c, "return")

\* The writer fails.
RecordFails(c) ==
    /\ pc[c] = "record"
    /\ sink = "open"
    /\ chain.sink # "slice"
    /\ file' \in {file, AppendPart(c)}
    /\ Break
    /\ DropError(c)
    /\ UNCHANGED <<chain, request, exchanges, resp, store, session, answered>>

\* The file is closed, or an earlier Write has failed.
RecordRefused(c) ==
    /\ pc[c] = "record"
    /\ sink # "open"
    /\ DropError(c)
    /\ UNCHANGED <<chain, request, exchanges, resp, store, sinkVars>>

\* The caller has the response.
Return(c) ==
    /\ pc[c] = "return"
    /\ Goto(c, "done")
    /\ answered' = answered \cup {c}
    /\ UNCHANGED <<chain, request, exchanges, resp, store, sink, file, session>>

Close ==
    /\ chain.sink = "file"
    /\ sink # "closed"
    /\ sink' = "closed"
    /\ UNCHANGED <<chain, request, callVars, store, file, session, answered>>

\* What a process leaves in the file: one call may be in the middle of its Write,
\* under the sink's mutex.
LeftBehind ==
    {file} \cup {AppendPart(c) : c \in {d \in Calls : pc[d] = "record" /\ sink = "open"}}

\* The process ends, between any two steps or in the middle of a Write, and another
\* one opens the sink: the file is appended to, the slice and the store are new.
Restart ==
    /\ session < MaxSessions
    /\ session' = session + 1
    /\ pc' = [c \in Calls |-> IF pc[c] \in {"idle", "done", "failed"} THEN pc[c] ELSE "lost"]
    /\ store' = [q \in Requests |-> Nothing]
    /\ sink' = "open"
    /\ IF chain.sink = "file" THEN file' \in LeftBehind ELSE file' = <<>>
    /\ answered' = {}
    /\ UNCHANGED <<chain, request, exchanges, resp>>

Init ==
    /\ chain \in Chains
    /\ request \in [Calls -> Requests]
    /\ pc = [c \in Calls |-> "idle"]
    /\ exchanges = [c \in Calls |-> <<>>]
    /\ resp = [c \in Calls |-> Nothing]
    /\ store = [q \in Requests |-> Nothing]
    /\ sink = "open"
    /\ file = <<>>
    /\ session = 1
    /\ answered = {}

Adapter(c) ==
    \/ \E m \in Models, u \in Usages : Served(c, m, u)
    \/ NotServed(c)
    \/ ReplyLost(c)
    \/ NoChoices(c)
    \/ Escalate(c)
    \/ Accept(c)

Caller(c) ==
    \/ Miss(c)
    \/ Hit(c)
    \/ Store(c)
    \/ Record(c)
    \/ RecordFails(c)
    \/ RecordRefused(c)
    \/ Return(c)

Next ==
    \/ \E c \in Calls : Adapter(c) \/ Caller(c)
    \/ \E q \in Requests : Forget(q)
    \/ Close
    \/ Restart

Spec == Init /\ [][Next]_vars

-----------------------------------------------------------------------------
Responses == [by : Calls, model : Models \cup Names, usage : Counts,
              cost : Nat, status : {"hit", "partial", "miss"}]

Bodies == {Body(chain.tiers[n], q) : n \in DOMAIN chain.tiers, q \in Requests}

Exchanges == [body : Bodies, served : Models \cup {NoModel},
              usage : Counts \cup {Nothing}, seen : {"pending", "read", "error"}]

Entries == [call : Calls, resp : Responses, form : {"line", "torn", "glued"},
            session : Nat]

Places == {"idle", "ask", "wait", "store", "record", "return", "done", "failed", "lost"}

\* Every variable holds what the code can put in it, no tier is asked beyond the
\* last (cascade.go:63), and what is stored or recorded is a Response.
TypeOK ==
    /\ chain \in Chains
    /\ request \in [Calls -> Requests]
    /\ pc \in [Calls -> Places]
    /\ exchanges \in [Calls -> Seq(Exchanges)]
    /\ resp \in [Calls -> Responses \cup {Nothing}]
    /\ store \in [Requests -> Responses \cup {Nothing}]
    /\ sink \in {"open", "closed", "broken"}
    /\ file \in Seq(Entries)
    /\ session \in Nat
    /\ answered \in SUBSET Calls
    /\ \A c \in Calls :
          /\ pc[c] = "ask" => Len(exchanges[c]) < Len(chain.tiers)
          /\ Len(exchanges[c]) <= Len(chain.tiers)
          /\ pc[c] \in {"store", "record", "return", "done"} => resp[c] # Nothing

Table(tier) == IF tier.kind = "anthropic" THEN Anthropic ELSE tier.pricing

\* r is what the last tier that was asked for r.by answered: its tokens, and
\* their cost at the prices of the model that served it, when those are known.
IsAnswerOf(r) ==
    /\ exchanges[r.by] # <<>>
    /\ LET tier == Tier(r.by)
           x == Exchange(r.by)
       IN  /\ x.seen = "read"
           /\ r.model = IF chain.cascade THEN tier.name ELSE x.served
           /\ r.usage = x.usage
           /\ x.served \in Table(tier) => r.cost = ComputeCost(x.usage, x.served)
           /\ x.served \notin Table(tier) => r.cost = 0

\* An entry of the sink has the tokens and the cost of the exchange it is about:
\* the last one of its own call, or of an identical call that dedup answered it
\* from (account.go:37-47, anthropic.go:173-179, openai.go:205-209).
EntryProvenance ==
    \A n \in DOMAIN file :
       LET e == file[n]
       IN  /\ IsAnswerOf(e.resp)
           /\ request[e.resp.by] = request[e.call]
           /\ e.resp.by # e.call => chain.dedup /\ exchanges[e.call] = <<>>

\* As long as the sink has taken every write, each call that this process has
\* answered, from the provider or from dedup's store, has its entry in full
\* (account.go:16-17).  No call has two, and none has one that was not at the end of
\* its way up: an entry whose call is answered no more is that of a process that
\* ended in the middle of the Write or before the return (account.go:47-49).
AnsweredAreRecorded ==
    /\ sink = "open" => \A c \in answered : \E n \in DOMAIN file :
                            file[n].call = c /\ file[n].form # "torn"
    /\ \A n \in DOMAIN file :
          /\ \/ pc[file[n].call] \in {"return", "done"}
             \/ pc[file[n].call] = "lost" /\ file[n].session < session
          /\ \A k \in DOMAIN file : file[k].call = file[n].call => k = n

\* A torn line is the last that its process wrote, and what is glued to it the first
\* of another process: between two processes no more than these two entries are lost
\* to a reader of the file (sink.go:71, 86, 97).
OnlyTailTorn ==
    \A n, k \in DOMAIN file :
       n < k /\ (file[n].form = "torn" \/ file[k].form = "glued")
       => file[n].session < file[k].session

\* A call fails for what a provider did, or for want of a model: no trouble of
\* the sink ever loses a response that was paid for (account.go:47).
FailureIsTheProviders ==
    \A c \in Calls : pc[c] = "failed" =>
       IF exchanges[c] = <<>> THEN chain.tiers = <<>> ELSE Exchange(c).seen = "error"

Turns(messages) == OfRoles({"user", "assistant"}, messages)

\* The turns of the user and of the assistant reach every tier that a call asks,
\* all of them and in order, whichever way the adapters send the system prompt
\* (anthropic.go:107-118, openai.go:136-148).
ConversationArrives ==
    \A c \in Calls : \A n \in DOMAIN exchanges[c] :
       Turns(exchanges[c][n].body.messages) = Turns(request[c].messages)

\* A hit asks no tier, and settles nothing.
LadderOutcome(c) ==
    IF resp[c] # Nothing /\ exchanges[c] # <<>> THEN "response"
    ELSE IF pc[c] = "failed" THEN "error" ELSE "open"

L(c) == INSTANCE Ladder WITH size <- Len(chain.tiers), called <- Len(exchanges[c]),
                             outcome <- LadderOutcome(c)

\* Each call asks its tiers in order, each once, until it settles.
ImplementsLadder ==
    /\ \A c \in Calls : L(c)!Init
    /\ [][\A c \in Calls : [L(c)!Next]_(L(c)!vars)]_vars

-----------------------------------------------------------------------------
Charge(x) == IF x.served = NoModel THEN 0 ELSE ComputeCost(x.usage, x.served)

\* What the services have charged for call c, over its first n exchanges.
Charges(c) ==
    LET upTo[n \in 0 .. Len(exchanges[c])] ==
            IF n = 0 THEN 0 ELSE upTo[n - 1] + Charge(exchanges[c][n])
    IN  upTo

Charged(c) == Charges(c)[Len(exchanges[c])]

\* Under dedup the status tells whether dedup answered: it is "hit" exactly if
\* nothing was paid for in this call (dedup.go:58, 76).  It is not what
\* llmint.go:79-85 says of it: a response served from the provider's cache alone has
\* the status "miss" under dedup, and one that dedup repeats "hit".
HitCostsNothing ==
    \A c \in Calls : chain.dedup /\ pc[c] \in {"record", "return", "done"} =>
       (resp[c].status = "hit" <=> exchanges[c] = <<>>)

\* No entry says more than what was charged for the response that it is about
\* (account.go:37-47), whatever was escalated from and whatever has no price.
NeverOverstated ==
    \A n \in DOMAIN file : file[n].resp.cost <= Charged(file[n].resp.by)

\* An entry says exactly that if one tier was asked and has the price of the model
\* that served it: what EntryIsCostOfCall misses is escalations, hits and prices.
ExactForOneTier ==
    \A n \in DOMAIN file :
       LET c == file[n].resp.by
       IN  Len(exchanges[c]) = 1 /\ Exchange(c).served \in Table(Tier(c))
           => file[n].resp.cost = Charged(c)

\* README.md:6-7 says that LLMint shows "in USD, what each request cost".
EntryIsCostOfCall ==
    \A n \in DOMAIN file : file[n].resp.cost = Charged(file[n].call)

\* sink.go:76 and 93 say that FileSink "appends JSONL records to a file", each "as a
\* JSON line": as long as every Write of this process succeeds, each of its entries
\* is a line.
EntriesAreLines ==
    sink = "open" => \A n \in DOMAIN file : file[n].session = session
                                            => file[n].form = "line"

\* scorer.go:1-2 says that cascade "routes requests through increasingly capable
\* (and expensive) models": no model is asked twice.
EscalationAsksAnother ==
    \A c \in Calls : \A n, k \in DOMAIN exchanges[c] :
       n # k => exchanges[c][n].body.model # exchanges[c][k].body.model

DistinctDefaults(tiers) ==
    \A n, k \in DOMAIN tiers :
       tiers[n].kind = "openai" /\ (n # k => tiers[n].default # tiers[k].default)

\* The same where it does hold: the Request names no model, and each tier is an
\* openai adapter with a default of its own (openai.go:131-134).
AsksAnotherByDefault ==
    \A c \in Calls : request[c].model = NoModel /\ DistinctDefaults(chain.tiers) =>
       \A n, k \in DOMAIN exchanges[c] :
          n # k => exchanges[c][n].body.model # exchanges[c][k].body.model
=============================================================================
