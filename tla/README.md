# Verification of llmint in TLA+

llmint wraps calls of LLM providers in a chain of middlewares that account
for them and make them cheaper. These modules model the parts of it that keep
state or decide something, TLC checks them on small instances, and TLAPS proves
what matters most for every value of the constants. Lines are those of the
repository, e.g. `batch.go:107` is `middleware/batch/batch.go`, line 107.

## The system

| Component | State it keeps | Operations | What makes it correct |
|---|---|---|---|
| core (`llmint.go`, `chain.go`) | none | `Provider.Complete`, `Hash`, `ComputeCost`, `Chain` | a middleware is a `Provider`: a call is paid for at most once and is answered with what was answered to it |
| `middleware/batch` | in the goroutine `run`: `pending`, `timer`, `timerC`; per call a result channel | `Complete`, the goroutine's `select`, `flush` | order, nothing lost or sent twice, everybody answered with his own result, a queue is always watched by its own timer |
| `middleware/dedup` | the `CacheStore`: `MemoryStore.items` under a mutex | `Complete`, `Get`, `Set`, `Delete` | a hit is a fresh response to an identical request of a layer with the same prefix, errors are not stored |
| `middleware/cascade` | none between calls; the loop's counters | `Complete`, the scorer | models in order, within the budget, the cheapest sufficient response wins |
| `middleware/account` | a `Sink`: a slice, or a `json.Encoder` that remembers its first error, on a writer or a file | `Complete`, `Record`, `Close` | each answered call has an entry and none has two, with the tokens and the cost of the exchange it is about; trouble of the sink costs nobody a response |
| `middleware/promptcache` | `seen` under a mutex; the caller's `Metadata` map | `Complete`, `cleanExpired` | the annotation matches the prompt that is sent |
| `middleware/distill` | a `Library` (map under a RWMutex, or read from a file) | `Complete`, `Lookup`, `Register` | the prompt is replaced by what was registered for it, savings are what was saved |
| `provider/anthropic`, `openai`, `mock` | configuration; the mock's call counter | `Complete` | the conversation arrives, the cost is that of the model that answered |
| `cabi` | registry `pipelines`, `nextID` under a mutex; a `statsSink` per pipeline | create, complete, stats, free | an id leads to its pipeline or to none |
| `python` | `Pipeline._id` | `__init__`, `complete`, `stats`, `close` | a closed pipeline takes no calls, and no other pipeline takes them |

The components interact by calls down the chain and responses up it. Concurrency
enters with the callers: any number of goroutines (or Python threads, as ctypes
releases the interpreter's lock) call `Complete` of one chain at a time. They
share the dedup stores and the sinks behind mutexes, and meet the batch
goroutine over an unbuffered channel and a timer. Failures are the errors of
the next provider, a provider that never answers, and the application's own
writes to a store, a sink that cannot write, and the end of a process in the middle of
any of this. There is no persistence but a sink's file, and no retry.

`PROJECT.json` lists the components and, under `hazards`, what is hard to test
in this code, each with the properties that would notice it going wrong.

## Modules

| Module | Models | Extends / instantiates |
|---|---|---|
| `Completion` | the abstract `Complete` that a middleware promises: invoked, billed at most once, answered once with what was answered to it, or (if `MayReuse`) with what an earlier paid call was answered | |
| `Batch` | `batch.go` | an instance of `Completion` |
| `Dedup` | `dedup.go`, `store.go` | an instance of `Completion` |
| `Ladder` | the abstract call on a row of models: one after the other, each at most once, none after the call has settled | |
| `Cascade` | `cascade.go`, `scorer.go` | an instance of `Ladder` |
| `Account` | `account.go`, `sink.go`, `anthropic.go`, `openai.go` and their `models.go`, composed with dedup and cascade as far as they settle who is asked | an instance of `Ladder` for each call |
| `Prompts` | `promptcache.go`, `distill.go`, `library.go`: one layer, or one over the other in either order | |
| `Pipelines` | `exports.go`, `__init__.py`, and the chain of `chain.go`, `dedup.go`, `account.go` and `mock.go` as the C ABI builds it | an instance of `Completion` |
| `MCBatch`, `MCDedup`, `MCCascade`, `MCPrompts`, `MCPipelines`, `MCAccount` | the instances for TLC | the module of the name |
| `CompletionProofs` | what a caller may conclude from the abstract `Complete`, proved once | `Completion`, `TLAPS` |
| `BatchProofs`, `DedupProofs`, `CascadeProofs`, `PromptsProofs`, `PipelinesProofs`, `AccountProofs` | the proofs | the module of the name, `TLAPS`; `BatchProofs`, `DedupProofs` and `PipelinesProofs` an instance of `CompletionProofs` |

In each module an operator has the name of the function, method or case it
translates, or names its branch (`Hit`, `Miss`, `ForcedAnswers`). Variables
that the code does not have are marked `history`; they are written and, but for
the properties, never read. An operator that begins with "Plausible bug" is not
part of the model: it is a mistaken variant of the definition after it, with
which a run has to fail.

**Batch.** One action per step between two points where other goroutines can
intervene. `Complete` is the check of `shouldBypass`, then the send on `enqueue`,
which is the same step as the receive in `run` (`Enqueue`), then `Receive`. A
flush is `Flush` (timer stopped, slice taken over, first request sent), then for
each item `DownstreamReturns`, the callback, and `Deliver`. A timer is named by
the call that started it, so that the tick of a stopped timer stays in the old
timer's channel, as with `go 1.18` in `go.mod`; that it is harmless because
`timerC` points to the new channel is what `NoEarlyFlush` is about. A callback
may call `Complete` itself (`CallbackCalls`). The `quit` case is left out:
nothing closes or sends to `quit`. The callback runs inside the flush (before the
item's caller has its result), although `batch.go:30-31` says "after".

**Dedup.** Get and Set are one action each, as they hold the mutex; `Hit` and
`Miss` are `Get` with what `Complete` makes of its result. Layers with their own
TTL and prefix share a store. The clock is an action. A stored response is named
by the call that fetched it. `StoreSkipped` is the failing `json.Marshal`.

**Cascade.** The state of one call, as calls share nothing. A model is its index,
scores, thresholds and the numbers in tags are integers, since they are only compared
with each other and with 0, 0.5 and 1. A response's content is a sequence of blocks, text or not, with
the number in its first tag, if that can be read. With the default scorer the score is decided by the
content (`IsDefaultScore`), with another it is any. `scorer.go:18-19` says that the first text
block is looked at, and that the score is 0.5 if there is no tag. `DecidedByText` states what
follows from that where comment and code agree: if the first text block has a tag, it decides, whatever
comes before that block; if no text block has one, the score is 0.5. If only a later text block
has one, the comment says 0.5 and the code takes the tag: there `DecidedByText` is silent,
and says no more than that no other block decides.

**Account.** A call asks dedup's store, then a tier, and for each tier that it asks there is an
exchange: the body as the adapter composes it, who served it, what was billed, and whether
the adapter could read the answer. `Served` and what follows it are two steps, as
other calls, a failing connection or the end of the process come in between. A cascade is
modelled by what `Ladder` says of it, not by its scores: it may accept any tier's response, or
escalate past any but the last. Dedup's store may lose an entry at any time, but gives
an identical request no other response than one of its own; `Dedup` has the times and keys.
To record the entry and to return the response are two steps (`account.go:47`, `49`), so that a process
can end between them and leave the entry of a call that is never answered. The file is
the sequence of entries that were written; `session` tells the processes apart that appended them. An entry is a
`"line"` of its own, `"torn"` by a Write that failed or in which the process ended, or `"glued"`:
written in full, but behind a torn entry, as nobody looks at how the file ends. What a process has written is
in the file; that the machine may lose it is not modelled. Prices, tokens and costs are
natural numbers: the sums and products of `ComputeCost` are kept, the rounding of
`float64` is not. The entry of a hit repeats the tokens and the cost of the response that
was stored: `EntryProvenance` says so, and it is what makes a sum over the entries more than
what was paid.

**Prompts.** A call walks down the stack, one action a layer. What the two layers share
is the `*Request`: promptcache writes into its `Metadata`, distill passes on a copy
with another `System` and the same map, unless the map is nil, when the copy's is its
own (`copied`). A map is modelled by the prefix it was annotated for. The way up is part of
`Answer`, as it touches only the response. A FileLibrary is a library that does not
change (`readOnly`), whatever its file held (`Files`). The `float64` comparison of
the savings is made in integers, in percent. A Request is used by one
call at a time: promptcache writes to it without a lock, and what Go does in such a race
is not defined.

**Pipelines.** `close` is three steps (`_id` read, id freed, `_id` set to -1) and
`complete` reads `_id` in a step of its own, which is where threads interleave. (`close` reads `_id` twice,
`__init__.py:82-83`; if the second read is another close's -1, it frees nothing, as a second
close with the id itself does.) A
call then walks down its pipeline's layers and up again, one action a layer. A
response is the number of tokens in its `Savings`, in units of one request's
tokens. The C ABI's cascade has mocks of its own and accepts the first
response (default score 0.5, threshold 0.5), and what is below it in the chain is
never called. An expired entry is removed at once rather than at the next
`Get`: nothing else can see it. `stats` reads `_id`, looks it up and reads the sink in three steps.
A second dedup in the same chain makes a stored response carry the `Savings` of a hit below it, so that
overlapping calls count one avoided call twice: `SavingsAreReal` is checked and proved for
stacks with at most one. For any stack `SavingsBounded` bounds what is counted too often: one saving
for each dedup and call.

## Runs

| Run | Instance | What it shows |
|---|---|---|
| `batch_safety` | 3 queued clients, 1 realtime, a callback that calls past the queue; maxSize 2; downstream may never answer | order, no loss, no orphan, timers, bounds, `ImplementsCompletion`; `EveryCallReturns`, if downstream answers; `RealtimeIsolated`, whether it does or not |
| `dedup_safety` | 3 calls, 3 layers (TTL 1, TTL 2, never; two share a prefix), 2 hashes, clock to 3 | provenance, freshness, no redundant call, `ImplementsCompletion` |
| `cascade_safety` | all ladders of up to 4 models with thresholds none, 0.5 and out of reach, budgets -1..5, the default scorer on 10 contents of up to 2 blocks, or any other | budget, choice, what decides a score, `ImplementsLadder` |
| `prompts_safety` | 2 calls, 2 Requests, 4 prompts of 0, 1, 2 and 3 tokens, 4 stacks, an extractor or none, 4 distillates or a file, window 1, clock to 2 | the annotation, `seen`, the savings |
| `pipelines_safety` | 2 Pipelines, 3 calls of `complete` or `stats`, 2 closers, 3 stacks | handles, closing, what is counted, what stats tell, savings |
| `account_safety` | 3 calls, 2 Requests (one with a system prompt, a system message and no model), 4 chains with every kind of sink, an adapter of either kind, a cascade of both or of none, with prices and without, 2 models, 2 usages, 2 processes | provenance, completeness and integrity of the entries, failures, the conversation, `ImplementsLadder` |
| `batch_reentrant` | 2 clients and a callback that calls `Complete`, with an async check that queues all requests, realtime ones too | **violated**: the goroutine waits for itself |
| `cascade_savings` | as `cascade_safety` | **violated**: an escalation within the budget is not recorded as savings |
| `prompts_stale_mark` | 2 calls with 1 Request | **violated**: used again with a short prompt, it is still annotated |
| `account_torn` | 2 calls, 2 processes, one file | **violated**: the first entry of a process goes to the torn line of the one before |
| `account_cost` | 1 call, a cascade of 2 tiers | **violated**: the tier that was escalated from was paid for and is in no entry |
| `account_model` | the same | **violated**: both tiers are asked for the model that the Request names |

Each violated property quotes the line of the repository it is taken from; they
are the `findings` of `PROJECT.json`.

*Bounds.* Three queued clients and maxSize 2 give a full batch, a batch that a
tick cuts short, and one that gathers while another is flushed with a stale tick
left over; the theorems are about any number of clients and any maxSize. Three calls in `Dedup` let one response overwrite another while a third
reads, and the clock passes both TTLs. Four models put a budget below, at and above
the ladder's length. Two calls in `Prompts` use one Request
after the other or two at a time, and the clock takes a prefix out of the window while the other
call is under way; prompts of 0 and 6, 8 and 13 characters are below, at and above the
threshold of 2 tokens. Three calls in `Pipelines` are what it takes to store, to hit
and to hit what a hit stored; two objects and two closers what it takes for a
freed id to be mistaken. Three calls in `Account` let one store a response while
a second has missed and a third hits; two processes are enough to append to a torn line;
the system message of the longer Request stands between two turns, so that a lost or swapped turn shows. Symmetry is over calls, objects and threads, which no
definition tells apart, and is used where no liveness is checked. Deadlock is checked in every
run but `batch_reentrant`, where it is the finding, and those of `Account`, which stops
when all calls have returned or been lost. The bound of a
module is a constant named there (`MaxTime`, `MaxSessions`), everything else is bounded by the
number of calls.

*Fairness.* `Batch!SchedulerFairness` is weak fairness of what the Go scheduler and
runtime owe a goroutine that can run: a caller whose result is there receives it, a
sender blocked on a channel is taken (Go queues senders first come, first served),
a timer comes due, the goroutine goes on. A provider that answers a
bypassed call is assumed in all liveness runs, one that answers the goroutine's
requests only where it is said: `EveryCallReturns` has it (`DownstreamAnswers`) as its
premise, `RealtimeIsolated` has not. Nobody owes anybody a call:
`Call` has no fairness. `ctx` is not modelled since `Complete` does not
watch it while it is queued; a provider that does return early answers `"err"`.

## Proofs

| Theorem | Statement |
|---|---|
| `CompletionProofs!AnswersArePaidFor`, `AnswersAreFinal` | `Honest` and `Settled` of `Completion`: an answer without a bill is a success that was paid for before; answers are final, and end the billing |
| `BatchProofs!TypeCorrect`, `OrderPreserved`, `NobodyOrphaned`, `QueueIsWatched`, `FlushesBounded` | the invariants of `batch_safety`, for any calls, maxSize, async check, callback |
| `BatchProofs!FlushesJustified` | `NoEarlyFlush` |
| `BatchProofs!Refinement` | `Batch` implements `Completion` |
| `BatchProofs!NobodyStuck`, `ReentryBlocks` | `NeverStuck`: with a callback that makes realtime calls only, something is due whenever a call is under way; `ReentryIsForever`: with another, nothing ever is again |
| `DedupProofs!TypeCorrect`, `HitsHaveProvenance`, `HitsAreFresh`, `NoCallIsRedundant` | the properties of `dedup_safety`, for any layers, TTLs, hashes, calls |
| `DedupProofs!Refinement` | `Dedup` implements `Completion` |
| `PromptsProofs!TypeCorrect`, `SeenExact`, `AnnotationArrives`, `SavingsReported`, `PromptKept` | the invariants of `prompts_safety`, for any requests, prompts, thresholds, window, library |
| `PromptsProofs!DistilledIsShorter` | `NeverLonger`: with a minSavings that is not negative, no prompt but the empty one is replaced by a longer one |
| `PromptsProofs!MarksAreEarned` | `MarkIsEarned`: who is annotated is so for a long prefix of a call with the same Request |
| `CascadeProofs!TypeCorrect`, `BudgetKept`, `CheapestWins`, `DecisionsByText` | the properties of `cascade_safety`, for any ladder, thresholds, budget, contents, scorer |
| `CascadeProofs!SavingsTellTheBudget` | `RecordedByBudget`: savings are recorded exactly on the response of the last permitted escalation |
| `CascadeProofs!Refinement` | `Cascade` implements `Ladder` |
| `AccountProofs!TypeCorrect`, `FailuresAreTheProviders`, `EntriesHaveProvenance`, `AnswersRecorded`, `TornLinesEnd`, `ConversationsArrive` | the invariants of `account_safety`, for any chain of tiers, prices, requests, usages, and number of processes |
| `AccountProofs!HitsCostNothing` | `HitCostsNothing`: under dedup a response says hit exactly if its call asked no provider |
| `AccountProofs!EntriesNeverOverstate`, `EntriesExactForOneTier` | `NeverOverstated`, `ExactForOneTier`: an entry is at most what was charged for its response, and just that if one tier was asked and has the price |
| `AccountProofs!DefaultsAskAnother` | `AsksAnotherByDefault`: tiers with a default each are asked for another model each if the Request names none |
| `AccountProofs!Refinement` | each call of `Account` implements `Ladder` |
| `PipelinesProofs!TypeCorrect`, `CallsAreTheirPipelines`, `HandlesLeadHome`, `ClosedStaysClosed`, `CallsCounted`, `StatsTellTheCalls` | the properties of `pipelines_safety`, for any pipelines, stacks, threads and calls |
| `PipelinesProofs!SavingsReal`, `SavingsAreBounded` | `SavingsAreReal`, for stacks with at most one dedup (`OneDedup`); `SavingsBounded`, for all |
| `PipelinesProofs!AnswersAreRepeated`, `ChainIsAProvider` | `ReusesItsOwn`; a whole chain implements `Completion`, as its middlewares do |
| `AnswersArePaidFor`, `AnswersAreFinal` of `BatchProofs`, `DedupProofs`, `PipelinesProofs` | what the three modules inherit from `CompletionProofs` by their refinement |

For each finding there is a theorem that says where the code does hold to what was meant,
or how far it is from it:

| Run with the finding | Theorem |
|---|---|
| `batch_reentrant` | `NobodyStuck`: the callback's call is the only way to block; `ReentryBlocks`: for ever |
| `cascade_savings` | `SavingsTellTheBudget`: it is the spent budget that is recorded, not the escalation |
| `prompts_stale_mark` | `MarksAreEarned`: a short request has its annotation from a reused Request, and never through distill's copies from another one |
| `account_torn` | `TornLinesEnd`: between two processes no more than the torn entry and the first of the next are lost to a reader |
| `account_cost` | `EntriesNeverOverstate`, `EntriesExactForOneTier`: what is missing is escalations, hits and prices, and entries only ever say too little of their response |
| `account_model` | `DefaultsAskAnother`: it takes a Request that names no model, and tiers with defaults |

The properties that only a theorem states (`RecordedByBudget`, `MarkIsEarned`, `NeverStuck`,
`ReentryIsForever`, `NeverLonger`, `HitCostsNothing`, `NeverOverstated`, `ExactForOneTier`, `AsksAnotherByDefault`, `ReusesItsOwn`,
`SavingsBounded`, and `ImplementsCompletion` of `Pipelines`) were checked by TLC first, by adding them to the
cfgs of the `_safety` runs, and `ReentryIsForever` to that of `batch_reentrant`, where the callback does block.
`AsksAnotherByDefault` takes a chain that `MCAccount` does not have, a cascade of two openai adapters with
a default each. No run repeats them, as the theorems say the same of every instance.

They rest on the `ASSUME`s of the modules only (`BatchAssumption`,
`DedupAssumption`, `CascadeAssumption`, `PromptsAssumption`, `AccountAssumption`,
`PipelinesAssumption`: the types of the constants, that `Nil`
and the like are not values of the other constants, that there are finitely many calls where they are counted).

*The inductive invariants.* None of the properties is inductive alone.

- Batch: `Inv` adds to them where the goroutine is in terms of its variables
  (`ControlInv`: in the select nothing is being flushed, outside it there is no
  timer and no queue, so that a flush starts with every item accounted for), where each caller is
  (`CallerInv`: who has been accepted is waiting, served or returned, which makes
  `accepted` injective and a result channel empty before `Deliver`) and the room in the
  queue (`RoomInv`: shorter than maxSize while the goroutine is in the select, which bounds the next
  flush). `NoEarlyFlush` and the refinement are proved step by step from it. `NestedInv` adds that a call
  that the callback makes and that does not bypass the queue is still sending: only run could receive it.
- Dedup: what is in the store was put there by a call that is `known` unless the
  application wrote it, under that call's key and with the expiry of its layer,
  and a key's latest `known` response is the one in the store unless it expired.
- Cascade: `LoopInv` ties `i`, `escalations` and the log of calls together in each
  place of the loop; that the forced call is that of model `Cap` is what makes
  `models[i+1]` exist.
- Prompts: `ProgressInv` says that the prompt is the caller's until distill and that `dropped` is
  what distill took off it; `ExclusiveInv` that two calls under way have a Request
  each, without which one's annotation could overwrite the other's; `MarkInv` carries the annotation
  from promptcache to the provider past distill's copy. `SeenIsWindow` is inductive with
  the type invariant, because no prefix was tracked later than now. `EarnedInv` says of both places of an
  annotation, the Request's map and the copy's, whose it is: a call in either could hand it on.
- Account: `Bookkeeping` says what a call has by where it is. A response is `Good` if it is that of a
  settled call's last exchange, which no step changes any more (`Frozen`); that every
  response at hand, in the store and in the file is `Good` for its request (`AllGood`) is inductive, and
  `EntryProvenance` a part of it. `SinkInv` adds that an open sink has torn no line in this process and holds the
  entry of each call that is about to return, and that the processes' entries stand in their order.
  `ExchangesInv` says of every exchange, not only of the latest, that its body was composed by the adapter
  of its tier and that only a model that served it is billed. What the adapters' loop over the messages keeps (`Kept`) and what
  the exchanges charge (`Charges`) are functions on `0 .. n`, and what is proved of them goes by the least
  index where it would fail, as `WFMin` gives one.
- Pipelines: an id leads to the one object whose handle it is (`RegistryInv`), the id that
  a `close` has read is nobody else's and, once freed, not registered (`ClosingInv`), the id
  that a call has read leads to its own pipeline or nowhere (`LookupInv`): all three because `nextID`
  only grows. `EnteredInv` places a call in its stack. `CountInv` and `SumInv` relate the
  totals to the number of calls that have passed the account layer, `SavedInv` gives a call
  one saving or a provider's bill, not both. `TwinInv` adds that whatever is stored was paid for by a call
  of that pipeline with that request, and `NestedInv` that it has at most one saving for each dedup
  below the one that stores it.
- Completion: `Unpaid`, that who has neither been billed nor returned has no answer.

Where a comment of the code and the code differ and no run shows it, no property of a run takes either side. They are:

- `scorer.go:18-19`: 0.5 if the first text block has no tag; the code goes on to the next one (see Cascade).
- `distill.go:21-23`: the default of 0 is to "always replace if found"; the code refuses a prompt that is longer than
  the caller's, by its own comparison (`DistilledIsShorter` says how far).
- `llmint.go:79-85`: the status tells how the prompt cache was used; dedup sets it to hit for a response of its own
  and to miss for every other, also one that the provider served from its cache (`HitsCostNothing`).
- `dedup.go:33-34`: the second of two identical requests returns the cached response; if they overlap, both
  are paid for. `NoRedundantCall` is about what is stored.

Only model-checked: the liveness properties `EveryCallReturns` and `RealtimeIsolated`, as TLAPS does not reach
liveness under fairness (`NeverStuck` is the part of it that is an invariant). Every finding is TLC's.

## Not modelled, and why

- `quit` and the drain of `batch.go:142-148`: unreachable.
- `Name` and `Models`: no state. HTTP and JSON of the adapters: only how an exchange may end.
  `MaxTokens` and the headers, which nothing here depends on.
- `Hash`: a value of a set; what it leaves out (`Metadata`) is a decision the code
  documents. `TotalSavings`, a sum. The rounding of floating point.
- What a provider makes of the annotation: the two adapters do not read `Metadata`, so
  that `cache_control` is seen by a provider of the application's own, if any.
- Two calls at a time with one Request (a data race).
- The memory of the C strings: `_ffi.py` converts them and frees none.
- The entries of a `SliceSink` share the `Metadata` map of the caller's Request, and change with it.
- Parameters that the C ABI reads and ignores (`ttl`, `window`, `sink`, unknown types).

## Plan

1. `Hash` as an injective function of what it covers, with `TotalSavings` as a fold that agrees with the
   statsSink's running sum.
2. Batch in `Account`'s chain: entries of calls whose answers arrive through a callback.
