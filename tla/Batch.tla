-------------------------------- MODULE Batch --------------------------------
(***************************************************************************)
(* middleware/batch: callers of Complete hand their request over an        *)
(* unbuffered channel to one background goroutine, which flushes the       *)
(* queued requests downstream when maxSize of them are queued or when the  *)
(* timer started by the first of them ticks.                               *)
(*                                                                         *)
(* A call is one invocation of Complete; a pendingItem is named by its     *)
(* call, and so is a timer: by the call whose arrival started it.  quit is *)
(* neither closed nor sent to anywhere in the repository, so the third     *)
(* case of run's select can never be taken and has no action here.         *)
(***************************************************************************)
EXTENDS Integers, Sequences, Functions

CONSTANTS Calls,        \* the invocations of Complete
          MaxSize,      \* New's maxSize, any int
          Realtime,     \* calls whose Metadata["priority"] is "realtime"
          AsyncCheck,   \* calls accepted by cfg.asyncCheck, or Nil without one
          Callback,     \* cfg.callback # nil
          Nested,       \* calls that only cfg.callback makes, from inside a flush
          Nil

ASSUME BatchAssumption ==
    /\ MaxSize \in Int
    /\ Callback \in BOOLEAN
    /\ Nested \subseteq Calls
    /\ Nil \notin Calls \cup {"ok", "err"}

VARIABLES
    pc,        \* pc[c]: where call c is in Complete
    reply,     \* reply[c]: what c's result channel (capacity 1) holds
    answer,    \* answer[c]: what Complete returned to c
    run,       \* where the goroutine is: "select", or flushing one item
    pending,   \* run's slice of queued items
    items,     \* flush's items after the current one
    current,   \* the item flush is working on
    outcome,   \* what downstream returned for current
    nested,    \* the call that cfg.callback is blocked in
    timer,     \* run's timer variable
    timerC,    \* run's timerC variable
    ticking,   \* timers started, not stopped, whose time is not up
    ticks,     \* timers with an unread tick in their channel
    accepted,  \* history: the calls received from enqueue, in order
    served     \* history: the calls whose request run handed downstream

callVars  == <<pc, reply, answer>>
flushVars == <<run, items, current, outcome, nested, served>>
timerVars == <<timer, timerC, ticking, ticks>>
vars == <<callVars, flushVars, timerVars, pending, accepted>>

Outcomes == {"ok", "err"}

-----------------------------------------------------------------------------
\* The caller's side.

\* Plausible bug: the sense of the default check is inverted.
ShouldBypassInverted(c) == IF AsyncCheck # Nil THEN c \notin AsyncCheck
                                               ELSE c \notin Realtime

ShouldBypass(c) == IF AsyncCheck # Nil THEN c \notin AsyncCheck
                                       ELSE c \in Realtime

Complete(c) ==
    /\ pc[c] = "idle"
    /\ pc' = [pc EXCEPT ![c] = IF ShouldBypass(c) THEN "bypass" ELSE "sending"]
    /\ UNCHANGED <<reply, answer>>

Call(c) ==
    /\ c \notin Nested
    /\ Complete(c)
    /\ UNCHANGED <<flushVars, timerVars, pending, accepted>>

BypassCall(c) ==
    /\ pc[c] = "bypass"
    /\ pc' = [pc EXCEPT ![c] = "direct"]
    /\ UNCHANGED <<reply, answer, flushVars, timerVars, pending, accepted>>

BypassReturn(c, o) ==
    /\ pc[c] = "direct"
    /\ pc' = [pc EXCEPT ![c] = "returned"]
    /\ answer' = [answer EXCEPT ![c] = o]
    /\ UNCHANGED <<reply, flushVars, timerVars, pending, accepted>>

\* Plausible bug: the channel is closed before the result is sent, and the
\* caller reads the zero result.
ClosedEarly(c) == TRUE

ResultArrived(c) == reply[c] # Nil

Receive(c) ==
    /\ pc[c] = "waiting"
    /\ ResultArrived(c)
    /\ pc' = [pc EXCEPT ![c] = "returned"]
    /\ answer' = [answer EXCEPT ![c] = reply[c]]
    /\ reply' = [reply EXCEPT ![c] = Nil]
    /\ UNCHANGED <<flushVars, timerVars, pending, accepted>>

-----------------------------------------------------------------------------
\* The goroutine's side.  Flush(q, t, tk): the start of a flush of the items q,
\* with t in variable timer and the timers tk ticking.  Stop leaves a tick that
\* is already in the channel where it is (go.mod asks for go 1.18).

\* Plausible bug: the timer starts with the second item.
StartsTimerLate(q) == Len(q) = 2

StartsTimer(q) == Len(q) = 1

\* Plausible bug: > for >=.
FlushesOverSize(q) == Len(q) > MaxSize

FlushesOnSize(q) == Len(q) >= MaxSize

\* Plausible bug: the variables are cleared but Stop is not called.
ForgetTimer(t, tk) ==
    /\ timer' = Nil
    /\ timerC' = Nil
    /\ ticking' = tk

StopTimer(t, tk) ==
    /\ timer' = Nil
    /\ timerC' = Nil
    /\ ticking' = tk \ {t}

Serve(c) ==
    /\ run' = "downstream"
    /\ current' = c
    /\ served' = Append(served, c)
    /\ UNCHANGED nested

\* Plausible bug: pending is not reset.
FlushKeepsPending(q, t, tk) ==
    /\ StopTimer(t, tk)
    /\ pending' = q
    /\ Serve(Head(q))
    /\ items' = Tail(q)
    /\ UNCHANGED outcome

Flush(q, t, tk) ==
    /\ StopTimer(t, tk)
    /\ pending' = <<>>
    /\ Serve(Head(q))
    /\ items' = Tail(q)
    /\ UNCHANGED outcome

\* case item := <-p.enqueue
Enqueue(c) ==
    LET q  == Append(pending, c)
        t  == IF StartsTimer(q) THEN c ELSE timer
        tC == IF StartsTimer(q) THEN c ELSE timerC
        tk == IF StartsTimer(q) THEN ticking \cup {c} ELSE ticking
    IN  /\ run = "select"
        /\ pc[c] = "sending"
        /\ pc' = [pc EXCEPT ![c] = "waiting"]
        /\ accepted' = Append(accepted, c)
        /\ IF FlushesOnSize(q)
             THEN Flush(q, t, tk)
             ELSE /\ pending' = q
                  /\ timer' = t
                  /\ timerC' = tC
                  /\ ticking' = tk
                  /\ UNCHANGED flushVars
        /\ UNCHANGED <<reply, answer, ticks>>

\* Plausible bug: one timer is reused for every batch and its channel is not
\* drained, so that a tick of an earlier batch is read as one of this batch.
TickOfAnyBatch(t) == ticks # {}

\* The tick the select reads: the one in the channel timerC refers to.
TickReady(t) == t \in ticks

\* case <-timerC
Tick ==
    /\ run = "select"
    /\ timerC # Nil
    /\ TickReady(timerC)
    /\ ticks' = ticks \ {timerC}
    /\ IF Len(pending) > 0
         THEN Flush(pending, timer, ticking)
         ELSE UNCHANGED <<pending, timer, timerC, ticking, flushVars>>
    /\ UNCHANGED <<callVars, accepted>>

\* The runtime's timer t comes due.
TimerExpires(t) ==
    /\ t \in ticking
    /\ ticking' = ticking \ {t}
    /\ ticks' = ticks \cup {t}
    /\ UNCHANGED <<callVars, flushVars, timer, timerC, pending, accepted>>

DownstreamReturns(o) ==
    /\ run = "downstream"
    /\ outcome' = o
    /\ run' = IF o = "ok" /\ Callback THEN "callback" ELSE "deliver"
    /\ UNCHANGED <<callVars, items, current, nested, served, timerVars, pending, accepted>>

\* cfg.callback runs on the goroutine; it may itself call Complete, and then
\* it is back only when that call is.
CallbackCalls(c) ==
    /\ run = "callback"
    /\ nested = Nil
    /\ c \in Nested
    /\ Complete(c)
    /\ nested' = c
    /\ UNCHANGED <<run, items, current, outcome, served, timerVars, pending, accepted>>

CallbackReturns ==
    /\ run = "callback"
    /\ \A c \in {nested} \ {Nil} : pc[c] = "returned"
    /\ nested' = Nil
    /\ run' = "deliver"
    /\ UNCHANGED <<callVars, items, current, outcome, served, timerVars, pending, accepted>>

\* Plausible bug: an item whose request failed downstream is skipped.
SendOnlySuccess == IF outcome = "ok" THEN [reply EXCEPT ![current] = outcome] ELSE reply

\* Plausible bug: the result goes to the next item of the loop.
SendToNext == [reply EXCEPT ![IF items = <<>> THEN current ELSE Head(items)] = outcome]

SendResult == [reply EXCEPT ![current] = outcome]

\* item.result <- result{...}; close(item.result); on to the next item.  The
\* close is not modelled: the channel's one reader reads it once.
Deliver ==
    /\ run = "deliver"
    /\ reply' = SendResult
    /\ outcome' = Nil
    /\ IF items = <<>>
         THEN /\ run' = "select"
              /\ current' = Nil
              /\ UNCHANGED <<items, served, nested>>
         ELSE /\ Serve(Head(items))
              /\ items' = Tail(items)
    /\ UNCHANGED <<pc, answer, timerVars, pending, accepted>>

-----------------------------------------------------------------------------
Init ==
    /\ pc = [c \in Calls |-> "idle"]
    /\ reply = [c \in Calls |-> Nil]
    /\ answer = [c \in Calls |-> Nil]
    /\ run = "select"
    /\ pending = <<>>
    /\ items = <<>>
    /\ current = Nil
    /\ outcome = Nil
    /\ nested = Nil
    /\ timer = Nil
    /\ timerC = Nil
    /\ ticking = {}
    /\ ticks = {}
    /\ accepted = <<>>
    /\ served = <<>>

\* Nobody is inside Complete and run waits in its select, as it may for ever.
Quiescent ==
    /\ run = "select"
    /\ \A c \in Calls : pc[c] \in {"idle", "returned"}
    /\ UNCHANGED vars

Caller(c) ==
    \/ Call(c)
    \/ BypassCall(c)
    \/ \E o \in Outcomes : BypassReturn(c, o)
    \/ Receive(c)

Goroutine ==
    \/ \E c \in Calls : Enqueue(c)
    \/ Tick
    \/ \E o \in Outcomes : DownstreamReturns(o)
    \/ \E c \in Calls : CallbackCalls(c)
    \/ CallbackReturns
    \/ Deliver

Next ==
    \/ \E c \in Calls : Caller(c)
    \/ Goroutine
    \/ \E t \in Calls : TimerExpires(t)
    \/ Quiescent

Spec == Init /\ [][Next]_vars

\* What the Go scheduler and runtime give: goroutines that can run do, senders
\* blocked on a channel are received in turn, timers come due, a bypassed call
\* comes back when its provider answers.
SchedulerFairness ==
    /\ \A c \in Calls : /\ WF_vars(BypassCall(c))
                        /\ WF_vars(\E o \in Outcomes : BypassReturn(c, o))
                        /\ WF_vars(Receive(c))
                        /\ WF_vars(Enqueue(c))
                        /\ WF_vars(TimerExpires(c))
    /\ WF_vars(Tick)
    /\ WF_vars(CallbackReturns)
    /\ WF_vars(Deliver)

FairSpec == Spec /\ SchedulerFairness

\* Downstream answers every request that run hands it: what a provider may or
\* may not do.
DownstreamAnswers == WF_vars(\E o \in Outcomes : DownstreamReturns(o))

-----------------------------------------------------------------------------
\* Every variable holds what the code can put in it; in particular a call that
\* has returned was given something, and a result channel holds at most the one
\* result of an item that has not been received yet.
TypeOK ==
    /\ pc \in [Calls -> {"idle", "bypass", "direct", "sending", "waiting", "returned"}]
    /\ reply \in [Calls -> Outcomes \cup {Nil}]
    /\ answer \in [Calls -> Outcomes \cup {Nil}]
    /\ \A c \in Calls : /\ answer[c] # Nil <=> pc[c] = "returned"
                        /\ reply[c] # Nil => pc[c] = "waiting"
    /\ run \in {"select", "downstream", "callback", "deliver"}
    /\ pending \in Seq(Calls)
    /\ items \in Seq(Calls)
    /\ current \in Calls \cup {Nil}
    /\ outcome \in Outcomes \cup {Nil}
    /\ nested \in Nested \cup {Nil}
    /\ timer \in Calls \cup {Nil}
    /\ timerC \in Calls \cup {Nil}
    /\ ticking \subseteq Calls
    /\ ticks \subseteq Calls
    /\ accepted \in Seq(Calls)
    /\ served \in Seq(Calls)

\* Requests reach the provider in the order in which run received them, none is
\* lost between the two slices and none is handed downstream (paid for) twice,
\* whatever flushes the size and the timer interleave (batch.go:101-137).
InOrderOnce ==
    /\ accepted = served \o items \o pending
    /\ IsInjective(accepted)

\* The callers blocked on their result channel without a result in it are those
\* whose item the goroutine still holds: no caller is orphaned by a flush, by
\* an error from downstream or by a timer (batch.go:107-122, 158-161).
NoOrphan ==
    {c \in Calls : pc[c] = "waiting" /\ reply[c] = Nil}
        = Range(items) \cup Range(pending) \cup ({current} \ {Nil})

\* A queued request is always watched by a timer that its own batch started and
\* that has not been lost, and an empty queue leaves no timer running
\* (batch.go:102-106, 130-134).
TimerGuardsBatch ==
    IF pending = <<>>
      THEN timer = Nil /\ timerC = Nil /\ ticking = {}
      ELSE /\ timer = Head(pending)
           /\ timerC = timer
           /\ timer \in ticking \cup ticks
           /\ ticking \subseteq {timer}

\* No flush hands downstream more than maxSize requests, or one if maxSize is
\* not positive, however many callers press in while another flush runs.
BatchBound == Len(items) + 1 <= MaxSize \/ items = <<>>

\* A flush begins only because the item just received fills the batch or because
\* the time of its own first item is up: a tick left over from an earlier batch,
\* which Stop may leave behind, never cuts a later batch short
\* (batch.go:102-106, 130-137).
NoEarlyFlush ==
    [][run = "select" /\ run' # "select" =>
          \/ accepted' # accepted /\ Len(pending) + 1 >= MaxSize
          \/ pending # <<>> /\ Head(pending) \in ticks]_vars

\* The refinement mapping: where call c is in the abstract Complete, which
\* requests reached downstream, and what downstream answered to them, which is
\* on its way in outcome, then in reply, then in answer.
AbsPhase == [c \in Calls |-> IF pc[c] \in {"idle", "returned"} THEN pc[c] ELSE "open"]

AbsBilled == Range(served) \cup
             {c \in Calls : ShouldBypass(c) /\ pc[c] \in {"direct", "returned"}}

AbsOutcome == [c \in Calls |-> CASE answer[c] # Nil -> answer[c]
                                 [] answer[c] = Nil /\ reply[c] # Nil -> reply[c]
                                 [] answer[c] = Nil /\ reply[c] = Nil /\ c = current
                                       /\ outcome # Nil -> outcome
                                 [] OTHER -> "none"]

Abs == INSTANCE Completion WITH
    MayReuse <- FALSE, phase <- AbsPhase, billed <- AbsBilled, outcome <- AbsOutcome

\* The batch middleware is a Provider: it implements the abstract Complete.  A
\* queued request is handed downstream once and its caller is given what
\* downstream answered to that request, not to another of the same flush, and
\* never the zero result of a closed channel (batch.go:107-122, 153-161).
ImplementsCompletion == Abs!Spec

\* What keeps calls moving without another one being made: callers that can go on
\* by themselves, a sender or a tick that run's select can take, a timer that will
\* come due, downstream's answer, or run itself, which is not in a callback that is
\* blocked in Complete.
SomethingIsDue ==
    \/ \E c \in Calls : pc[c] \in {"bypass", "direct"}
    \/ \E c \in Calls : pc[c] = "waiting" /\ ResultArrived(c)
    \/ run = "select" /\ \E c \in Calls : pc[c] = "sending"
    \/ run = "select" /\ timerC # Nil /\ timerC \in ticks
    \/ ticking # {}
    \/ run \in {"downstream", "deliver"}
    \/ run = "callback" /\ (nested # Nil => pc[nested] = "returned")

\* As long as the callback makes realtime calls only, nobody is ever left inside
\* Complete with nothing due: callers, run and its timers cannot come to wait for
\* one another (batch.go:95-137, 153-161).
NeverStuck ==
    (\A c \in Nested : ShouldBypass(c)) =>
        ((\E c \in Calls : pc[c] \notin {"idle", "returned"}) => SomethingIsDue)

\* The callback is in a Complete that does not bypass the queue.
Reentered == run = "callback" /\ nested # Nil /\ ~ShouldBypass(nested)

\* Such a callback never comes back, as run, which it blocks, is the only one to
\* receive its request: nothing is received or handed downstream any more, and
\* whoever waits for run waits for ever (batch.go:95-100, 112-121, 158-161).
ReentryIsForever ==
    [][Reentered =>
         /\ Reentered'
         /\ UNCHANGED <<accepted, served>>
         /\ \A c \in Calls : pc[c] = "sending" \/ (pc[c] = "waiting" /\ reply[c] = Nil) =>
               pc'[c] = pc[c] /\ reply'[c] = reply[c]]_vars

\* Every call that is made returns, a lone one by its timer, provided downstream
\* answers and the callback calls Complete only for requests that bypass the
\* queue (batch_test.go:71-72 says it of a full batch, 115-116 of a lone call).
EveryCallReturns ==
    DownstreamAnswers => \A c \in Calls : pc[c] # "idle" ~> pc[c] = "returned"

\* A realtime request returns even when downstream never answers the request
\* run is flushing (batch.go:22-25, 84-91, 154-156).
RealtimeIsolated == \A c \in Realtime : pc[c] # "idle" ~> pc[c] = "returned"
=============================================================================
