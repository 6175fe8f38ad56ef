----------------------------- MODULE BatchProofs -----------------------------
(***************************************************************************)
(* Proofs about Batch, for any set of callers, any maxSize and any callback. *)
(***************************************************************************)
EXTENDS Batch, SequenceTheorems, TLAPS

-----------------------------------------------------------------------------
\* Facts about sequences.

\* Append adds one element to the range.
LEMMA RangeOfAppend ==
    ASSUME NEW S, NEW q \in Seq(S), NEW e \in S
    PROVE  Range(Append(q, e)) = Range(q) \cup {e}
<1>1. Append(q, e) = q \o <<e>>
  BY AppendIsConcat
<1>2. <<e>> \in Seq(S) /\ Range(<<e>>) = {e}
  BY DEF Range
<1>3. Range(q \o <<e>>) = Range(q) \cup Range(<<e>>)
  BY <1>2, RangeConcatenation
<1>. QED  BY <1>1, <1>2, <1>3

\* A sequence that is not empty is its head before its tail.
LEMMA HeadThenTail ==
    ASSUME NEW S, NEW q \in Seq(S), q # <<>>
    PROVE  /\ <<Head(q)>> \in Seq(S)
           /\ q = <<Head(q)>> \o Tail(q)
<1>1. /\ Head(q) \in S
      /\ Tail(q) \in Seq(S)
      /\ Len(Tail(q)) = Len(q) - 1
      /\ \A i \in 1 .. Len(Tail(q)) : Tail(q)[i] = q[i + 1]
  BY HeadTailProperties
<1>2. /\ <<Head(q)>> \in Seq(S)
      /\ Len(<<Head(q)>>) = 1
      /\ <<Head(q)>>[1] = Head(q)
  BY <1>1
<1>3. Head(q) = q[1]
  OBVIOUS
<1>4. Len(q) \in Nat \ {0}
  BY EmptySeq
<1>5. /\ <<Head(q)>> \o Tail(q) \in Seq(S)
      /\ Len(<<Head(q)>> \o Tail(q)) = Len(q)
  BY <1>1, <1>2, <1>4, ConcatProperties
<1>6. ASSUME NEW i \in 1 .. Len(q)
      PROVE  q[i] = (<<Head(q)>> \o Tail(q))[i]
  <2>1. (<<Head(q)>> \o Tail(q))[i] = IF i <= 1 THEN <<Head(q)>>[i] ELSE Tail(q)[i - 1]
    BY <1>1, <1>2, <1>4, ConcatProperties
  <2>2. CASE i = 1
    BY <2>1, <2>2, <1>2, <1>3
  <2>3. CASE i # 1
    <3>1. i - 1 \in 1 .. Len(Tail(q)) /\ ~(i <= 1)
      BY <2>3, <1>1, <1>4
    <3>2. Tail(q)[i - 1] = q[(i - 1) + 1]
      BY <3>1, <1>1
    <3>. QED  BY <2>1, <3>1, <3>2
  <2>. QED  BY <2>2, <2>3
<1>. QED  BY <1>2, <1>5, <1>6, SeqEqual

\* The range of a sequence is its head and the range of its tail.
LEMMA RangeOfHeadTail ==
    ASSUME NEW S, NEW q \in Seq(S), q # <<>>
    PROVE  Range(q) = {Head(q)} \cup Range(Tail(q))
<1>1. Tail(q) \in Seq(S)
  BY HeadTailProperties
<1>2. <<Head(q)>> \in Seq(S) /\ q = <<Head(q)>> \o Tail(q)
  BY HeadThenTail
<1>3. Range(<<Head(q)>>) = {Head(q)}
  BY DEF Range
<1>4. Range(<<Head(q)>> \o Tail(q)) = Range(<<Head(q)>>) \cup Range(Tail(q))
  BY <1>1, <1>2, RangeConcatenation
<1>. QED  BY <1>2, <1>3, <1>4

\* Moving the head of one sequence to the end of the one before it.
LEMMA MoveHead ==
    ASSUME NEW S, NEW s \in Seq(S), NEW q \in Seq(S), q # <<>>
    PROVE  Append(s, Head(q)) \o Tail(q) = s \o q
<1>1. Head(q) \in S /\ Tail(q) \in Seq(S)
  BY HeadTailProperties
<1>2. <<Head(q)>> \in Seq(S) /\ q = <<Head(q)>> \o Tail(q)
  BY HeadThenTail
<1>3. Append(s, Head(q)) = s \o <<Head(q)>>
  BY <1>1, AppendIsConcat
<1>4. (s \o <<Head(q)>>) \o Tail(q) = s \o (<<Head(q)>> \o Tail(q))
  BY <1>1, <1>2, ConcatAssociative
<1>. QED  BY <1>2, <1>3, <1>4

\* Appending to the last part of a concatenation.
LEMMA AppendToLast ==
    ASSUME NEW S, NEW s \in Seq(S), NEW q \in Seq(S), NEW e \in S
    PROVE  Append(s \o q, e) = s \o Append(q, e)
<1>1. s \o q \in Seq(S) /\ <<e>> \in Seq(S)
  BY ConcatProperties
<1>2. Append(s \o q, e) = (s \o q) \o <<e>> /\ Append(q, e) = q \o <<e>>
  BY <1>1, AppendIsConcat
<1>. QED  BY <1>1, <1>2, ConcatAssociative

\* A new element keeps a sequence free of repetitions.
LEMMA InjectiveAppend ==
    ASSUME NEW S, NEW q \in Seq(S), NEW e \in S, IsInjective(q), e \notin Range(q)
    PROVE  IsInjective(Append(q, e))
<1>1. /\ Append(q, e) \in Seq(S)
      /\ Len(Append(q, e)) = Len(q) + 1
      /\ \A i \in 1 .. Len(q) : Append(q, e)[i] = q[i]
      /\ Append(q, e)[Len(q) + 1] = e
  BY AppendProperties
<1>2. Len(q) \in Nat /\ DOMAIN q = 1 .. Len(q) /\ DOMAIN Append(q, e) = 1 .. Len(q) + 1
  BY <1>1, LenProperties
<1>3. \A i \in 1 .. Len(q) : q[i] # e
  BY <1>2 DEF Range
<1>. QED  BY <1>1, <1>2, <1>3 DEF IsInjective

\* Without repetitions, the two parts of a concatenation are disjoint.
LEMMA InjectiveParts ==
    ASSUME NEW S, NEW s \in Seq(S), NEW t \in Seq(S), IsInjective(s \o t)
    PROVE  Range(s) \cap Range(t) = {}
<1>1. SUFFICES ASSUME NEW i \in DOMAIN s, NEW j \in DOMAIN t, s[i] = t[j]
               PROVE  FALSE
  BY DEF Range
<1>2. /\ Len(s) \in Nat /\ Len(t) \in Nat
      /\ i \in 1 .. Len(s) /\ j \in 1 .. Len(t)
  BY LenProperties
<1>3. /\ s \o t \in Seq(S)
      /\ Len(s \o t) = Len(s) + Len(t)
      /\ \A k \in 1 .. Len(s) + Len(t) :
            (s \o t)[k] = IF k <= Len(s) THEN s[k] ELSE t[k - Len(s)]
  BY ConcatProperties
<1>4. DOMAIN (s \o t) = 1 .. Len(s) + Len(t)
  BY <1>3, LenProperties
<1>5. (s \o t)[i] = s[i] /\ (s \o t)[Len(s) + j] = t[j]
  BY <1>2, <1>3
<1>. QED  BY <1>1, <1>2, <1>4, <1>5 DEF IsInjective
\* A part of a sequence without repetitions has none.
LEMMA InjectivePrefix ==
    ASSUME NEW S, NEW s \in Seq(S), NEW t \in Seq(S), IsInjective(s \o t)
    PROVE  IsInjective(s)
<1>1. /\ Len(s) \in Nat /\ Len(t) \in Nat
      /\ DOMAIN s = 1 .. Len(s)
      /\ DOMAIN (s \o t) = 1 .. Len(s) + Len(t)
      /\ \A i \in 1 .. Len(s) : (s \o t)[i] = s[i]
  BY LenProperties, ConcatProperties
<1>. QED  BY <1>1 DEF IsInjective

-----------------------------------------------------------------------------
\* The inductive invariant.

\* What the goroutine's place in its code says of the variables of flush.
ControlInv ==
    /\ run = "select" => items = <<>> /\ current = Nil
    /\ run # "select" => pending = <<>> /\ current # Nil /\ current \in Range(served)
    /\ run \in {"callback", "deliver"} <=> outcome # Nil
    /\ run # "callback" => nested = Nil

\* Only calls that do not bypass the queue are in it, and a call that was
\* received from enqueue does not come back to it.
CallerInv ==
    /\ \A c \in Calls : /\ pc[c] \in {"sending", "waiting"} => ~ShouldBypass(c)
                        /\ pc[c] \in {"bypass", "direct"} => ShouldBypass(c)
    /\ \A c \in Range(accepted) : pc[c] \in {"waiting", "returned"} /\ ~ShouldBypass(c)

\* The next item fits: had pending been full it would have been flushed.
RoomInv == pending # <<>> => Len(pending) < MaxSize

Inv ==
    /\ TypeOK
    /\ ControlInv
    /\ CallerInv
    /\ RoomInv
    /\ InOrderOnce
    /\ NoOrphan
    /\ TimerGuardsBatch
    /\ BatchBound

\* The steps that move no item: each conjunct of the invariant by itself.


\* A call enters Complete.
LEMMA CallKeepsInv ==
    ASSUME Inv, NEW c \in Calls, Call(c)
    PROVE  Inv'
<1>. USE BatchAssumption DEF Inv, Call, Complete, Outcomes, callVars, flushVars, timerVars
<1>1. TypeOK'
  BY DEF TypeOK, ControlInv, NoOrphan
<1>2. ControlInv'
  BY DEF TypeOK, ControlInv
<1>3. CallerInv'
  BY DEF TypeOK, CallerInv
<1>4. RoomInv'
  BY DEF RoomInv
<1>5. InOrderOnce'
  BY DEF InOrderOnce
<1>6. NoOrphan'
  BY DEF TypeOK, ControlInv, NoOrphan
<1>7. TimerGuardsBatch'
  BY DEF TypeOK, TimerGuardsBatch
<1>8. BatchBound'
  BY DEF BatchBound
<1>. QED  BY <1>1, <1>2, <1>3, <1>4, <1>5, <1>6, <1>7, <1>8


\* A bypassed call reaches downstream.
LEMMA BypassCallKeepsInv ==
    ASSUME Inv, NEW c \in Calls, BypassCall(c)
    PROVE  Inv'
<1>. USE BatchAssumption DEF Inv, BypassCall, Outcomes, callVars, flushVars, timerVars
<1>1. TypeOK'
  BY DEF TypeOK, ControlInv, NoOrphan
<1>2. ControlInv'
  BY DEF TypeOK, ControlInv
<1>3. CallerInv'
  BY DEF TypeOK, CallerInv
<1>4. RoomInv'
  BY DEF RoomInv
<1>5. InOrderOnce'
  BY DEF InOrderOnce
<1>6. NoOrphan'
  BY DEF TypeOK, ControlInv, NoOrphan
<1>7. TimerGuardsBatch'
  BY DEF TypeOK, TimerGuardsBatch
<1>8. BatchBound'
  BY DEF BatchBound
<1>. QED  BY <1>1, <1>2, <1>3, <1>4, <1>5, <1>6, <1>7, <1>8


\* A bypassed call returns.
LEMMA BypassReturnKeepsInv ==
    ASSUME Inv, NEW c \in Calls, NEW o \in Outcomes, BypassReturn(c, o)
    PROVE  Inv'
<1>. USE BatchAssumption DEF Inv, BypassReturn, Outcomes, callVars, flushVars, timerVars
<1>1. TypeOK'
  BY DEF TypeOK, ControlInv, NoOrphan
<1>2. ControlInv'
  BY DEF TypeOK, ControlInv
<1>3. CallerInv'
  BY DEF TypeOK, CallerInv
<1>4. RoomInv'
  BY DEF RoomInv
<1>5. InOrderOnce'
  BY DEF InOrderOnce
<1>6. NoOrphan'
  BY DEF TypeOK, ControlInv, NoOrphan
<1>7. TimerGuardsBatch'
  BY DEF TypeOK, TimerGuardsBatch
<1>8. BatchBound'
  BY DEF BatchBound
<1>. QED  BY <1>1, <1>2, <1>3, <1>4, <1>5, <1>6, <1>7, <1>8


\* A caller receives its result, which was there: it was not one of the orphans.
LEMMA ReceiveKeepsInv ==
    ASSUME Inv, NEW c \in Calls, Receive(c)
    PROVE  Inv'
<1>. USE BatchAssumption DEF Inv, Receive, ResultArrived, Outcomes, callVars, flushVars, timerVars
<1>1. TypeOK'
  BY DEF TypeOK, ControlInv, NoOrphan
<1>2. ControlInv'
  BY DEF TypeOK, ControlInv
<1>3. CallerInv'
  BY DEF TypeOK, CallerInv
<1>4. RoomInv'
  BY DEF RoomInv
<1>5. InOrderOnce'
  BY DEF InOrderOnce
<1>6. NoOrphan'
  BY DEF TypeOK, ControlInv, NoOrphan
<1>7. TimerGuardsBatch'
  BY DEF TypeOK, TimerGuardsBatch
<1>8. BatchBound'
  BY DEF BatchBound
<1>. QED  BY <1>1, <1>2, <1>3, <1>4, <1>5, <1>6, <1>7, <1>8


\* Downstream answers the request of the current item.
LEMMA DownstreamReturnsKeepsInv ==
    ASSUME Inv, NEW o \in Outcomes, DownstreamReturns(o)
    PROVE  Inv'
<1>. USE BatchAssumption DEF Inv, DownstreamReturns, Outcomes, callVars, flushVars, timerVars
<1>1. TypeOK'
  BY DEF TypeOK, ControlInv, NoOrphan
<1>2. ControlInv'
  BY DEF TypeOK, ControlInv
<1>3. CallerInv'
  BY DEF TypeOK, CallerInv
<1>4. RoomInv'
  BY DEF RoomInv
<1>5. InOrderOnce'
  BY DEF InOrderOnce
<1>6. NoOrphan'
  BY DEF TypeOK, ControlInv, NoOrphan
<1>7. TimerGuardsBatch'
  BY DEF TypeOK, TimerGuardsBatch
<1>8. BatchBound'
  BY DEF BatchBound
<1>. QED  BY <1>1, <1>2, <1>3, <1>4, <1>5, <1>6, <1>7, <1>8


\* The callback calls Complete.
LEMMA CallbackCallsKeepsInv ==
    ASSUME Inv, NEW c \in Calls, CallbackCalls(c)
    PROVE  Inv'
<1>. USE BatchAssumption DEF Inv, CallbackCalls, Complete, Outcomes, callVars, flushVars, timerVars
<1>1. TypeOK'
  BY DEF TypeOK, ControlInv, NoOrphan
<1>2. ControlInv'
  BY DEF TypeOK, ControlInv
<1>3. CallerInv'
  BY DEF TypeOK, CallerInv
<1>4. RoomInv'
  BY DEF RoomInv
<1>5. InOrderOnce'
  BY DEF InOrderOnce
<1>6. NoOrphan'
  BY DEF TypeOK, ControlInv, NoOrphan
<1>7. TimerGuardsBatch'
  BY DEF TypeOK, TimerGuardsBatch
<1>8. BatchBound'
  BY DEF BatchBound
<1>. QED  BY <1>1, <1>2, <1>3, <1>4, <1>5, <1>6, <1>7, <1>8


\* The callback is back.
LEMMA CallbackReturnsKeepsInv ==
    ASSUME Inv, CallbackReturns
    PROVE  Inv'
<1>. USE BatchAssumption DEF Inv, CallbackReturns, Outcomes, callVars, flushVars, timerVars
<1>1. TypeOK'
  BY DEF TypeOK, ControlInv, NoOrphan
<1>2. ControlInv'
  BY DEF TypeOK, ControlInv
<1>3. CallerInv'
  BY DEF TypeOK, CallerInv
<1>4. RoomInv'
  BY DEF RoomInv
<1>5. InOrderOnce'
  BY DEF InOrderOnce
<1>6. NoOrphan'
  BY DEF TypeOK, ControlInv, NoOrphan
<1>7. TimerGuardsBatch'
  BY DEF TypeOK, TimerGuardsBatch
<1>8. BatchBound'
  BY DEF BatchBound
<1>. QED  BY <1>1, <1>2, <1>3, <1>4, <1>5, <1>6, <1>7, <1>8


\* A timer that ticks is still the one that watches the queue.
LEMMA TimerExpiresKeepsInv ==
    ASSUME Inv, NEW t \in Calls, TimerExpires(t)
    PROVE  Inv'
<1>. USE BatchAssumption DEF Inv, TimerExpires, Outcomes, callVars, flushVars, timerVars
<1>1. TypeOK'
  BY DEF TypeOK, ControlInv, NoOrphan
<1>2. ControlInv'
  BY DEF TypeOK, ControlInv
<1>3. CallerInv'
  BY DEF TypeOK, CallerInv
<1>4. RoomInv'
  BY DEF RoomInv
<1>5. InOrderOnce'
  BY DEF InOrderOnce
<1>6. NoOrphan'
  BY DEF TypeOK, ControlInv, NoOrphan
<1>7. TimerGuardsBatch'
  BY DEF TypeOK, TimerGuardsBatch
<1>8. BatchBound'
  BY DEF BatchBound
<1>. QED  BY <1>1, <1>2, <1>3, <1>4, <1>5, <1>6, <1>7, <1>8


\* A flush of q, which takes over what the queue held.
LEMMA FlushKeepsInv ==
    ASSUME Inv, run = "select", ticks' \subseteq Calls,
           NEW q \in Seq(Calls), q # <<>>, Len(q) <= MaxSize \/ Len(q) = 1,
           NEW t, NEW tk, tk \subseteq {t}, Flush(q, t, tk),
           accepted' \in Seq(Calls), IsInjective(accepted'), accepted' = served \o q,
           pc' \in [Calls -> {"idle", "bypass", "direct", "sending", "waiting", "returned"}],
           UNCHANGED <<reply, answer>>,
           \A c \in Calls : /\ answer[c] # Nil <=> pc'[c] = "returned"
                            /\ reply[c] # Nil => pc'[c] = "waiting",
           CallerInv',
           {c \in Calls : pc'[c] = "waiting" /\ reply[c] = Nil} = Range(q)
    PROVE  Inv'
<1>1. /\ items = <<>> /\ current = Nil /\ outcome = Nil /\ nested = Nil
      /\ served \in Seq(Calls)
  BY DEF Inv, TypeOK, ControlInv
<1>2. /\ run' = "downstream" /\ current' = Head(q) /\ served' = Append(served, Head(q))
      /\ nested' = Nil /\ outcome' = Nil /\ pending' = <<>> /\ items' = Tail(q)
      /\ timer' = Nil /\ timerC' = Nil /\ ticking' = {}
  BY <1>1 DEF Flush, Serve, StopTimer
<1>3. /\ Head(q) \in Calls
      /\ Tail(q) \in Seq(Calls)
      /\ Len(Tail(q)) = Len(q) - 1
      /\ Range(q) = {Head(q)} \cup Range(Tail(q))
      /\ Append(served, Head(q)) \in Seq(Calls)
      /\ Range(Append(served, Head(q))) = Range(served) \cup {Head(q)}
      /\ Append(served, Head(q)) \o Tail(q) = served \o q
      /\ Append(served, Head(q)) \o Tail(q) \in Seq(Calls)
  <2>1. Head(q) \in Calls /\ Tail(q) \in Seq(Calls) /\ Len(Tail(q)) = Len(q) - 1
    BY HeadTailProperties
  <2>2. Range(q) = {Head(q)} \cup Range(Tail(q))
    BY RangeOfHeadTail
  <2>3. Append(served, Head(q)) \in Seq(Calls)
    BY <1>1, <2>1, AppendProperties
  <2>4. Range(Append(served, Head(q))) = Range(served) \cup {Head(q)}
    BY <1>1, <2>1, RangeOfAppend
  <2>5. Append(served, Head(q)) \o Tail(q) = served \o q
    BY <1>1, MoveHead
  <2>. QED  BY <2>1, <2>2, <2>3, <2>4, <2>5
<1>4. TypeOK'
  BY <1>1, <1>2, <1>3 DEF Inv, TypeOK
<1>5. ControlInv'
  BY <1>2, <1>3, BatchAssumption DEF ControlInv
<1>6. InOrderOnce'
  BY <1>2, <1>3, ConcatEmptySeq DEF InOrderOnce
<1>7. NoOrphan'
  <2>1. Range(<<>>) = {}
    BY DEF Range
  <2>. QED  BY <1>2, <1>3, <2>1, BatchAssumption DEF NoOrphan
<1>8. RoomInv' /\ TimerGuardsBatch'
  BY <1>2 DEF RoomInv, TimerGuardsBatch
<1>9. BatchBound'
  <2>1. Len(q) \in Nat
    BY LenProperties
  <2>2. Tail(q) # <<>> => Len(Tail(q)) \in Nat \ {0}
    BY <1>3, EmptySeq
  <2>. QED  BY <1>2, <1>3, <2>1, <2>2, BatchAssumption DEF BatchBound
<1>. QED  BY <1>4, <1>5, <1>6, <1>7, <1>8, <1>9 DEF Inv

\* A tick flushes the queue: timerC is set only while it is not empty.
LEMMA TickKeepsInv ==
    ASSUME Inv, Tick
    PROVE  Inv'
<1>1. pending # <<>> /\ pending \in Seq(Calls) /\ Len(pending) > 0 /\ Len(pending) < MaxSize
  <2>1. pending # <<>>
    BY DEF Inv, Tick, TimerGuardsBatch
  <2>. QED  BY <2>1, EmptySeq DEF Inv, TypeOK, RoomInv
<1>2. Flush(pending, timer, ticking) /\ run = "select" /\ ticks' \subseteq Calls
  BY <1>1 DEF Inv, TypeOK, Tick
<1>3. accepted' = served \o pending /\ IsInjective(accepted')
  BY ConcatEmptySeq DEF Inv, TypeOK, Tick, ControlInv, InOrderOnce
<1>4. {c \in Calls : pc'[c] = "waiting" /\ reply[c] = Nil} = Range(pending)
  <2>1. Range(<<>>) = {}
    BY DEF Range
  <2>. QED  BY <1>2, <2>1 DEF Inv, Tick, callVars, ControlInv, NoOrphan
<1>5. CallerInv' /\ UNCHANGED <<pc, reply, answer, accepted>>
  BY DEF Inv, Tick, callVars, CallerInv
<1>6. ticking \subseteq {timer} /\ Len(pending) <= MaxSize
  BY <1>1, BatchAssumption, EmptySeq DEF Inv, TimerGuardsBatch
<1>. QED
  BY <1>1, <1>2, <1>3, <1>4, <1>5, <1>6, FlushKeepsInv DEF Inv, TypeOK

\* An item is received: it is new, so nothing is repeated, and either it fits
\* or the batch it completes is flushed.
LEMMA EnqueueKeepsInv ==
    ASSUME Inv, NEW c \in Calls, Enqueue(c)
    PROVE  Inv'
<1>. DEFINE q == Append(pending, c)
<1>0. /\ run = "select" /\ pc[c] = "sending"
      /\ pc' = [pc EXCEPT ![c] = "waiting"]
      /\ accepted' = Append(accepted, c)
      /\ UNCHANGED <<reply, answer, ticks>>
  BY DEF Enqueue
<1>1. /\ items = <<>> /\ current = Nil /\ outcome = Nil /\ nested = Nil
      /\ served \in Seq(Calls) /\ pending \in Seq(Calls) /\ accepted \in Seq(Calls)
  BY <1>0 DEF Inv, TypeOK, ControlInv
<1>2. /\ q \in Seq(Calls)
      /\ q # <<>>
      /\ Len(q) = Len(pending) + 1
      /\ Range(q) = Range(pending) \cup {c}
      /\ Head(q) = IF pending = <<>> THEN c ELSE Head(pending)
  BY <1>1, AppendProperties, HeadTailAppend, RangeOfAppend
<1>3. /\ Len(pending) \in Nat
      /\ pending = <<>> <=> Len(pending) = 0
  BY <1>1, EmptySeq
<1>4. /\ accepted' \in Seq(Calls)
      /\ Range(accepted') = Range(accepted) \cup {c}
      /\ IsInjective(accepted')
      /\ accepted' = served \o q
  <2>1. c \notin Range(accepted)
    BY <1>0 DEF Inv, CallerInv
  <2>2. IsInjective(accepted')
    BY <1>0, <1>1, <2>1, InjectiveAppend DEF Inv, InOrderOnce
  <2>3. accepted = served \o pending
    BY <1>1, ConcatEmptySeq DEF Inv, InOrderOnce
  <2>4. accepted' = served \o q
    <3>1. served \in Seq(Calls) /\ pending \in Seq(Calls) /\ c \in Calls
      BY <1>1
    <3>2. \A s, t \in Seq(Calls) : \A e \in Calls : Append(s \o t, e) = s \o Append(t, e)
      BY AppendToLast
    <3>3. Append(served \o pending, c) = served \o Append(pending, c)
      BY <3>1, <3>2
    <3>. QED  BY <1>0, <2>3, <3>3
  <2>5. Range(accepted') = Range(accepted) \cup {c}
    BY <1>0, <1>1, RangeOfAppend
  <2>. QED  BY <1>0, <1>1, <2>2, <2>4, <2>5, AppendProperties
<1>5. CallerInv'
  BY <1>0, <1>4 DEF Inv, TypeOK, CallerInv
<1>6. {d \in Calls : pc'[d] = "waiting" /\ reply[d] = Nil} = Range(q)
  <2>1. Range(<<>>) = {}
    BY DEF Range
  <2>2. {d \in Calls : pc[d] = "waiting" /\ reply[d] = Nil} = Range(pending)
    BY <1>1, <2>1 DEF Inv, NoOrphan
  <2>3. reply[c] = Nil
    BY <1>0 DEF Inv, TypeOK
  <2>. QED  BY <1>0, <1>2, <2>2, <2>3 DEF Inv, TypeOK
<1>7. /\ pc' \in [Calls -> {"idle", "bypass", "direct", "sending", "waiting", "returned"}]
      /\ \A d \in Calls : /\ answer[d] # Nil <=> pc'[d] = "returned"
                          /\ reply[d] # Nil => pc'[d] = "waiting"
  BY <1>0 DEF Inv, TypeOK
<1>8. CASE FlushesOnSize(q)
  <2>1. PICK t, tk : Flush(q, t, tk) /\ tk \subseteq {t}
    <3>1. CASE pending = <<>>
      <4>1. StartsTimer(q) /\ ticking = {}
        BY <1>2, <1>3, <3>1 DEF StartsTimer, Inv, TimerGuardsBatch
      <4>2. Flush(q, c, {c})
        BY <1>8, <4>1 DEF Enqueue
      <4>. QED  BY <4>2
    <3>2. CASE pending # <<>>
      <4>1. ~StartsTimer(q) /\ ticking \subseteq {timer}
        BY <1>2, <1>3, <3>2 DEF StartsTimer, Inv, TimerGuardsBatch
      <4>2. Flush(q, timer, ticking)
        BY <1>8, <4>1 DEF Enqueue
      <4>. QED  BY <4>1, <4>2
    <3>. QED  BY <3>1, <3>2
  <2>2. Len(q) <= MaxSize \/ Len(q) = 1
    BY <1>2, <1>3, BatchAssumption DEF Inv, RoomInv
  <2>3. ticks' \subseteq Calls
    BY <1>0 DEF Inv, TypeOK
  <2>. HIDE DEF q
  <2>. QED
    BY <1>0, <1>2, <1>4, <1>5, <1>6, <1>7, <2>1, <2>2, <2>3, FlushKeepsInv
<1>9. CASE ~FlushesOnSize(q)
  <2>1. /\ pending' = q
        /\ timer' = IF pending = <<>> THEN c ELSE timer
        /\ timerC' = IF pending = <<>> THEN c ELSE timerC
        /\ ticking' = IF pending = <<>> THEN ticking \cup {c} ELSE ticking
        /\ UNCHANGED <<run, items, current, outcome, nested, served>>
    BY <1>2, <1>3, <1>9 DEF Enqueue, StartsTimer, flushVars
  <2>2. Len(q) < MaxSize
    BY <1>2, <1>3, <1>9, BatchAssumption DEF FlushesOnSize
  <2>. HIDE DEF q
  <2>3. TypeOK'
    BY <1>0, <1>1, <1>2, <1>4, <1>7, <2>1 DEF Inv, TypeOK
  <2>4. ControlInv'
    BY <1>0, <1>1, <2>1 DEF Inv, ControlInv
  <2>5. RoomInv' /\ BatchBound'
    BY <1>1, <2>1, <2>2 DEF RoomInv, BatchBound
  <2>6. InOrderOnce'
    BY <1>1, <1>4, <2>1, ConcatEmptySeq DEF InOrderOnce
  <2>7. NoOrphan'
    <3>1. Range(<<>>) = {}
      BY DEF Range
    <3>. QED  BY <1>0, <1>1, <1>6, <2>1, <3>1 DEF NoOrphan
  <2>8. TimerGuardsBatch'
    BY <1>0, <1>2, <2>1 DEF Inv, TimerGuardsBatch
  <2>. QED  BY <1>5, <2>3, <2>4, <2>5, <2>6, <2>7, <2>8 DEF Inv
<1>. QED  BY <1>8, <1>9

\* A result is sent: its caller is no longer waiting for anything the goroutine
\* holds, since current occurs nowhere in the items after it.
LEMMA DeliverKeepsInv ==
    ASSUME Inv, Deliver
    PROVE  Inv'
<1>1. /\ run = "deliver" /\ pending = <<>> /\ nested = Nil
      /\ current \in Calls /\ current # Nil /\ current \in Range(served) /\ outcome \in Outcomes
      /\ served \in Seq(Calls) /\ items \in Seq(Calls) /\ accepted \in Seq(Calls)
  BY DEF Inv, TypeOK, ControlInv, Deliver
<1>2. /\ reply' = [reply EXCEPT ![current] = outcome] /\ outcome' = Nil
      /\ UNCHANGED <<pc, answer, timer, timerC, ticking, ticks, pending, accepted>>
  BY DEF Deliver, SendResult, timerVars
<1>3. Range(<<>>) = {}
  BY DEF Range
<1>4. accepted = served \o items /\ IsInjective(accepted)
  <2>1. served \o items \in Seq(Calls)
    BY <1>1, ConcatProperties
  <2>. QED  BY <1>1, <2>1, ConcatEmptySeq DEF Inv, InOrderOnce
<1>5. current \notin Range(items)
  BY <1>1, <1>4, InjectiveParts
<1>6. pc[current] = "waiting" /\ reply[current] = Nil /\ outcome # Nil
  BY <1>1, BatchAssumption DEF Inv, NoOrphan, Outcomes
<1>7. {c \in Calls : pc'[c] = "waiting" /\ reply'[c] = Nil} = Range(items)
  <2>1. {c \in Calls : pc[c] = "waiting" /\ reply[c] = Nil} = Range(items) \cup {current}
    BY <1>1, <1>3 DEF Inv, NoOrphan
  <2>. QED  BY <1>1, <1>2, <1>5, <1>6, <2>1 DEF Inv, TypeOK
<1>8. /\ reply' \in [Calls -> Outcomes \cup {Nil}]
      /\ \A c \in Calls : reply'[c] # Nil => pc'[c] = "waiting"
  BY <1>1, <1>2, <1>6 DEF Inv, TypeOK
<1>9. CallerInv' /\ RoomInv' /\ TimerGuardsBatch'
  BY <1>2 DEF Inv, CallerInv, RoomInv, TimerGuardsBatch
<1>10. CASE items = <<>>
  <2>1. run' = "select" /\ current' = Nil /\ UNCHANGED <<items, served, nested>>
    BY <1>10 DEF Deliver
  <2>2. TypeOK'
    BY <1>2, <1>8, <2>1 DEF Inv, TypeOK
  <2>3. ControlInv' /\ BatchBound'
    BY <1>1, <1>2, <1>10, <2>1 DEF ControlInv, BatchBound
  <2>4. InOrderOnce'
    BY <1>2, <2>1 DEF Inv, InOrderOnce
  <2>5. NoOrphan'
    BY <1>1, <1>2, <1>3, <1>7, <1>10, <2>1 DEF NoOrphan
  <2>. QED  BY <1>9, <2>2, <2>3, <2>4, <2>5 DEF Inv
<1>11. CASE items # <<>>
  <2>1. /\ run' = "downstream" /\ current' = Head(items)
        /\ served' = Append(served, Head(items)) /\ items' = Tail(items) /\ nested' = nested
    BY <1>11 DEF Deliver, Serve
  <2>2. Head(items) \in Calls /\ Tail(items) \in Seq(Calls) /\ Len(Tail(items)) = Len(items) - 1
    BY <1>1, <1>11, HeadTailProperties
  <2>3. Append(served, Head(items)) \in Seq(Calls)
    BY <1>1, <2>2, AppendProperties
  <2>4. Range(Append(served, Head(items))) = Range(served) \cup {Head(items)}
    BY <1>1, <2>2, RangeOfAppend
  <2>5. Append(served, Head(items)) \o Tail(items) = accepted
    BY <1>1, <1>4, <1>11, MoveHead
  <2>6. TypeOK'
    BY <1>2, <1>8, <2>1, <2>2, <2>3 DEF Inv, TypeOK
  <2>7. ControlInv'
    BY <1>1, <1>2, <2>1, <2>2, <2>4, BatchAssumption DEF ControlInv
  <2>8. InOrderOnce'
    BY <1>1, <1>2, <1>4, <2>1, <2>5, ConcatEmptySeq DEF InOrderOnce
  <2>9. NoOrphan'
    <3>1. Range(items) = {Head(items)} \cup Range(Tail(items))
      BY <1>1, <1>11, RangeOfHeadTail
    <3>. QED  BY <1>1, <1>2, <1>3, <1>7, <2>1, <2>2, <3>1, BatchAssumption DEF NoOrphan
  <2>10. BatchBound'
    <3>1. Len(items) \in Nat
      BY <1>1, EmptySeq
    <3>. QED  BY <1>11, <2>1, <2>2, <3>1, BatchAssumption DEF Inv, BatchBound
  <2>. QED  BY <1>9, <2>6, <2>7, <2>8, <2>9, <2>10 DEF Inv
<1>. QED  BY <1>10, <1>11

\* The middleware starts in the invariant.
LEMMA InitInv == Init => Inv
<1>. SUFFICES ASSUME Init PROVE Inv
  OBVIOUS
<1>1. <<>> \in Seq(Calls) /\ Range(<<>>) = {} /\ IsInjective(<<>>)
  BY EmptySeq DEF Range, IsInjective
<1>2. <<>> = (<<>> \o <<>>) \o <<>>
  BY <1>1, ConcatEmptySeq
<1>. QED
  BY <1>1, <1>2, BatchAssumption DEF Init, Inv, TypeOK, ControlInv, CallerInv, RoomInv,
     InOrderOnce, NoOrphan, TimerGuardsBatch, BatchBound, Outcomes

\* Every step of the specification keeps the invariant.
LEMMA NextKeepsInv ==
    ASSUME Inv, [Next]_vars
    PROVE  Inv'
<1>1. ASSUME NEW c \in Calls, Caller(c) PROVE Inv'
  BY <1>1, CallKeepsInv, BypassCallKeepsInv, BypassReturnKeepsInv, ReceiveKeepsInv DEF Caller
<1>2. ASSUME Goroutine PROVE Inv'
  BY <1>2, EnqueueKeepsInv, TickKeepsInv, DownstreamReturnsKeepsInv, CallbackCallsKeepsInv,
     CallbackReturnsKeepsInv, DeliverKeepsInv DEF Goroutine
<1>3. ASSUME NEW t \in Calls, TimerExpires(t) PROVE Inv'
  BY <1>3, TimerExpiresKeepsInv
<1>4. ASSUME Quiescent \/ UNCHANGED vars PROVE Inv'
  <2>. UNCHANGED <<pc, reply, answer, run, pending, items, current, outcome, nested, timer,
                   timerC, ticking, ticks, accepted, served>>
    BY <1>4 DEF Quiescent, vars, callVars, flushVars, timerVars
  <2>1. TypeOK'
    BY DEF Inv, TypeOK
  <2>2. ControlInv' /\ CallerInv' /\ RoomInv' /\ InOrderOnce'
    BY DEF Inv, ControlInv, CallerInv, RoomInv, InOrderOnce
  <2>3. NoOrphan' /\ TimerGuardsBatch' /\ BatchBound'
    BY DEF Inv, NoOrphan, TimerGuardsBatch, BatchBound
  <2>. QED  BY <2>1, <2>2, <2>3 DEF Inv
<1>. QED  BY <1>1, <1>2, <1>3, <1>4 DEF Next

\* Inv holds throughout every behaviour of the batch middleware.
THEOREM Invariance == Spec => []Inv
<1>1. Inv /\ [Next]_vars => Inv'
  BY NextKeepsInv
<1>. QED  BY InitInv, <1>1, PTL DEF Spec

-----------------------------------------------------------------------------
\* The properties of Batch.

\* Every variable holds what the code can put in it (batch.go:71-79, 95-99).
THEOREM TypeCorrect == Spec => []TypeOK
<1>1. Inv => TypeOK
  BY DEF Inv
<1>. QED  BY Invariance, <1>1, PTL

\* The provider sees the requests in the order run received them, each once.
THEOREM OrderPreserved == Spec => []InOrderOnce
<1>1. Inv => InOrderOnce
  BY DEF Inv
<1>. QED  BY Invariance, <1>1, PTL

\* No caller waits for a result that nobody is going to send.
THEOREM NobodyOrphaned == Spec => []NoOrphan
<1>1. Inv => NoOrphan
  BY DEF Inv
<1>. QED  BY Invariance, <1>1, PTL

\* A non-empty queue is watched by the timer its first item started.
THEOREM QueueIsWatched == Spec => []TimerGuardsBatch
<1>1. Inv => TimerGuardsBatch
  BY DEF Inv
<1>. QED  BY Invariance, <1>1, PTL

\* A flush hands downstream at most maxSize requests.
THEOREM FlushesBounded == Spec => []BatchBound
<1>1. Inv => BatchBound
  BY DEF Inv
<1>. QED  BY Invariance, <1>1, PTL

\* Only a full batch, or a tick of the timer of its own first item, starts a flush.
THEOREM FlushesJustified == Spec => NoEarlyFlush
<1>. DEFINE Justified == run = "select" /\ run' # "select" =>
                            \/ accepted' # accepted /\ Len(pending) + 1 >= MaxSize
                            \/ pending # <<>> /\ Head(pending) \in ticks
<1>1. ASSUME Inv, [Next]_vars, run = "select", run' # "select"
      PROVE  \/ accepted' # accepted /\ Len(pending) + 1 >= MaxSize
             \/ pending # <<>> /\ Head(pending) \in ticks
  <2>1. (\E c \in Calls : Enqueue(c)) \/ Tick
    BY <1>1 DEF Next, Caller, Call, Complete, BypassCall, BypassReturn, Receive, Goroutine,
       DownstreamReturns, CallbackCalls, CallbackReturns, Deliver, TimerExpires, Quiescent,
       vars, flushVars
  <2>2. CASE \E c \in Calls : Enqueue(c)
    <3>1. PICK c \in Calls : Enqueue(c)
      BY <2>2
    <3>2. FlushesOnSize(Append(pending, c))
      BY <1>1, <3>1 DEF Enqueue, flushVars
    <3>3. Len(Append(pending, c)) = Len(pending) + 1
      BY <1>1, AppendProperties DEF Inv, TypeOK
    <3>4. accepted' # accepted
      <4>1. accepted \in Seq(Calls) /\ accepted' = Append(accepted, c)
        BY <1>1, <3>1 DEF Inv, TypeOK, Enqueue
      <4>2. Len(Append(accepted, c)) = Len(accepted) + 1 /\ Len(accepted) \in Nat
        BY <4>1, AppendProperties
      <4>. QED  BY <4>1, <4>2
    <3>5. Len(pending) + 1 >= MaxSize
      BY <3>2, <3>3 DEF FlushesOnSize
    <3>. QED  BY <3>4, <3>5
  <2>3. CASE Tick
    BY <1>1, <2>3 DEF Inv, Tick, TickReady, TimerGuardsBatch
  <2>. QED  BY <2>1, <2>2, <2>3
<1>2. Inv /\ [Next]_vars => [Justified]_vars
  BY <1>1
<1>. QED  BY Invariance, <1>2, PTL DEF Spec, NoEarlyFlush

\* The call that the callback is in is one of its own.
LEMMA NestedIsCall ==
    ASSUME Inv, nested # Nil
    PROVE  nested \in Nested /\ nested \in Calls
<1>1. nested \in Nested \cup {Nil}
  BY Zenon DEF Inv, TypeOK
<1>. QED  BY ONLY <1>1, nested # Nil, BatchAssumption

\* The call that the callback is in has begun, and one that does not bypass the queue
\* is blocked on its send: run, which would receive it, is in the callback.
NestedInv ==
    nested # Nil => /\ pc[nested] # "idle"
                    /\ ~ShouldBypass(nested) => pc[nested] = "sending"

LEMMA NextKeepsNestedInv ==
    ASSUME Inv, NestedInv, [Next]_vars
    PROVE  NestedInv'
<1>. USE DEF NestedInv
<1>0. ASSUME nested' = nested,
             \A c \in Calls : /\ pc[c] = "sending" => pc'[c] = pc[c]
                              /\ pc[c] # "idle" => pc'[c] # "idle"
      PROVE  NestedInv'
  BY <1>0, NestedIsCall DEF ShouldBypass
<1>1. ASSUME NEW c \in Calls, Caller(c)
      PROVE  NestedInv'
  <2>1. nested' = nested
    BY <1>1 DEF Caller, Call, BypassCall, BypassReturn, Receive, flushVars
  <2>2. \A d \in Calls : /\ pc[d] = "sending" => pc'[d] = pc[d]
                         /\ pc[d] # "idle" => pc'[d] # "idle"
    BY <1>1 DEF Caller, Call, Complete, BypassCall, BypassReturn, Receive, Inv, TypeOK
  <2>. QED  BY <1>0, <2>1, <2>2
<1>2. ASSUME NEW c \in Calls, CallbackCalls(c)
      PROVE  NestedInv'
  <2>1. nested' = c /\ pc' = [pc EXCEPT ![c] = IF ShouldBypass(c) THEN "bypass" ELSE "sending"]
    BY <1>2 DEF CallbackCalls, Complete
  <2>2. pc'[c] = IF ShouldBypass(c) THEN "bypass" ELSE "sending"
    BY <2>1 DEF Inv, TypeOK
  <2>. QED  BY <2>1, <2>2 DEF ShouldBypass
<1>3. ASSUME run = "select" /\ nested' = nested
      PROVE  NestedInv'
  BY <1>3 DEF Inv, ControlInv
<1>4. ASSUME NEW c \in Calls, Enqueue(c)
      PROVE  NestedInv'
  BY <1>3, <1>4 DEF Enqueue, Flush, Serve, flushVars
<1>5. CASE Tick
  BY <1>3, <1>5 DEF Tick, Flush, Serve, flushVars
<1>6. CASE CallbackReturns
  BY <1>6 DEF CallbackReturns
<1>7. CASE Deliver
  BY <1>0, <1>7 DEF Deliver, Serve
<1>8. ASSUME NEW o \in Outcomes, DownstreamReturns(o)
      PROVE  NestedInv'
  BY <1>0, <1>8 DEF DownstreamReturns, callVars
<1>9. ASSUME NEW t \in Calls, TimerExpires(t)
      PROVE  NestedInv'
  BY <1>0, <1>9 DEF TimerExpires, callVars, flushVars
<1>10. CASE Quiescent \/ UNCHANGED vars
  BY <1>0, <1>10 DEF Quiescent, vars, callVars, flushVars
<1>. QED  BY <1>1, <1>2, <1>4, <1>5, <1>6, <1>7, <1>8, <1>9, <1>10 DEF Next, Goroutine

LEMMA NestedInvariance == Spec => [](Inv /\ NestedInv)
<1>1. Init => NestedInv
  BY DEF Init, NestedInv
<1>2. Inv /\ NestedInv /\ [Next]_vars => NestedInv'
  BY NextKeepsNestedInv
<1>. QED  BY Invariance, <1>1, <1>2, PTL DEF Spec

\* Callers, run and its timers never come to wait for one another, whatever they
\* interleave, as long as the callback's own calls bypass the queue.
THEOREM NobodyStuck == Spec => []NeverStuck
<1>1. ASSUME Inv, NestedInv, \A c \in Nested : ShouldBypass(c),
             NEW c \in Calls, pc[c] \notin {"idle", "returned"}
      PROVE  SomethingIsDue
  <2>. USE <1>1 DEF Inv
  <2>1. pc[c] \in {"bypass", "direct", "sending", "waiting"}
    BY DEF TypeOK
  <2>2. CASE pc[c] \in {"bypass", "direct"}
    BY <2>2 DEF SomethingIsDue
  <2>3. CASE run \in {"downstream", "deliver"}
    BY <2>3 DEF SomethingIsDue
  <2>4. CASE run = "callback"
    <3>1. CASE nested = Nil
      BY <2>4, <3>1 DEF SomethingIsDue
    <3>2. CASE nested # Nil
      <4>1. nested \in Nested /\ nested \in Calls /\ ShouldBypass(nested)
        BY <3>2, NestedIsCall
      <4>2. pc[nested] \in {"idle", "bypass", "direct", "sending", "waiting", "returned"}
        BY <4>1 DEF TypeOK
      <4>3. pc[nested] \notin {"sending", "waiting"}
        BY <4>1 DEF CallerInv
      <4>4. pc[nested] # "idle"
        BY <3>2 DEF NestedInv
      <4>. QED  BY <2>4, <4>1, <4>2, <4>3, <4>4 DEF SomethingIsDue
    <3>. QED  BY <3>1, <3>2
  <2>5. CASE run = "select" /\ pc[c] = "sending"
    BY <2>5 DEF SomethingIsDue
  <2>6. CASE run = "select" /\ pc[c] = "waiting"
    <3>1. CASE reply[c] # Nil
      BY <2>6, <3>1 DEF SomethingIsDue, ResultArrived
    <3>2. CASE reply[c] = Nil
      <4>1. c \in Range(items) \cup Range(pending) \cup ({current} \ {Nil})
        BY <2>6, <3>2 DEF NoOrphan
      <4>2. items = <<>> /\ current = Nil
        BY <2>6 DEF ControlInv
      <4>3. pending # <<>>
        BY <4>1, <4>2 DEF Range
      <4>4. timerC # Nil /\ timerC \in ticking \cup ticks
        BY <4>3, BatchAssumption DEF TimerGuardsBatch, TypeOK
      <4>. QED  BY <2>6, <4>4 DEF SomethingIsDue
    <3>. QED  BY <3>1, <3>2
  <2>. QED  BY <2>1, <2>2, <2>3, <2>4, <2>5, <2>6 DEF TypeOK
<1>2. Inv /\ NestedInv => NeverStuck
  BY <1>1 DEF NeverStuck
<1>. QED  BY NestedInvariance, <1>2, PTL

\* A callback that queues a request blocks run for ever, and with it all whose
\* requests run has, or is to receive: for any maxSize, callers and timers.
THEOREM ReentryBlocks == Spec => ReentryIsForever
<1> DEFINE A == Reentered =>
                  /\ Reentered'
                  /\ UNCHANGED <<accepted, served>>
                  /\ \A c \in Calls :
                        pc[c] = "sending" \/ (pc[c] = "waiting" /\ reply[c] = Nil) =>
                            pc'[c] = pc[c] /\ reply'[c] = reply[c]
<1>1. ASSUME Inv, NestedInv, [Next]_vars, Reentered
      PROVE  /\ Reentered'
             /\ UNCHANGED <<accepted, served>>
             /\ \A c \in Calls :
                   pc[c] = "sending" \/ (pc[c] = "waiting" /\ reply[c] = Nil) =>
                       pc'[c] = pc[c] /\ reply'[c] = reply[c]
  <2>. USE <1>1
  <2>1. run = "callback" /\ nested # Nil /\ nested \in Calls /\ pc[nested] = "sending"
    BY NestedIsCall DEF NestedInv, Reentered
  <2>2. ASSUME NEW c \in Calls, Caller(c)
        PROVE  /\ UNCHANGED <<run, nested, accepted, served>>
               /\ \A d \in Calls :
                   pc[d] = "sending" \/ (pc[d] = "waiting" /\ reply[d] = Nil) =>
                       pc'[d] = pc[d] /\ reply'[d] = reply[d]
    BY <2>2 DEF Caller, Call, Complete, BypassCall, BypassReturn, Receive, ResultArrived,
                flushVars, Inv, TypeOK
  <2>3. ~Goroutine
    BY <2>1 DEF Goroutine, Enqueue, Tick, DownstreamReturns, CallbackCalls, CallbackReturns,
                Deliver
  <2>4. ASSUME NEW t \in Calls, TimerExpires(t)
        PROVE  UNCHANGED <<run, nested, accepted, served, pc, reply>>
    BY <2>4 DEF TimerExpires, callVars, flushVars
  <2>5. ~Quiescent
    BY <2>1 DEF Quiescent
  <2>6. CASE UNCHANGED vars
    BY <2>6 DEF vars, callVars, flushVars, Reentered, ShouldBypass
  <2>7. CASE \E c \in Calls : Caller(c)
    BY <2>2, <2>7 DEF Reentered, ShouldBypass
  <2>8. CASE \E t \in Calls : TimerExpires(t)
    BY <2>4, <2>8 DEF Reentered, ShouldBypass
  <2>. QED  BY <2>3, <2>5, <2>6, <2>7, <2>8 DEF Next
<1>2. (Inv /\ NestedInv) /\ [Next]_vars => [A]_vars
  BY <1>1
<1>. QED  BY NestedInvariance, <1>2, PTL DEF Spec, ReentryIsForever

-----------------------------------------------------------------------------
\* Batch implements Completion.

\* Entering Complete is an Invoke step.
LEMMA CallRefines ==
    ASSUME Inv, NEW c \in Calls, Complete(c), UNCHANGED <<current, outcome, served>>
    PROVE  Abs!Invoke(c)
<1>. USE DEF Inv, Complete
<1>1. AbsPhase[c] = "idle" /\ AbsPhase' = [AbsPhase EXCEPT ![c] = "open"]
  BY DEF TypeOK, AbsPhase
<1>2. AbsBilled' = AbsBilled
  BY DEF TypeOK, AbsBilled
<1>3. AbsOutcome' = AbsOutcome
  BY DEF AbsOutcome
<1>. QED  BY <1>1, <1>2, <1>3 DEF Abs!Invoke

\* Whatever was handed downstream had been received from enqueue.
LEMMA ServedAccepted ==
    ASSUME Inv
    PROVE  Range(served) \subseteq Range(accepted)
<1>1. served \in Seq(Calls) /\ items \in Seq(Calls) /\ pending \in Seq(Calls)
  BY DEF Inv, TypeOK
<1>2. Range((served \o items) \o pending) = (Range(served) \cup Range(items)) \cup Range(pending)
  <2>1. served \o items \in Seq(Calls)
    BY <1>1, ConcatProperties
  <2>2. Range(served \o items) = Range(served) \cup Range(items)
    BY <1>1, RangeConcatenation
  <2>3. ASSUME NEW s \in Seq(Calls)
        PROVE  Range(s \o pending) = Range(s) \cup Range(pending)
    BY ONLY <1>1, RangeConcatenation
  <2>4. Range((served \o items) \o pending) = Range(served \o items) \cup Range(pending)
    BY ONLY <2>1, <2>3
  <2>. QED  BY <2>2, <2>4
<1>. QED  BY <1>2 DEF Inv, InOrderOnce

\* A bypassed call is billed when it reaches downstream.
LEMMA BypassCallRefines ==
    ASSUME Inv, NEW c \in Calls, BypassCall(c)
    PROVE  Abs!Bill(c)
<1>. USE DEF Inv, BypassCall, flushVars
<1>1. AbsPhase[c] = "open" /\ AbsPhase' = AbsPhase
  BY DEF TypeOK, AbsPhase
<1>2. c \notin AbsBilled /\ AbsBilled' = AbsBilled \cup {c}
  <2>1. ShouldBypass(c) /\ c \notin Range(accepted)
    BY DEF CallerInv
  <2>2. Range(served) \subseteq Range(accepted)
    BY ServedAccepted
  <2>3. AbsBilled' = Range(served) \cup
                     {d \in Calls : ShouldBypass(d) /\ pc'[d] \in {"direct", "returned"}}
    BY DEF AbsBilled
  <2>. QED  BY <2>1, <2>2, <2>3 DEF TypeOK, AbsBilled
<1>3. AbsOutcome' = AbsOutcome
  BY DEF AbsOutcome
<1>. QED  BY <1>1, <1>2, <1>3 DEF Abs!Bill

\* A bypassed call is answered and returns at once.
LEMMA BypassReturnRefines ==
    ASSUME Inv, NEW c \in Calls, NEW o \in Outcomes, BypassReturn(c, o)
    PROVE  Abs!Respond(c, o)
<1>. USE DEF Inv, BypassReturn, flushVars
<1>0. ShouldBypass(c) /\ answer[c] = Nil /\ reply[c] = Nil /\ o # Nil
  BY BatchAssumption DEF CallerInv, TypeOK, Outcomes
<1>1. /\ AbsPhase[c] = "open"
      /\ AbsPhase' = [AbsPhase EXCEPT ![c] = "returned"]
  BY DEF TypeOK, AbsPhase
<1>2. c \in AbsBilled /\ AbsBilled' = AbsBilled
  BY <1>0 DEF TypeOK, AbsBilled
<1>3. c # current \/ outcome = Nil
  BY <1>0, BatchAssumption DEF NoOrphan, ControlInv
<1>4. AbsOutcome[c] = "none" /\ AbsOutcome' = [AbsOutcome EXCEPT ![c] = o]
  BY <1>0, <1>3 DEF TypeOK, AbsOutcome
<1>. QED  BY <1>1, <1>2, <1>4 DEF Abs!Respond

\* Receiving the result is a Return step.
LEMMA ReceiveRefines ==
    ASSUME Inv, NEW c \in Calls, Receive(c)
    PROVE  Abs!Return(c)
<1>. USE DEF Inv, Receive, ResultArrived, flushVars
<1>1. AbsPhase[c] = "open" /\ AbsPhase' = [AbsPhase EXCEPT ![c] = "returned"]
  BY DEF TypeOK, AbsPhase
<1>2. AbsBilled' = AbsBilled
  <2>1. ~ShouldBypass(c)
    BY DEF CallerInv
  <2>. QED  BY <2>1 DEF TypeOK, AbsBilled
<1>3. AbsOutcome[c] # "none" /\ AbsOutcome' = AbsOutcome
  BY DEF TypeOK, AbsOutcome, Outcomes
<1>. QED  BY <1>1, <1>2, <1>3 DEF Abs!Return

\* Downstream answers the current item, which was billed and not answered.
LEMMA DownstreamReturnsRefines ==
    ASSUME Inv, NEW o \in Outcomes, DownstreamReturns(o)
    PROVE  Abs!Respond(current, o)
<1>. USE DEF Inv, DownstreamReturns, callVars, timerVars
<1>0. current \in Calls /\ current \in Range(served) /\ outcome = Nil /\ o # Nil
  BY BatchAssumption DEF TypeOK, ControlInv, Outcomes
<1>1. pc[current] = "waiting" /\ reply[current] = Nil /\ answer[current] = Nil
  BY <1>0, BatchAssumption DEF NoOrphan, TypeOK
<1>2. AbsPhase[current] = "open" /\ AbsPhase' = AbsPhase
  BY <1>0, <1>1 DEF AbsPhase
<1>3. current \in AbsBilled /\ AbsBilled' = AbsBilled
  BY <1>0 DEF AbsBilled
<1>4. AbsOutcome[current] = "none" /\ AbsOutcome' = [AbsOutcome EXCEPT ![current] = o]
  BY <1>0, <1>1 DEF AbsOutcome
<1>. QED  BY <1>0, <1>2, <1>3, <1>4 DEF Abs!Respond

\* A request is handed downstream once only.
LEMMA ServedOnce ==
    ASSUME Inv, Inv', NEW c \in Calls, served' = Append(served, c)
    PROVE  c \notin Range(served)
<1>. DEFINE s == served'  r == items'  p == pending'
<1>1. s \in Seq(Calls) /\ r \in Seq(Calls) /\ p \in Seq(Calls)
  BY DEF Inv, TypeOK
<1>2. r \o p \in Seq(Calls) /\ (s \o r) \o p = s \o (r \o p)
  BY <1>1, ConcatProperties, ConcatAssociative
<1>3. IsInjective(s \o (r \o p))
  BY <1>2 DEF Inv, InOrderOnce
<1>. HIDE DEF s, r, p
<1>4. IsInjective(s)
  BY <1>1, <1>2, <1>3, InjectivePrefix
<1>5. /\ Len(served) \in Nat /\ DOMAIN served = 1 .. Len(served)
      /\ DOMAIN s = 1 .. Len(served) + 1
      /\ \A i \in 1 .. Len(served) : s[i] = served[i]
      /\ s[Len(served) + 1] = c
  BY <1>1, LenProperties, AppendProperties DEF s, Inv, TypeOK
<1>6. ASSUME NEW i \in 1 .. Len(served), served[i] = c PROVE FALSE
  <2>1. i \in DOMAIN s /\ Len(served) + 1 \in DOMAIN s /\ i # Len(served) + 1
    BY <1>5
  <2>. QED  BY <1>4, <1>5, <1>6, <2>1 DEF IsInjective
<1>. QED  BY <1>5, <1>6 DEF Range

\* Handing a request downstream is a Bill step.
LEMMA ServeRefines ==
    ASSUME Inv, Inv', NEW c \in Calls, served' = Append(served, c), current' = c,
           AbsOutcome' = AbsOutcome,
           \/ pc' = pc
           \/ \E d \in Calls : pc[d] = "sending" /\ pc' = [pc EXCEPT ![d] = "waiting"]
    PROVE  Abs!Bill(c)
<1>1. pc'[c] = "waiting" /\ ~ShouldBypass(c)
  BY BatchAssumption DEF Inv, NoOrphan, CallerInv
<1>2. AbsPhase' = AbsPhase /\ AbsPhase[c] = "open"
  BY <1>1 DEF Inv, TypeOK, AbsPhase
<1>3. Range(served') = Range(served) \cup {c}
  BY RangeOfAppend DEF Inv, TypeOK
<1>4. {d \in Calls : ShouldBypass(d) /\ pc'[d] \in {"direct", "returned"}}
        = {d \in Calls : ShouldBypass(d) /\ pc[d] \in {"direct", "returned"}}
  BY DEF Inv, TypeOK
<1>5. c \notin Range(served)
  BY ServedOnce
<1>6. c \notin AbsBilled /\ AbsBilled' = AbsBilled \cup {c}
  BY <1>1, <1>3, <1>4, <1>5 DEF AbsBilled
<1>. QED  BY <1>2, <1>6 DEF Abs!Bill

\* Receiving an item bills the head of the batch if it starts a flush and is
\* invisible otherwise.
LEMMA EnqueueRefines ==
    ASSUME Inv, Inv', NEW c \in Calls, Enqueue(c)
    PROVE  (\E d \in Calls : Abs!Bill(d)) \/ UNCHANGED Abs!vars
<1>. DEFINE q == Append(pending, c)
<1>1. /\ run = "select" /\ pc[c] = "sending" /\ pc' = [pc EXCEPT ![c] = "waiting"]
      /\ UNCHANGED <<reply, answer>> /\ outcome = Nil
  BY DEF Enqueue, Inv, ControlInv
<1>2. CASE FlushesOnSize(q)
  <2>1. /\ current' = Head(q) /\ served' = Append(served, Head(q)) /\ outcome' = Nil
    BY <1>1, <1>2 DEF Enqueue, Flush, Serve
  <2>2. Head(q) \in Calls
    BY AppendProperties, HeadTailProperties DEF Inv, TypeOK
  <2>3. AbsOutcome' = AbsOutcome
    BY <1>1, <2>1 DEF AbsOutcome
  <2>. QED  BY <1>1, <2>1, <2>2, <2>3, ServeRefines
<1>3. CASE ~FlushesOnSize(q)
  <2>1. UNCHANGED <<current, served, outcome>>
    BY <1>3 DEF Enqueue, flushVars
  <2>2. AbsPhase' = AbsPhase /\ AbsBilled' = AbsBilled
    BY <1>1, <2>1 DEF Inv, TypeOK, AbsPhase, AbsBilled
  <2>3. AbsOutcome' = AbsOutcome
    BY <1>1, <2>1 DEF AbsOutcome
  <2>. QED  BY <2>2, <2>3 DEF Abs!vars
<1>. QED  BY <1>2, <1>3

\* A tick bills the head of the batch.
LEMMA TickRefines ==
    ASSUME Inv, Inv', Tick
    PROVE  \E d \in Calls : Abs!Bill(d)
<1>1. pending # <<>> /\ pending \in Seq(Calls) /\ outcome = Nil /\ UNCHANGED callVars
  BY DEF Inv, TypeOK, Tick, TimerGuardsBatch, ControlInv
<1>2. Flush(pending, timer, ticking)
  BY <1>1, EmptySeq DEF Tick
<1>3. current' = Head(pending) /\ served' = Append(served, Head(pending)) /\ outcome' = Nil
  BY <1>1, <1>2 DEF Flush, Serve
<1>4. Head(pending) \in Calls
  BY <1>1, HeadTailProperties
<1>5. AbsOutcome' = AbsOutcome
  BY <1>1, <1>3 DEF AbsOutcome, callVars
<1>. QED  BY <1>1, <1>3, <1>4, <1>5, ServeRefines DEF callVars

\* Sending a result moves it within the mapping; the next item, if there is
\* one, is billed.
LEMMA DeliverRefines ==
    ASSUME Inv, Inv', Deliver
    PROVE  (\E d \in Calls : Abs!Bill(d)) \/ UNCHANGED Abs!vars
<1>1. /\ current \in Calls /\ outcome # Nil /\ outcome' = Nil
      /\ UNCHANGED <<pc, answer>> /\ reply' = [reply EXCEPT ![current] = outcome]
  BY DEF Deliver, SendResult, Inv, TypeOK, ControlInv
<1>2. pc[current] = "waiting" /\ reply[current] = Nil /\ answer[current] = Nil
  BY <1>1, BatchAssumption DEF Inv, NoOrphan, TypeOK
<1>3. AbsOutcome' = AbsOutcome
  <2>1. ASSUME NEW c \in Calls PROVE AbsOutcome'[c] = AbsOutcome[c]
    <3>1. CASE c = current
      BY <1>1, <1>2, <3>1 DEF AbsOutcome, Inv, TypeOK
    <3>2. CASE c # current
      BY <1>1, <1>2, <3>2 DEF AbsOutcome, Inv, TypeOK
    <3>. QED  BY <3>1, <3>2
  <2>. QED  BY <2>1 DEF AbsOutcome
<1>4. CASE items = <<>>
  <2>1. served' = served
    BY <1>4 DEF Deliver
  <2>. QED  BY <1>1, <1>3, <2>1 DEF Abs!vars, AbsPhase, AbsBilled
<1>5. CASE items # <<>>
  <2>1. current' = Head(items) /\ served' = Append(served, Head(items))
    BY <1>5 DEF Deliver, Serve
  <2>2. Head(items) \in Calls
    BY <1>5, HeadTailProperties DEF Inv, TypeOK
  <2>. QED  BY <1>1, <1>3, <2>1, <2>2, ServeRefines
<1>. QED  BY <1>4, <1>5

\* The goroutine's bookkeeping is invisible to the abstract Complete.
LEMMA StutterRefines ==
    ASSUME UNCHANGED <<pc, reply, answer, current, outcome, served>>
    PROVE  UNCHANGED Abs!vars
BY DEF Abs!vars, AbsPhase, AbsBilled, AbsOutcome

\* A provider wrapped by the batch middleware keeps the promises of Complete:
\* a call is handed downstream at most once and is answered with what
\* downstream answered to it.
THEOREM Refinement == Spec => ImplementsCompletion
<1>1. Init => Abs!Init
  <2>. SUFFICES ASSUME Init PROVE Abs!Init
    OBVIOUS
  <2>1. AbsPhase = [c \in Calls |-> "idle"]
    BY DEF Init, AbsPhase
  <2>2. AbsBilled = {}
    BY DEF Init, AbsBilled, Range
  <2>3. AbsOutcome = [c \in Calls |-> "none"]
    BY DEF Init, AbsOutcome
  <2>. QED  BY <2>1, <2>2, <2>3 DEF Abs!Init
<1>2. Inv /\ Inv' /\ [Next]_vars => [Abs!Next]_Abs!vars
  <2>. SUFFICES ASSUME Inv, Inv', [Next]_vars PROVE Abs!Next \/ UNCHANGED Abs!vars
    OBVIOUS
  <2>1. ASSUME NEW c \in Calls, Caller(c) PROVE Abs!Next
    <3>1. ASSUME Call(c) PROVE Abs!Invoke(c)
      BY <3>1, CallRefines DEF Call, flushVars
    <3>2. ASSUME BypassCall(c) PROVE Abs!Bill(c)
      BY <3>2, BypassCallRefines
    <3>3. ASSUME NEW o \in Outcomes, BypassReturn(c, o) PROVE Abs!Respond(c, o)
      BY <3>3, BypassReturnRefines
    <3>4. ASSUME Receive(c) PROVE Abs!Return(c)
      BY <3>4, ReceiveRefines
    <3>. QED  BY <2>1, <3>1, <3>2, <3>3, <3>4 DEF Caller, Abs!Next, Outcomes
  <2>2. ASSUME Goroutine PROVE Abs!Next \/ UNCHANGED Abs!vars
    <3>1. ASSUME NEW c \in Calls, Enqueue(c) PROVE Abs!Next \/ UNCHANGED Abs!vars
      BY <3>1, EnqueueRefines DEF Abs!Next
    <3>2. ASSUME Tick PROVE Abs!Next
      BY <3>2, TickRefines DEF Abs!Next
    <3>3. ASSUME NEW o \in Outcomes, DownstreamReturns(o) PROVE Abs!Next
      <4>1. current \in Calls
        BY <3>3 DEF Inv, TypeOK, ControlInv, DownstreamReturns
      <4>. QED  BY <3>3, <4>1, DownstreamReturnsRefines DEF Abs!Next, Outcomes
    <3>4. ASSUME NEW c \in Calls, CallbackCalls(c) PROVE Abs!Next
      BY <3>4, CallRefines DEF CallbackCalls, Abs!Next
    <3>5. ASSUME CallbackReturns PROVE UNCHANGED Abs!vars
      BY <3>5, StutterRefines DEF CallbackReturns, callVars
    <3>6. ASSUME Deliver PROVE Abs!Next \/ UNCHANGED Abs!vars
      BY <3>6, DeliverRefines DEF Abs!Next
    <3>. QED  BY <2>2, <3>1, <3>2, <3>3, <3>4, <3>5, <3>6 DEF Goroutine
  <2>3. ASSUME NEW t \in Calls, TimerExpires(t) PROVE UNCHANGED Abs!vars
    BY <2>3, StutterRefines DEF TimerExpires, callVars, flushVars
  <2>4. ASSUME Quiescent \/ UNCHANGED vars PROVE UNCHANGED Abs!vars
    BY <2>4, StutterRefines DEF Quiescent, vars, callVars, flushVars
  <2>. QED  BY <2>1, <2>2, <2>3, <2>4 DEF Next
<1>. QED  BY Invariance, <1>1, <1>2, PTL DEF Spec, ImplementsCompletion, Abs!Spec

-----------------------------------------------------------------------------
(***************************************************************************)
(* What the abstract Complete promises is thereby true of the batch middleware.*)
(***************************************************************************)

Promise == INSTANCE CompletionProofs WITH
    MayReuse <- FALSE, phase <- AbsPhase, billed <- AbsBilled, outcome <- AbsOutcome

LEMMA PromiseIsAbs ==
    /\ Abs!Init <=> Promise!Init
    /\ [Abs!Next]_(Abs!vars) <=> [Promise!Next]_(Promise!vars)
    /\ Abs!Honest <=> Promise!Honest
    /\ [Abs!Settling]_(Abs!vars) <=> [Promise!Settling]_(Promise!vars)
<1>1. Abs!Init <=> Promise!Init
  BY DEF Abs!Init, Promise!Init
<1>2. [Abs!Next]_(Abs!vars) <=> [Promise!Next]_(Promise!vars)
  BY DEF Abs!Next, Promise!Next, Abs!vars, Promise!vars, Abs!Invoke, Promise!Invoke,
         Abs!Bill, Promise!Bill, Abs!Respond, Promise!Respond, Abs!Exchange,
         Promise!Exchange, Abs!Return, Promise!Return, Abs!Reuse, Promise!Reuse
<1>3. Abs!Honest <=> Promise!Honest
  BY DEF Abs!Honest, Promise!Honest
<1>4. [Abs!Settling]_(Abs!vars) <=> [Promise!Settling]_(Promise!vars)
  BY DEF Abs!Settling, Promise!Settling, Abs!vars, Promise!vars
<1>. QED  BY <1>1, <1>2, <1>3, <1>4

\* No caller has an answer, or leaves, that downstream was not asked for
\* (batch.go:91-122, 153-161).
THEOREM AnswersArePaidFor == Spec => []Abs!Honest
<1>1. Promise!Spec => []Promise!Honest
  BY Promise!AnswersArePaidFor
<1>. QED
  BY Refinement, <1>1, PromiseIsAbs, PTL DEF ImplementsCompletion, Abs!Spec, Promise!Spec

\* The answer of a caller is never replaced, and a request that downstream has not
\* seen is not handed to it once its caller has an answer (batch.go:107-122).
THEOREM AnswersAreFinal == Spec => Abs!Settled
<1>1. Promise!Spec => Promise!Settled
  BY Promise!AnswersAreFinal
<1>. QED
  BY Refinement, <1>1, PromiseIsAbs, PTL
     DEF ImplementsCompletion, Abs!Spec, Promise!Spec, Abs!Settled, Promise!Settled
=============================================================================
