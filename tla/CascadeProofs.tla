---------------------------- MODULE CascadeProofs ----------------------------
(***************************************************************************)
(* Proofs about Cascade, for any number of models, any thresholds, any     *)
(* WithMaxEscalations and any scorer.                                      *)
(***************************************************************************)
EXTENDS Cascade, SequenceTheorems, TLAPS

\* Where the loop is, in terms of the calls it has made.
LoopInv ==
    /\ pc = "start" => calls = <<>> /\ escalations = 0 /\ i = 1
    /\ pc \in {"call", "judge", "forced"} => escalations = i - 1
    /\ pc # "done" => outcome = "none"
    /\ pc \in {"call", "judge"} => ~Spent(escalations)
    /\ pc = "forced" => Spent(escalations) /\ i = Cap
    /\ pc \in {"call", "forced"} =>
          /\ Len(calls) = i - 1
          /\ \A n \in 1 .. Len(calls) : Insufficient(calls[n])
    /\ pc = "judge" =>
          /\ i < Len(cfg.thresholds)
          /\ Threshold(i) # 0
          /\ Len(calls) = i
          /\ calls[i].score = Unscored
          /\ \A n \in 1 .. Len(calls) - 1 : Insufficient(calls[n])

Inv == TypeOK /\ WithinBudget /\ CheapestSufficient /\ LoopInv

\* The configuration's types.
LEMMA ConfigFacts ==
    ASSUME TypeOK
    PROVE  /\ cfg.maxEscalations \in Int
           /\ Len(cfg.thresholds) \in Nat
           /\ \A m \in Models : Threshold(m) \in Int
           /\ cfg.thresholds = <<>> <=> Len(cfg.thresholds) = 0
<1>1. cfg.thresholds \in Seq(Int) /\ cfg.maxEscalations \in Int
  BY CascadeAssumption DEF TypeOK
<1>2. \A m \in Models : Threshold(m) \in Int
  BY <1>1, ElementOfSeq DEF Models, Threshold
<1>. QED  BY <1>1, <1>2, EmptySeq

\* The log of calls is a sequence.
LEMMA LogFacts ==
    ASSUME TypeOK
    PROVE  /\ calls \in Seq(Attempts)
           /\ Len(calls) \in Nat
           /\ calls = <<>> <=> Len(calls) = 0
           /\ \A n \in 1 .. Len(calls) : calls[n] \in Attempts
<1>1. calls \in Seq(Attempts)
  BY DEF TypeOK
<1>. QED  BY <1>1, EmptySeq, ElementOfSeq

\* The record of a call to model m is one more element of the log.
LEMMA LogGrows ==
    ASSUME TypeOK, NEW s \in {Failed, Unscored}, i \in Models,
           calls' = Append(calls, [model |-> i, score |-> s])
    PROVE  /\ calls' \in Seq(Attempts)
           /\ Len(calls') = Len(calls) + 1
           /\ \A n \in 1 .. Len(calls) : calls'[n] = calls[n]
           /\ calls'[Len(calls) + 1] = [model |-> i, score |-> s]
           /\ calls' # <<>>
<1>1. [model |-> i, score |-> s] \in Attempts
  BY DEF Attempts
<1>2. /\ calls' \in Seq(Attempts)
      /\ Len(calls') = Len(calls) + 1
      /\ \A n \in 1 .. Len(calls) : calls'[n] = calls[n]
      /\ calls'[Len(calls) + 1] = [model |-> i, score |-> s]
  BY <1>1, LogFacts, AppendProperties
<1>. QED  BY <1>2, LogFacts, EmptySeq

\* A call of the model at i is within the budget.
LEMMA CallsWithinCap ==
    ASSUME Inv, pc \in {"call", "forced"}
    PROVE  i <= Cap /\ (i = Len(cfg.thresholds) => i = Cap)
<1>1. /\ i \in Nat \ {0} /\ i \in Models /\ escalations = i - 1
      /\ pc = "call" => ~Spent(escalations)
      /\ pc = "forced" => i = Cap
  BY DEF Inv, TypeOK, LoopInv
<1>2. cfg.maxEscalations \in Int /\ Len(cfg.thresholds) \in Nat
  BY ConfigFacts DEF Inv
<1>. QED  BY <1>1, <1>2 DEF Models, Spent, Cap

\* What is common to the calls of the loop and the forced one, whatever comes
\* of them: the log grows by model i, and those before it were insufficient.
LEMMA CallFacts ==
    ASSUME Inv, pc \in {"call", "forced"}, UNCHANGED cfg, NEW s \in {Failed, Unscored},
           calls' = Append(calls, [model |-> i, score |-> s])
    PROVE  /\ i \in Models /\ Models' = Models /\ Cap' = Cap /\ Attempts' = Attempts
           /\ cfg.thresholds # <<>>
           /\ calls' \in Seq(Attempts) /\ calls' # <<>> /\ Len(calls') = i
           /\ \A n \in 1 .. i - 1 : Insufficient(calls[n])'
           /\ calls'[Len(calls')] = [model |-> i, score |-> s]
           /\ WithinBudget'
<1>1. i \in Models /\ Models' = Models /\ Cap' = Cap /\ Attempts' = Attempts
  BY DEF Inv, TypeOK, Models, Cap, Attempts
<1>2. /\ calls' \in Seq(Attempts)
      /\ Len(calls') = Len(calls) + 1
      /\ \A n \in 1 .. Len(calls) : calls'[n] = calls[n]
      /\ calls'[Len(calls) + 1] = [model |-> i, score |-> s]
      /\ calls' # <<>>
  BY <1>1, LogGrows DEF Inv
<1>3. Len(calls) = i - 1 /\ i \in Nat \ {0}
      /\ \A n \in 1 .. Len(calls) : Insufficient(calls[n])
  BY DEF Inv, TypeOK, LoopInv
<1>4. Len(calls') = i
  BY <1>2, <1>3
<1>5. \A n \in 1 .. i - 1 : Insufficient(calls[n])'
  BY <1>2, <1>3 DEF Insufficient, Threshold
<1>6. WithinBudget'
  <2>1. \A n \in 1 .. Len(calls) : calls[n].model = n
    BY DEF Inv, WithinBudget
  <2>2. i <= Cap'
    BY <1>1, CallsWithinCap
  <2>3. \A n \in 1 .. i : calls'[n].model = n
    BY <1>2, <1>3, <2>1
  <2>. QED  BY <1>4, <2>2, <2>3 DEF WithinBudget
<1>7. cfg.thresholds # <<>>
  BY <1>1, <1>3, ConfigFacts DEF Inv, Models
<1>. QED  BY <1>1, <1>2, <1>3, <1>4, <1>5, <1>6, <1>7

\* The error of a provider, in the loop or of the forced call, ends the call.
LEMMA ProviderFailsKeepsInv ==
    ASSUME Inv, ProviderFails
    PROVE  Inv'
<1>1. /\ pc \in {"call", "forced"} /\ UNCHANGED <<cfg, i, escalations, content>> /\ pc' = "done"
      /\ outcome' = "error" /\ winner' = 0 /\ saved' = 0
      /\ calls' = Append(calls, [model |-> i, score |-> Failed])
  BY DEF ProviderFails, Return
<1>2. /\ i \in Models /\ Models' = Models /\ Cap' = Cap /\ Attempts' = Attempts
      /\ cfg.thresholds # <<>>
      /\ calls' \in Seq(Attempts) /\ calls' # <<>> /\ Len(calls') = i
      /\ \A n \in 1 .. i - 1 : Insufficient(calls[n])'
      /\ calls'[Len(calls')] = [model |-> i, score |-> Failed]
      /\ WithinBudget'
  BY <1>1, CallFacts
<1>3. TypeOK'
  BY <1>1, <1>2 DEF Inv, TypeOK
<1>4. CheapestSufficient'
  BY <1>1, <1>2 DEF CheapestSufficient
<1>5. LoopInv'
  BY <1>1 DEF LoopInv
<1>. QED  BY <1>2, <1>3, <1>4, <1>5 DEF Inv

\* A response is returned at once, or goes to the scorer.
LEMMA AnswerKeepsInv ==
    ASSUME Inv, NEW r \in Contents, ProviderAnswers(r) \/ ForcedAnswers(r)
    PROVE  Inv'
<1>1. /\ pc \in {"call", "forced"} /\ UNCHANGED <<cfg, i, escalations>>
      /\ content' \in Contents
      /\ calls' = Append(calls, [model |-> i, score |-> Unscored])
  BY DEF ProviderAnswers, ForcedAnswers
<1>2. /\ i \in Models /\ Models' = Models /\ Cap' = Cap /\ Attempts' = Attempts
      /\ cfg.thresholds # <<>>
      /\ calls' \in Seq(Attempts) /\ calls' # <<>> /\ Len(calls') = i
      /\ \A n \in 1 .. i - 1 : Insufficient(calls[n])'
      /\ calls'[Len(calls')] = [model |-> i, score |-> Unscored]
      /\ WithinBudget'
  BY <1>1, CallFacts
<1>3. Threshold(i)' = Threshold(i)
  BY <1>1 DEF Threshold
<1>4. CASE pc = "call" /\ ~IsLast(i) /\ Threshold(i) # 0
  <2>1. pc' = "judge" /\ UNCHANGED <<outcome, winner, saved>>
    BY <1>4 DEF ProviderAnswers, ForcedAnswers, Continue
  <2>2. TypeOK'
    BY <1>1, <1>2, <2>1 DEF Inv, TypeOK
  <2>3. i < Len(cfg.thresholds)
    BY <1>2, <1>4, ConfigFacts DEF Inv, IsLast, Models
  <2>4. escalations = i - 1 /\ ~Spent(escalations) /\ outcome = "none"
    BY <1>4 DEF Inv, LoopInv
  <2>5. Spent(escalations)' = Spent(escalations)
    BY <1>1 DEF Spent
  <2>6. calls'[i].score = Unscored
    BY <1>2
  <2>7. LoopInv'
    BY <1>1, <1>2, <1>3, <1>4, <2>1, <2>3, <2>4, <2>5, <2>6 DEF LoopInv
  <2>8. CheapestSufficient'
    BY <2>1 DEF CheapestSufficient
  <2>. QED  BY <1>2, <2>2, <2>7, <2>8 DEF Inv
<1>5. CASE pc = "forced" \/ IsLast(i) \/ Threshold(i) = 0
  <2>1. pc' = "done" /\ outcome' = "response" /\ winner' = i /\ saved' \in {0, 1}
    BY <1>5 DEF ProviderAnswers, ForcedAnswers, Return
  <2>2. TypeOK'
    BY <1>1, <1>2, <2>1 DEF Inv, TypeOK
  <2>3. i = Cap \/ Threshold(i) = 0
    BY <1>1, <1>5, CallsWithinCap DEF Inv, LoopInv, IsLast
  <2>4. ~Insufficient(calls[Len(calls)])' /\ Unscored # Failed
    BY <1>2, CascadeAssumption DEF Insufficient
  <2>5. CheapestSufficient'
    BY <1>1, <1>2, <1>3, <2>1, <2>3, <2>4 DEF CheapestSufficient
  <2>6. LoopInv'
    BY <2>1 DEF LoopInv
  <2>. QED  BY <1>2, <2>2, <2>5, <2>6 DEF Inv
<1>. QED  BY <1>4, <1>5 DEF ProviderAnswers, ForcedAnswers

\* What holds when the response of model i is to be judged.
LEMMA JudgeFacts ==
    ASSUME Inv, pc = "judge"
    PROVE  /\ i \in Nat \ {0} /\ i \in Models /\ i < Len(cfg.thresholds)
           /\ cfg.thresholds # <<>> /\ cfg.maxEscalations \in Int
           /\ Len(cfg.thresholds) \in Nat
           /\ Threshold(i) # 0 /\ Threshold(i) \in Int
           /\ escalations = i - 1 /\ ~Spent(escalations) /\ outcome = "none"
           /\ calls \in Seq(Attempts) /\ Len(calls) = i
           /\ calls[i] = [model |-> i, score |-> Unscored]
           /\ \A n \in 1 .. i - 1 : Insufficient(calls[n])
<1>1. /\ i \in Nat \ {0} /\ i \in Models /\ i < Len(cfg.thresholds)
      /\ escalations = i - 1 /\ ~Spent(escalations) /\ outcome = "none"
      /\ Threshold(i) # 0
      /\ Len(calls) = i /\ calls[i].score = Unscored
      /\ \A n \in 1 .. i - 1 : Insufficient(calls[n])
  BY DEF Inv, TypeOK, LoopInv
<1>2. calls \in Seq(Attempts) /\ i \in 1 .. Len(calls)
  BY <1>1, LogFacts DEF Inv
<1>3. calls[i].model = i
  BY <1>2 DEF Inv, WithinBudget
<1>4. calls[i] \in Attempts
  BY <1>2, ElementOfSeq
<1>5. calls[i] = [model |-> i, score |-> Unscored]
  BY <1>1, <1>3, <1>4 DEF Attempts
<1>6. /\ cfg.maxEscalations \in Int /\ Len(cfg.thresholds) \in Nat /\ Threshold(i) \in Int
      /\ cfg.thresholds # <<>>
  BY <1>1, ConfigFacts DEF Inv
<1>. QED  BY <1>1, <1>2, <1>5, <1>6

\* The score decides between returning model i's response and escalating.
LEMMA JudgeKeepsInv ==
    ASSUME Inv, NEW s \in Scores, Judge(s)
    PROVE  Inv'
<1>1. pc = "judge" /\ cfg' = cfg
  BY DEF Judge
<1>2. /\ i \in Nat \ {0} /\ i \in Models /\ i < Len(cfg.thresholds)
      /\ cfg.thresholds # <<>> /\ cfg.maxEscalations \in Int
      /\ Len(cfg.thresholds) \in Nat
      /\ Threshold(i) # 0 /\ Threshold(i) \in Int
      /\ escalations = i - 1 /\ ~Spent(escalations) /\ outcome = "none"
      /\ calls \in Seq(Attempts) /\ Len(calls) = i
      /\ calls[i] = [model |-> i, score |-> Unscored]
      /\ \A n \in 1 .. i - 1 : Insufficient(calls[n])
  BY <1>1, JudgeFacts
<1>3. /\ s \in Int /\ s # Failed /\ s # Unscored
      /\ Models' = Models /\ Cap' = Cap /\ Attempts' = Attempts
  BY <1>1, CascadeAssumption DEF Models, Cap, Attempts
<1>4. /\ calls' \in Seq(Attempts)
      /\ Len(calls') = i
      /\ \A n \in 1 .. i - 1 : calls'[n] = calls[n]
      /\ calls'[i] = [model |-> i, score |-> s]
      /\ calls' # <<>>
  <2>. DEFINE c == [model |-> i, score |-> s]
  <2>1. calls' = [calls EXCEPT ![i] = c]
    <3>1. calls' = [calls EXCEPT ![i] = [calls[i] EXCEPT !.score = s]]
      BY <1>2 DEF Judge
    <3>2. [calls[i] EXCEPT !.score = s] = c
      BY <1>2
    <3>. QED  BY <3>1, <3>2
  <2>2. c \in Attempts
    BY <1>2 DEF Attempts
  <2>3. i \in 1 .. Len(calls)
    BY <1>2
  <2>. HIDE DEF c
  <2>4. /\ calls' \in Seq(Attempts)
        /\ Len(calls') = Len(calls)
        /\ \A j \in 1 .. Len(calls) : calls'[j] = IF j = i THEN c ELSE calls[j]
    BY <1>2, <2>1, <2>2, <2>3, ExceptSeq
  <2>5. calls' # <<>>
    BY <1>2, <2>4, EmptySeq
  <2>. QED  BY <1>2, <2>3, <2>4, <2>5 DEF c
<1>5. WithinBudget'
  <2>1. Len(calls) <= Cap /\ \A n \in 1 .. i : calls[n].model = n
    BY <1>2 DEF Inv, WithinBudget
  <2>2. \A n \in 1 .. i : calls'[n].model = n
    BY <1>2, <1>4, <2>1
  <2>. QED  BY <1>2, <1>3, <1>4, <2>1, <2>2 DEF WithinBudget
<1>6. \A n \in 1 .. i - 1 : Insufficient(calls[n])'
  BY <1>1, <1>2, <1>4 DEF Insufficient, Threshold
<1>7. CASE Accepts(s, i)
  <2>1. /\ pc' = "done" /\ outcome' = "response" /\ winner' = i /\ saved' = 0
        /\ i' = i /\ escalations' = escalations /\ content' = content
    BY <1>7 DEF Judge, Return
  <2>2. TypeOK'
    BY <1>1, <1>2, <1>3, <1>4, <2>1 DEF Inv, TypeOK
  <2>3. ~Insufficient(calls[i])'
    BY <1>1, <1>2, <1>3, <1>4, <1>7, <2>1 DEF Insufficient, Accepts, Threshold
  <2>4. CheapestSufficient'
    BY <1>1, <1>2, <1>3, <1>4, <1>6, <2>1, <2>3 DEF CheapestSufficient
  <2>5. LoopInv'
    BY <2>1 DEF LoopInv
  <2>. QED  BY <1>5, <2>2, <2>4, <2>5 DEF Inv
<1>8. CASE ~Accepts(s, i)
  <2>1. /\ i' = i + 1 /\ escalations' = i /\ UNCHANGED <<outcome, winner, saved>>
        /\ content' \in Contents
        /\ pc' = IF Spent(i) THEN "forced" ELSE "call"
    <3>1. escalations + 1 = i
      BY <1>2
    <3>. QED  BY <1>8, <3>1, CascadeAssumption DEF Judge, Continue
  <2>2. i + 1 \in Models /\ i + 1 \in Nat \ {0} /\ i \in Nat
    BY <1>2 DEF Models
  <2>3. TypeOK'
    BY <1>1, <1>2, <1>3, <1>4, <2>1, <2>2 DEF Inv, TypeOK
  <2>4. CheapestSufficient'
    BY <2>1 DEF CheapestSufficient
  <2>5. s < cfg.thresholds[i] /\ cfg.thresholds[i] # 0
    BY <1>2, <1>3, <1>8 DEF Accepts, Threshold
  <2>6. \A n \in 1 .. i : Insufficient(calls[n])'
    <3>1. calls'[i].model = i /\ calls'[i].score = s
      BY <1>4
    <3>2. \A n \in 1 .. i : n = i \/ n \in 1 .. i - 1
      BY <1>2
    <3>3. \A n \in 1 .. i : n = i => Insufficient(calls[n])'
      BY <1>1, <2>5, <3>1 DEF Insufficient, Threshold
    <3>. QED  BY <1>6, <3>2, <3>3
  <2>7. (Spent(i) <=> Spent(escalations)') /\ (Spent(i) => i + 1 = Cap)
    BY <1>1, <1>2, <2>1 DEF Spent, Cap
  <2>8. i = (i + 1) - 1
    BY <1>2
  <2>9. LoopInv'
    BY <1>2, <1>3, <1>4, <2>1, <2>6, <2>7, <2>8 DEF LoopInv
  <2>. QED  BY <1>5, <2>3, <2>4, <2>9 DEF Inv
<1>. QED  BY <1>7, <1>8

\* The loop is entered at the first model, or there is none.
LEMMA StartKeepsInv ==
    ASSUME Inv, Start
    PROVE  Inv'
<1>1. /\ pc = "start" /\ UNCHANGED <<cfg, i, escalations, content, calls>>
      /\ calls = <<>> /\ escalations = 0 /\ i = 1 /\ Len(calls) = 0
  BY EmptySeq DEF Start, Inv, LoopInv
<1>2. Models' = Models /\ Cap' = Cap /\ Attempts' = Attempts
  BY <1>1 DEF Models, Cap, Attempts
<1>3. WithinBudget'
  BY <1>1, <1>2 DEF Inv, WithinBudget
<1>4. CASE cfg.thresholds = <<>>
  <2>1. pc' = "done" /\ outcome' = "no models" /\ winner' = 0 /\ saved' = 0
    BY <1>4 DEF Start, Return
  <2>. QED
    BY <1>1, <1>2, <1>3, <1>4, <2>1 DEF Inv, TypeOK, CheapestSufficient, LoopInv
<1>5. CASE cfg.thresholds # <<>>
  <2>1. pc' = "call" /\ UNCHANGED <<outcome, winner, saved>>
    BY <1>5 DEF Start, Continue
  <2>2. 1 \in Models
    BY <1>5, ConfigFacts DEF Inv, Models
  <2>3. TypeOK' /\ CheapestSufficient'
    BY <1>1, <1>2, <2>1, <2>2 DEF Inv, TypeOK, CheapestSufficient
  <2>4. outcome = "none"
    BY <1>1 DEF Inv, LoopInv
  <2>5. ~Spent(escalations)'
    BY <1>1, ConfigFacts DEF Inv, Spent
  <2>6. LoopInv'
    BY <1>1, <2>1, <2>4, <2>5 DEF LoopInv
  <2>. QED  BY <1>3, <2>3, <2>6 DEF Inv
<1>. QED  BY <1>4, <1>5

\* The call starts in the invariant.
LEMMA InitInv == Init => Inv
<1>. SUFFICES ASSUME Init PROVE Inv
  OBVIOUS
<1>1. <<>> \in Seq(Attempts) /\ Len(<<>>) = 0
  BY EmptySeq
<1>2. TypeOK
  BY <1>1, CascadeAssumption DEF Init, TypeOK
<1>3. WithinBudget
  BY <1>1, <1>2, ConfigFacts DEF Init, WithinBudget, Cap
<1>4. CheapestSufficient /\ LoopInv
  BY DEF Init, CheapestSufficient, LoopInv
<1>. QED  BY <1>2, <1>3, <1>4 DEF Inv

\* Every step of the specification keeps the invariant.
LEMMA NextKeepsInv ==
    ASSUME Inv, [Next]_vars
    PROVE  Inv'
<1>1. ASSUME Done \/ UNCHANGED vars PROVE Inv'
  BY <1>1 DEF Done, vars, returnVars, Attempts, Inv, TypeOK, WithinBudget, CheapestSufficient, LoopInv, Models, Cap,
     Insufficient, Threshold, Spent
<1>. QED
  BY <1>1, StartKeepsInv, ProviderFailsKeepsInv, AnswerKeepsInv, JudgeKeepsInv DEF Next

\* Inv holds throughout every call.
THEOREM Invariance == Spec => []Inv
<1>1. Inv /\ [Next]_vars => Inv'
  BY NextKeepsInv
<1>. QED  BY InitInv, <1>1, PTL DEF Spec

-----------------------------------------------------------------------------
\* The properties of Cascade.

\* No model is indexed past the end of the configured slice (cascade.go:84).
THEOREM TypeCorrect == Spec => []TypeOK
<1>1. Inv => TypeOK
  BY DEF Inv
<1>. QED  BY Invariance, <1>1, PTL

\* The models are called in order, each at most once and no more of them than
\* WithMaxEscalations allows.
THEOREM BudgetKept == Spec => []WithinBudget
<1>1. Inv => WithinBudget
  BY DEF Inv
<1>. QED  BY Invariance, <1>1, PTL

\* The cheapest sufficient model's response is the one that is returned.
THEOREM CheapestWins == Spec => []CheapestSufficient
<1>1. Inv => CheapestSufficient
  BY DEF Inv
<1>. QED  BY Invariance, <1>1, PTL

\* The response that a step returns, if any, has the entry exactly if it is that of
\* the forced call, which is the one after the last permitted escalation.
LEMMA NextKeepsRecorded ==
    ASSUME Inv, RecordedByBudget, [Next]_vars
    PROVE  RecordedByBudget'
<1>0. /\ cfg.maxEscalations \in Int /\ Len(cfg.thresholds) \in Nat
      /\ i \in Nat \ {0} /\ escalations \in Nat /\ Len(calls) \in Nat
      /\ pc \in {"call", "judge", "forced"} =>
            i \in Models /\ escalations = i - 1 /\ outcome = "none"
      /\ pc \in {"call", "judge"} => ~Spent(escalations)
      /\ pc = "forced" => Spent(escalations) /\ i = Cap
      /\ pc = "judge" => Len(calls) = i
  BY ConfigFacts, LogFacts DEF Inv, TypeOK, LoopInv
<1>1. pc = "forced" => cfg.maxEscalations > 0 /\ i = cfg.maxEscalations + 1
  BY <1>0 DEF Cap, Spent
<1>2. pc \in {"call", "judge"} => ~(cfg.maxEscalations > 0 /\ i = cfg.maxEscalations + 1)
  BY <1>0 DEF Spent
<1>3. CASE Start
  BY <1>3, <1>0 DEF Start, Return, Continue, RecordedByBudget, Inv, LoopInv
<1>4. CASE ProviderFails
  BY <1>4 DEF ProviderFails, Return, RecordedByBudget
<1>5. ASSUME NEW r \in Contents, ProviderAnswers(r)
      PROVE  RecordedByBudget'
  <2>1. /\ pc = "call" /\ cfg' = cfg
        /\ calls' = Append(calls, [model |-> i, score |-> Unscored])
        /\ \/ outcome' = "response" /\ saved' = 0
           \/ outcome' = outcome /\ saved' = saved
    BY <1>5 DEF ProviderAnswers, Return, Continue
  <2>2. Len(calls') = i
    BY <2>1, CallFacts
  <2>. QED  BY <1>0, <1>2, <2>1, <2>2 DEF RecordedByBudget
<1>6. ASSUME NEW r \in Contents, ForcedAnswers(r)
      PROVE  RecordedByBudget'
  <2>1. /\ pc = "forced" /\ cfg' = cfg /\ outcome' = "response" /\ saved' = 1
        /\ calls' = Append(calls, [model |-> i, score |-> Unscored])
    BY <1>6 DEF ForcedAnswers, Return
  <2>2. Len(calls') = i
    BY <2>1, CallFacts
  <2>. QED  BY <1>1, <2>1, <2>2 DEF RecordedByBudget
<1>7. ASSUME NEW s \in Scores, Judge(s)
      PROVE  RecordedByBudget'
  <2>1. /\ pc = "judge" /\ cfg' = cfg
        /\ calls' = [calls EXCEPT ![Len(calls)].score = s]
        /\ \/ outcome' = "response" /\ saved' = 0
           \/ outcome' = outcome /\ saved' = saved
    BY <1>7 DEF Judge, Return, Continue
  <2>2. Len(calls') = Len(calls)
    BY <2>1, LogFacts, EmptySeq DEF Inv
  <2>. QED  BY <1>0, <1>2, <2>1, <2>2 DEF RecordedByBudget
<1>8. CASE Done \/ UNCHANGED vars
  BY <1>8 DEF Done, vars, returnVars, RecordedByBudget
<1>. QED  BY <1>3, <1>4, <1>5, <1>6, <1>7, <1>8 DEF Next

\* A savings entry tells of a spent budget, and of nothing else.
THEOREM SavingsTellTheBudget == Spec => []RecordedByBudget
<1>1. Init => RecordedByBudget
  BY DEF Init, RecordedByBudget
<1>2. Inv /\ RecordedByBudget /\ [Next]_vars => RecordedByBudget'
  BY NextKeepsRecorded
<1>. QED  BY Invariance, <1>1, <1>2, PTL DEF Spec

\* What DefaultScorer returns is 0.5 or a confidence stated in the text, the first
\* text block's if that states one.
LEMMA ScoreIsSuggested ==
    ASSUME content \in Contents, NEW s, IsDefaultScore(s, content)
    PROVE  /\ s \in Suggested(content)
           /\ \A n \in DOMAIN content :
                 FirstText(content, n) /\ content[n].tag # NoTag => Says(s, content[n])
<1>1. /\ content \in Seq([text : BOOLEAN, tag : Nat \cup {NoTag}])
      /\ One \in Nat
  BY CascadeAssumption
<1>2. /\ DOMAIN content = 1 .. Len(content) /\ Len(content) \in Nat
      /\ \A n \in DOMAIN content : content[n] \in [text : BOOLEAN, tag : Nat \cup {NoTag}]
  <2>. DEFINE Block == [text : BOOLEAN, tag : Nat \cup {NoTag}]
  <2>1. content \in Seq(Block)
    BY <1>1
  <2>. HIDE DEF Block
  <2>2. DOMAIN content = 1 .. Len(content) /\ Len(content) \in Nat
    BY <2>1
  <2>3. \A n \in DOMAIN content : content[n] \in Block
    BY <2>1, <2>2, ElementOfSeq
  <2>. QED  BY <2>2, <2>3 DEF Block
<1>3. CASE s = Default /\ \A n \in DOMAIN content : ~IsTagged(content[n])
  BY <1>3 DEF Suggested, IsTagged, FirstText
<1>4. ASSUME NEW n \in DOMAIN content, IsTagged(content[n]),
             \A k \in DOMAIN content : k < n => ~IsTagged(content[k]),
             s = Clamp(content[n].tag)
      PROVE  /\ s \in Suggested(content)
             /\ \A k \in DOMAIN content :
                   FirstText(content, k) /\ content[k].tag # NoTag => Says(s, content[k])
  <2>1. content[n].text /\ content[n].tag # NoTag /\ content[n].tag \in Nat
    BY <1>2, <1>4 DEF IsTagged
  <2>2. s \in 0 .. One /\ Says(s, content[n])
    BY <1>1, <1>4, <2>1 DEF Clamp, Says
  <2>3. s \in Suggested(content)
    BY <2>1, <2>2 DEF Suggested
  <2>4. ASSUME NEW k \in DOMAIN content, FirstText(content, k), content[k].tag # NoTag
        PROVE  k = n
    <3>1. n \in Nat /\ k \in Nat /\ n >= 1
      BY <1>2
    <3>2. ~(k < n)
      BY <1>4, <2>4 DEF IsTagged, FirstText
    <3>3. ~(n < k)
      <4>1. n < k => n \in 1 .. k - 1
        BY <3>1
      <4>. QED  BY <2>1, <2>4, <4>1 DEF FirstText
    <3>. QED  BY <3>1, <3>2, <3>3
  <2>. QED  BY <2>2, <2>3, <2>4
<1>. QED  BY <1>3, <1>4 DEF IsDefaultScore

\* With the default scorer a response is accepted or escalated for the tag of its
\* first text block, if that has one, and for 0.5 if no text block has.
THEOREM DecisionsByText == Spec => DecidedByText
<1>1. ASSUME Inv, [Next]_vars, pc = "judge", cfg.scorer = "default", ~UNCHANGED vars
      PROVE  \E s \in Suggested(content) :
                /\ pc' = "done" <=> s >= Threshold(i)
                /\ \A n \in DOMAIN content :
                      FirstText(content, n) /\ content[n].tag # NoTag => Says(s, content[n])
  <2>1. PICK s \in Scores : Judge(s)
    BY <1>1 DEF Next, Start, ProviderFails, ProviderAnswers, ForcedAnswers, Done
  <2>2. IsDefaultScore(s, content) /\ content \in Contents
    BY <1>1, <2>1 DEF Judge, Inv, TypeOK
  <2>3. /\ s \in Suggested(content)
        /\ \A n \in DOMAIN content :
              FirstText(content, n) /\ content[n].tag # NoTag => Says(s, content[n])
    BY <2>2, ScoreIsSuggested
  <2>4. pc' = "done" <=> s >= Threshold(i)
    BY <2>1 DEF Judge, Accepts, Return, Continue
  <2>. QED  BY <2>3, <2>4
<1>2. Inv /\ [Next]_vars =>
        [pc = "judge" /\ cfg.scorer = "default" =>
          \E s \in Suggested(content) :
             /\ pc' = "done" <=> s >= Threshold(i)
             /\ \A n \in DOMAIN content :
                   FirstText(content, n) /\ content[n].tag # NoTag => Says(s, content[n])]_vars
  BY <1>1
<1>. QED  BY Invariance, <1>2, PTL DEF Spec, DecidedByText

-----------------------------------------------------------------------------
\* The refinement of Ladder.

\* Each step is a step of the ladder or leaves it alone.
LEMMA StepImplements ==
    ASSUME Inv, [Next]_vars
    PROVE  [L!Next]_L!vars
<1>. USE DEF LadderOutcome
<1>1. Len(calls) \in Nat /\ Len(cfg.thresholds) \in Nat /\ calls \in Seq(Attempts)
  BY ConfigFacts, LogFacts DEF Inv
<1>2. CASE UNCHANGED vars \/ Done
  BY <1>2 DEF vars, returnVars, Done, L!vars
<1>3. CASE Start
  <2>1. outcome = "none" /\ cfg' = cfg /\ calls' = calls
    BY <1>3 DEF Start, Inv, LoopInv
  <2>2. CASE cfg.thresholds = <<>>
    <3>1. outcome' = "no models" /\ Len(cfg.thresholds) = 0
      BY <1>3, <2>2, EmptySeq DEF Start, Return
    <3>2. L!NoModels
      BY <2>1, <3>1 DEF L!NoModels
    <3>. QED  BY <3>2 DEF L!Next
  <2>3. CASE cfg.thresholds # <<>>
    BY <1>3, <2>1, <2>3 DEF Start, Continue, L!vars
  <2>. QED  BY <2>2, <2>3
<1>4. ASSUME ProviderFails \/ (\E r \in Contents : ProviderAnswers(r) \/ ForcedAnswers(r))
      PROVE  L!Next
  <2>1. /\ pc \in {"call", "forced"} /\ cfg' = cfg
        /\ \E s \in {Failed, Unscored} : calls' = Append(calls, [model |-> i, score |-> s])
        /\ outcome' \in {"error", "response", outcome}
    BY <1>4 DEF ProviderFails, ProviderAnswers, ForcedAnswers, Return, Continue
  <2>2. outcome = "none" /\ i \in Models /\ Len(calls) = i - 1
    BY <2>1 DEF Inv, LoopInv, TypeOK
  <2>3. Len(calls') = Len(calls) + 1
    BY <2>1, <2>2, LogGrows DEF Inv
  <2>4. Len(calls) < Len(cfg.thresholds)
    BY <1>1, <2>2 DEF Models
  <2>5. \E o \in {"open", "response", "error"} : L!CallNext(o)
    BY <2>1, <2>2, <2>3, <2>4 DEF L!CallNext
  <2>. QED  BY <2>5 DEF L!Next
<1>5. ASSUME NEW s \in Scores, Judge(s)
      PROVE  [L!Next]_L!vars
  <2>1. /\ pc = "judge" /\ cfg' = cfg /\ outcome' \in {"response", outcome}
        /\ calls' = [calls EXCEPT ![Len(calls)].score = s]
    BY <1>5 DEF Judge, Return, Continue
  <2>2. outcome = "none" /\ Len(calls) = i /\ i \in Nat \ {0}
    BY <2>1 DEF Inv, LoopInv, TypeOK
  <2>3. Len(calls') = Len(calls)
    BY <1>1, <2>1
  <2>4. CASE outcome' = "response"
    <3>1. L!Settle("response")
      BY <2>1, <2>2, <2>3, <2>4 DEF L!Settle
    <3>. QED  BY <3>1 DEF L!Next
  <2>5. CASE outcome' = outcome
    BY <2>1, <2>3, <2>5 DEF L!vars
  <2>. QED  BY <2>1, <2>4, <2>5
<1>. QED  BY <1>2, <1>3, <1>4, <1>5 DEF Next

\* The cascade calls each model at most once and none after it has settled.
THEOREM Refinement == Spec => ImplementsLadder
<1>1. Init => L!Init
  <2>1. SUFFICES ASSUME Init PROVE L!Init
    OBVIOUS
  <2>2. Len(cfg.thresholds) \in Nat
    BY <2>1, InitInv, ConfigFacts DEF Inv
  <2>. QED  BY <2>1, <2>2, EmptySeq DEF Init, L!Init, LadderOutcome
<1>2. Inv /\ [Next]_vars => [L!Next]_L!vars
  BY StepImplements
<1>. QED  BY Invariance, <1>1, <1>2, PTL DEF Spec, ImplementsLadder, L!Spec
=============================================================================
