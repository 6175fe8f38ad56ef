------------------------------- MODULE Cascade -------------------------------
(***************************************************************************)
(* middleware/cascade: one call of Complete tries the configured models in *)
(* order, cheapest first, until the response of one scores well enough or  *)
(* the budget of escalations is spent.  cascadeProvider has no state of    *)
(* its own, so that concurrent calls do not interact.                      *)
(*                                                                         *)
(* Thresholds, scores and the confidences that models put into their text  *)
(* are compared only, with each other, with 0 and with 1: integers stand   *)
(* for the float64 values.  A model is its index.                          *)
(***************************************************************************)
EXTENDS Integers, Sequences

CONSTANTS Configs,   \* what New may be given: records of the thresholds of its
                     \* models, in order, of WithMaxEscalations's n, and
                     \* whether the scorer is DefaultScorer's or "custom"
          Scores,    \* what cfg.scorer may return
          Contents,  \* what a model may answer: sequences of blocks
          NoTag,     \* the tag of a block with no number that can be read
          Default,   \* the score 0.5
          One,       \* the score 1
          Failed,    \* what is recorded in a score's place of a call that fails
          Unscored   \* and of one whose response is not scored

ASSUME CascadeAssumption ==
    /\ Configs \subseteq [thresholds : Seq(Int), maxEscalations : Int,
                          scorer : {"default", "custom"}]
    /\ Scores \subseteq Int
    /\ One \in Nat /\ Default \in Nat
    /\ NoTag \notin Nat
    /\ Contents \subseteq Seq([text : BOOLEAN, tag : Nat \cup {NoTag}])
    /\ <<>> \in Contents
    /\ Failed \notin Scores
    /\ Unscored \notin Scores
    /\ Failed # Unscored

VARIABLES
    cfg,          \* the provider's configuration
    pc,           \* "call" and "judge" in the loop, "forced" at the call of the
                  \* next model unconditionally, "done"
    i,            \* the index of the model being called or judged
    escalations,  \* Complete's counter
    content,      \* the content of the response at hand, <<>> when there is none
    calls,        \* history: per call of a model's provider, in order, the
                  \* model and the score its response was given
    outcome,      \* "none" until Complete returns; then "no models", "error"
                  \* or "response"
    winner,       \* the model that gave the response, 0 when there is none
    saved         \* the cascade's savings entries on the response

\* What changes when the loop goes on or returns.
returnVars == <<pc, outcome, winner, saved>>

vars == <<cfg, i, escalations, content, calls, returnVars>>

Threshold(m) == cfg.thresholds[m]

\* Plausible bug: len for len - 1.
IsLastLate(m) == m = Len(cfg.thresholds) + 1

IsLast(m) == m = Len(cfg.thresholds)

\* Complete returns o: a response is that of model m, with s savings entries.
Return(o, m, s) ==
    /\ pc' = "done"
    /\ outcome' = o
    /\ winner' = m
    /\ saved' = s

Continue(where) == pc' = where /\ UNCHANGED <<outcome, winner, saved>>

\* for i, m := range p.models, and the error after the loop when there is none.
Start ==
    /\ pc = "start"
    /\ IF cfg.thresholds = <<>>
         THEN Return("no models", 0, 0)
         ELSE Continue("call")
    /\ UNCHANGED <<cfg, i, escalations, content, calls>>

\* Plausible bug: an error makes the cascade try the next model.
ProviderFailsOver ==
    /\ pc \in {"call", "forced"}
    /\ calls' = Append(calls, [model |-> i, score |-> Failed])
    /\ IF IsLast(i) THEN Return("error", 0, 0) /\ UNCHANGED i
                    ELSE Continue(pc) /\ i' = i + 1
    /\ UNCHANGED <<cfg, escalations, content>>

\* A provider's error ends the call, whatever models are left.
ProviderFails ==
    /\ pc \in {"call", "forced"}
    /\ calls' = Append(calls, [model |-> i, score |-> Failed])
    /\ Return("error", 0, 0)
    /\ UNCHANGED <<cfg, i, escalations, content>>

\* The last model, and one whose threshold is 0, are not scored.
ProviderAnswers(r) ==
    /\ pc = "call"
    /\ content' = r
    /\ calls' = Append(calls, [model |-> i, score |-> Unscored])
    /\ IF IsLast(i) \/ Threshold(i) = 0
         THEN Return("response", i, 0)
         ELSE Continue("judge")
    /\ UNCHANGED <<cfg, i, escalations>>

\* Plausible bug: the loop goes on after the forced call.
ForcedAnswersGoesOn(r) ==
    /\ pc = "forced"
    /\ content' = r
    /\ calls' = Append(calls, [model |-> i, score |-> Unscored])
    /\ Continue("call")
    /\ UNCHANGED <<cfg, i, escalations>>

\* The provider of the model after the last escalation answers.
ForcedAnswers(r) ==
    /\ pc = "forced"
    /\ content' = r
    /\ calls' = Append(calls, [model |-> i, score |-> Unscored])
    /\ Return("response", i, 1)
    /\ UNCHANGED <<cfg, i, escalations>>

\* Plausible bug: > for >=.
AcceptsAbove(s, m) == s > Threshold(m)

Accepts(s, m) == s >= Threshold(m)

\* Plausible bug: the budget is checked with > for >=.
SpentLate(e) == cfg.maxEscalations > 0 /\ e > cfg.maxEscalations

Spent(e) == cfg.maxEscalations > 0 /\ e >= cfg.maxEscalations

\* Plausible bug: the type of a block is not looked at.
IsTaggedAny(block) == block.tag # NoTag

\* A block of text that confidenceTagRe matches, with a number that parses.
IsTagged(block) == block.text /\ block.tag # NoTag

\* The expression matches no negative number: only 1 clamps.
Clamp(v) == IF v > One THEN One ELSE v

\* s is what DefaultScorer returns of the blocks: the first tag counts, if any.
IsDefaultScore(s, blocks) ==
    \/ /\ s = Default
       /\ \A n \in DOMAIN blocks : ~IsTagged(blocks[n])
    \/ \E n \in DOMAIN blocks :
          /\ IsTagged(blocks[n])
          /\ \A k \in DOMAIN blocks : k < n => ~IsTagged(blocks[k])
          /\ s = Clamp(blocks[n].tag)

Judge(s) ==
    /\ pc = "judge"
    /\ cfg.scorer = "default" => IsDefaultScore(s, content)
    /\ calls' = [calls EXCEPT ![Len(calls)].score = s]
    /\ IF Accepts(s, i)
         THEN /\ Return("response", i, 0)
              /\ UNCHANGED <<i, escalations, content>>
         ELSE /\ escalations' = escalations + 1
              /\ i' = i + 1
              /\ content' = <<>>
              /\ Continue(IF Spent(escalations + 1) THEN "forced" ELSE "call")
    /\ UNCHANGED cfg

Init ==
    /\ cfg \in Configs
    /\ pc = "start"
    /\ i = 1
    /\ escalations = 0
    /\ content = <<>>
    /\ calls = <<>>
    /\ outcome = "none"
    /\ winner = 0
    /\ saved = 0

Done == pc = "done" /\ UNCHANGED vars

Next ==
    \/ Start
    \/ ProviderFails
    \/ \E r \in Contents : ProviderAnswers(r)
    \/ \E r \in Contents : ForcedAnswers(r)
    \/ \E s \in Scores : Judge(s)
    \/ Done

Spec == Init /\ [][Next]_vars

-----------------------------------------------------------------------------
Models == 1 .. Len(cfg.thresholds)

Attempts == [model : Models, score : Scores \cup {Failed, Unscored}]

\* Every variable holds what the code can put in it, and no model is indexed
\* past the end of the slice, in the forced call either (cascade.go:84).
TypeOK ==
    /\ cfg \in Configs
    /\ pc \in {"start", "call", "judge", "forced", "done"}
    /\ i \in Nat \ {0}
    /\ pc \in {"call", "judge", "forced"} => i \in Models
    /\ escalations \in Nat
    /\ content \in Contents
    /\ calls \in Seq(Attempts)
    /\ outcome \in {"none", "no models", "error", "response"}
    /\ winner \in Models \cup {0}
    /\ saved \in {0, 1}

\* The most models one call may pay for: one more than the escalations that
\* WithMaxEscalations allows (cascade.go:50-54), and each only once.
Cap == IF cfg.maxEscalations > 0 /\ cfg.maxEscalations < Len(cfg.thresholds)
         THEN cfg.maxEscalations + 1
         ELSE Len(cfg.thresholds)

\* The models are called from the first on, none skipped and none twice, and no
\* more of them than the budget allows (cascade.go:51-54, 78-92).
WithinBudget ==
    /\ Len(calls) <= Cap
    /\ \A n \in 1 .. Len(calls) : calls[n].model = n

\* A response that is not good enough to stop at: it was scored, below a
\* threshold that is not 0 (cascade.go:17-18, 57-59).
Insufficient(call) ==
    /\ Threshold(call.model) # 0
    /\ call.score \in Scores
    /\ call.score < Threshold(call.model)

\* Complete returns what the cheapest sufficient model returned: all before it
\* answered insufficiently, and it was sufficient itself or the last that the
\* models and the budget allow; an error is that of the first provider to fail,
\* and "no models" is returned exactly of an empty configuration.
CheapestSufficient ==
    pc = "done" =>
        /\ outcome = "no models" <=> cfg.thresholds = <<>>
        /\ calls # <<>> =>
              LET last == calls[Len(calls)]
              IN  /\ \A n \in 1 .. Len(calls) - 1 : Insufficient(calls[n])
                  /\ outcome = "error" <=> last.score = Failed
                  /\ outcome = "response" =>
                        /\ winner = last.model
                        /\ ~Insufficient(last)
                        /\ last.score = Unscored =>
                              last.model = Cap \/ Threshold(last.model) = 0

\* What a tag says, which is never more than 1.
Says(s, block) == s = IF block.tag > One THEN One ELSE block.tag

\* The scores that a response's text suggests: 0.5, or the tag of a text block.
Suggested(blocks) ==
    {Default} \cup {s \in 0 .. One : \E n \in DOMAIN blocks :
                      blocks[n].text /\ blocks[n].tag # NoTag /\ Says(s, blocks[n])}

\* The block that scorer.go:18-19 speaks of.
FirstText(blocks, n) == blocks[n].text /\ \A k \in 1 .. n - 1 : ~blocks[k].text

\* With the default scorer, a response is accepted or escalated for what its text
\* says and never for what a block of another type does: for the tag of the first
\* text block, whatever comes before it, if that has one, and for 0.5 if no text
\* block has.  If only a later text block has one, the code reads that
\* (scorer.go:23-31) and the doc says 0.5 (scorer.go:18-19): either is admitted.
DecidedByText ==
    [][pc = "judge" /\ cfg.scorer = "default" =>
          \E s \in Suggested(content) :
             /\ pc' = "done" <=> s >= Threshold(i)
             /\ \A n \in DOMAIN content :
                   FirstText(content, n) /\ content[n].tag # NoTag => Says(s, content[n])]_vars

LadderOutcome ==
    IF outcome = "none" THEN "open" ELSE IF outcome = "response" THEN "response" ELSE "error"

L == INSTANCE Ladder WITH size <- Len(cfg.thresholds), called <- Len(calls),
                          outcome <- LadderOutcome

\* The cascade calls each model at most once and none after it has settled, as
\* the accounting of a call's cost relies on (cascade.go:63-97).
ImplementsLadder == L!Spec

\* A response has a savings entry exactly if it is that of the model that the last
\* of the permitted escalations led to: with the budget unspent, or none set, an
\* escalation leaves no trace (cascade.go:80-94).
RecordedByBudget ==
    saved = 1 <=> /\ outcome = "response"
                  /\ cfg.maxEscalations > 0
                  /\ Len(calls) = cfg.maxEscalations + 1

\* What the comment at cascade.go:93 says of a cascade that escalated: it
\* "records a savings entry on the response that ultimately wins".
EscalationIsRecorded ==
    pc = "done" /\ outcome = "response" /\ Len(calls) > 1 => saved = 1
=============================================================================
