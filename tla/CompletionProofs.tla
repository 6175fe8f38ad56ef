-------------------------- MODULE CompletionProofs --------------------------
(***************************************************************************)
(* What a caller may conclude from the abstract Complete, proved once: the *)
(* modules of the middlewares that implement it inherit it by refinement.  *)
(***************************************************************************)
EXTENDS Completion, TLAPS

TypeOK ==
    /\ phase \in [Calls -> {"idle", "open", "returned"}]
    /\ billed \subseteq Calls
    /\ outcome \in [Calls -> {"none", "ok", "err"}]

\* Whoever has neither been billed nor returned has no answer yet: what forbids to
\* bill a call that was answered from another's.
Unpaid == \A c \in Calls : phase[c] # "returned" /\ c \notin billed => outcome[c] = "none"

Inv == TypeOK /\ Honest /\ Unpaid

LEMMA Initially == Init => Inv
  BY DEF Init, Inv, TypeOK, Honest, Unpaid

LEMMA NextKeepsInv ==
    ASSUME Inv, [Next]_vars
    PROVE  Inv'
<1>1. ASSUME NEW c \in Calls, Invoke(c) PROVE Inv'
  BY <1>1 DEF Inv, TypeOK, Honest, Unpaid, Invoke
<1>2. ASSUME NEW c \in Calls, Bill(c) PROVE Inv'
  BY <1>2 DEF Inv, TypeOK, Honest, Unpaid, Bill
<1>3. ASSUME NEW c \in Calls, NEW o \in {"ok", "err"}, Respond(c, o) PROVE Inv'
  BY <1>3 DEF Inv, TypeOK, Honest, Unpaid, Respond
<1>4. ASSUME NEW c \in Calls, NEW o \in {"ok", "err"}, Exchange(c, o) PROVE Inv'
  BY <1>4 DEF Inv, TypeOK, Honest, Unpaid, Exchange
<1>5. ASSUME NEW c \in Calls, Return(c) PROVE Inv'
  BY <1>5 DEF Inv, TypeOK, Honest, Unpaid, Return
<1>6. ASSUME NEW c \in Calls, Reuse(c) PROVE Inv'
  BY <1>6 DEF Inv, TypeOK, Honest, Unpaid, Reuse
<1>7. CASE UNCHANGED vars
  BY <1>7 DEF Inv, TypeOK, Honest, Unpaid, vars
<1>. QED  BY <1>1, <1>2, <1>3, <1>4, <1>5, <1>6, <1>7 DEF Next

LEMMA NextSettles ==
    ASSUME Inv, [Next]_vars
    PROVE  [Settling]_vars
<1>1. ASSUME NEW c \in Calls, Invoke(c) PROVE Settling
  BY <1>1 DEF Inv, TypeOK, Settling, Invoke
<1>2. ASSUME NEW c \in Calls, Bill(c) PROVE Settling
  BY <1>2 DEF Inv, TypeOK, Unpaid, Settling, Bill
<1>3. ASSUME NEW c \in Calls, NEW o \in {"ok", "err"}, Respond(c, o) PROVE Settling
  BY <1>3 DEF Inv, TypeOK, Settling, Respond
<1>4. ASSUME NEW c \in Calls, NEW o \in {"ok", "err"}, Exchange(c, o) PROVE Settling
  BY <1>4 DEF Inv, TypeOK, Settling, Exchange
<1>5. ASSUME NEW c \in Calls, Return(c) PROVE Settling
  BY <1>5 DEF Inv, TypeOK, Settling, Return
<1>6. ASSUME NEW c \in Calls, Reuse(c) PROVE Settling
  BY <1>6 DEF Inv, TypeOK, Unpaid, Settling, Reuse
<1>. QED  BY <1>1, <1>2, <1>3, <1>4, <1>5, <1>6 DEF Next

\* Who was answered without being billed owes it to a paid call that succeeded.
THEOREM AnswersArePaidFor == Spec => []Honest
<1>1. Inv => Honest
  BY DEF Inv
<1>. QED  BY Initially, NextKeepsInv, <1>1, PTL DEF Spec

\* Answers are final, and whoever has one is not billed any more.
THEOREM AnswersAreFinal == Spec => Settled
<1>. QED  BY Initially, NextKeepsInv, NextSettles, PTL DEF Spec, Settled
=============================================================================
