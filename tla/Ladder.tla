------------------------------- MODULE Ladder -------------------------------
(***************************************************************************)
(* What one call of Complete does with the models it may use, whatever     *)
(* chooses between them: an abstract specification of the cascade, on      *)
(* which the accounting of its cost relies.  The models are called one     *)
(* after the other, each at most once; some time after the first the call  *)
(* settles on a response or on an error, and calls no model any more.      *)
(***************************************************************************)
EXTENDS Naturals

VARIABLES size,     \* how many models there are
          called,   \* how many of them have been called
          outcome   \* "open", then "response" or "error"

vars == <<size, called, outcome>>

Init == size \in Nat /\ called = 0 /\ outcome = "open"

\* The next model is called; the call may settle on what it answers at once.
CallNext(o) ==
    /\ outcome = "open"
    /\ called < size
    /\ called' = called + 1
    /\ outcome' = o
    /\ UNCHANGED size

Settle(o) ==
    /\ outcome = "open"
    /\ called > 0
    /\ outcome' = o
    /\ UNCHANGED <<size, called>>

NoModels ==
    /\ outcome = "open"
    /\ size = 0
    /\ outcome' = "error"
    /\ UNCHANGED <<size, called>>

Next ==
    \/ \E o \in {"open", "response", "error"} : CallNext(o)
    \/ \E o \in {"response", "error"} : Settle(o)
    \/ NoModels

Spec == Init /\ [][Next]_vars
=============================================================================
