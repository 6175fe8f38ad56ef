----------------------------- MODULE Completion -----------------------------
(***************************************************************************)
(* What the caller of a wrapped llmint.Provider may rely on, whatever      *)
(* middleware stands between it and the model: an abstract specification   *)
(* of Complete that the modules of the middlewares implement.              *)
(*                                                                         *)
(* A call is one invocation of Complete.  It is billed when its request is *)
(* handed to the downstream provider (that is what costs money), at most   *)
(* once, and it returns what downstream answered to that request and not   *)
(* to another one.  A middleware that caches (MayReuse) may instead answer *)
(* a call without billing it, but only once some billed call succeeded.    *)
(***************************************************************************)
CONSTANTS Calls,      \* the invocations of Complete
          MayReuse    \* may an answer be one paid for by an earlier call?

VARIABLES phase,      \* phase[c]: "idle", "open" (inside Complete), "returned"
          billed,     \* the calls whose request reached the downstream provider
          outcome     \* outcome[c]: "none", then what c is answered: "ok", "err"

vars == <<phase, billed, outcome>>

Init ==
    /\ phase = [c \in Calls |-> "idle"]
    /\ billed = {}
    /\ outcome = [c \in Calls |-> "none"]

Invoke(c) ==
    /\ phase[c] = "idle"
    /\ phase' = [phase EXCEPT ![c] = "open"]
    /\ UNCHANGED <<billed, outcome>>

Bill(c) ==
    /\ phase[c] = "open"
    /\ c \notin billed
    /\ billed' = billed \cup {c}
    /\ UNCHANGED <<phase, outcome>>

\* Downstream answers o; the caller may have it at once or by a later Return.
Respond(c, o) ==
    /\ phase[c] = "open"
    /\ c \in billed
    /\ outcome[c] = "none"
    /\ outcome' = [outcome EXCEPT ![c] = o]
    /\ phase' \in {phase, [phase EXCEPT ![c] = "returned"]}
    /\ UNCHANGED billed

\* The same, where downstream answers at once.
Exchange(c, o) ==
    /\ phase[c] = "open"
    /\ c \notin billed
    /\ outcome[c] = "none"
    /\ billed' = billed \cup {c}
    /\ outcome' = [outcome EXCEPT ![c] = o]
    /\ UNCHANGED phase

Return(c) ==
    /\ phase[c] = "open"
    /\ outcome[c] # "none"
    /\ phase' = [phase EXCEPT ![c] = "returned"]
    /\ UNCHANGED <<billed, outcome>>

Reuse(c) ==
    /\ MayReuse
    /\ phase[c] = "open"
    /\ c \notin billed
    /\ \E d \in billed : outcome[d] = "ok"
    /\ phase' = [phase EXCEPT ![c] = "returned"]
    /\ outcome' = [outcome EXCEPT ![c] = "ok"]
    /\ UNCHANGED billed

Next ==
    \E c \in Calls :
        \/ Invoke(c)
        \/ Bill(c)
        \/ \E o \in {"ok", "err"} : Respond(c, o) \/ Exchange(c, o)
        \/ Return(c)
        \/ Reuse(c)

Spec == Init /\ [][Next]_vars

-----------------------------------------------------------------------------
(***************************************************************************)
(* What a caller may conclude from this, and with it the caller of every   *)
(* middleware that implements it.                                          *)
(***************************************************************************)

\* A call that returned was answered; and an answer without a bill is a success of
\* a middleware that caches, behind which a paid call has succeeded.
Honest ==
    \A c \in Calls :
        /\ phase[c] = "returned" => outcome[c] # "none"
        /\ outcome[c] # "none" /\ c \notin billed =>
              /\ MayReuse
              /\ outcome[c] = "ok"
              /\ \E d \in billed : outcome[d] = "ok"

\* No answer is taken back or replaced, no call returns twice, and no call is paid
\* for once it is answered or has returned.
Settling ==
    \A c \in Calls :
        /\ outcome[c] # "none" => outcome'[c] = outcome[c]
        /\ phase[c] = "returned" => phase'[c] = "returned"
        /\ c \in billed => c \in billed'
        /\ c \in billed' \ billed => phase[c] = "open" /\ outcome[c] = "none"

Settled == [][Settling]_vars

=============================================================================
