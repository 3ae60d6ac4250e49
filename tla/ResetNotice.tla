----------------------------- MODULE ResetNotice -----------------------------
(***************************************************************************)
(* What the durable reset journal promises its user, whatever processes,   *)
(* channels, leases and crashes stand behind it.  A detected quota reset   *)
(* is owed one notice.  Each attempt at showing it may put at most one     *)
(* notice in front of the user, possibly late.  Between attempts the       *)
(* journal needs a reason: the attempt itself reported failure, or the     *)
(* user, told that the outcome is in doubt, asked for another one.         *)
(*                                                                         *)
(* Exactly-once delivery is not promised: an attempt whose outcome nobody  *)
(* reported stays in doubt for ever unless the user steps in.              *)
(***************************************************************************)
EXTENDS Naturals, FiniteSets

CONSTANT Event          \* reset events, by the id detectQuotaReset derives

VARIABLES
  phase,                \* phase[e]: the state the history shows for e
  attempts,             \* attempts[e]: attempts begun so far, numbered 1..n
  seen,                 \* seen[e]: the attempts whose notice has appeared
  released,             \* released[e]: the attempts that reported failure
  allowed               \* allowed[e]: repeats the user has asked for

vars == <<phase, attempts, seen, released, allowed>>

Phase == {"absent", "pending", "delivering", "delivered", "uncertain"}

TypeOK ==
  /\ phase \in [Event -> Phase]
  /\ attempts \in [Event -> Nat]
  /\ seen \in [Event -> SUBSET Nat]
  /\ released \in [Event -> SUBSET Nat]
  /\ allowed \in [Event -> Nat]

Init ==
  /\ phase    = [e \in Event |-> "absent"]
  /\ attempts = [e \in Event |-> 0]
  /\ seen     = [e \in Event |-> {}]
  /\ released = [e \in Event |-> {}]
  /\ allowed  = [e \in Event |-> 0]

------------------------------------------------------------------------------
\* A reset is detected and its notice becomes owed.
Raise(e) ==
  /\ phase[e] = "absent"
  /\ phase' = [phase EXCEPT ![e] = "pending"]
  /\ UNCHANGED <<attempts, seen, released, allowed>>

\* Somebody takes the obligation and starts the next attempt.
Begin(e) ==
  /\ phase[e] = "pending"
  /\ phase' = [phase EXCEPT ![e] = "delivering"]
  /\ attempts' = [attempts EXCEPT ![e] = @ + 1]
  /\ UNCHANGED <<seen, released, allowed>>

\* The notice of an attempt appears, in time or long after everybody gave up.
Appear(e, n) ==
  /\ n \in 1..attempts[e]
  /\ seen' = [seen EXCEPT ![e] = @ \cup {n}]
  /\ UNCHANGED <<phase, attempts, released, allowed>>

\* The current attempt reports that its notice appeared.
Acknowledge(e) ==
  /\ phase[e] \in {"delivering", "uncertain"}
  /\ attempts[e] \in seen[e]
  /\ phase' = [phase EXCEPT ![e] = "delivered"]
  /\ UNCHANGED <<attempts, seen, released, allowed>>

\* The current attempt reports failure and hands the obligation back.
Release(e) ==
  /\ phase[e] \in {"delivering", "uncertain"}
  /\ attempts[e] \notin released[e]
  /\ phase' = [phase EXCEPT ![e] = "pending"]
  /\ released' = [released EXCEPT ![e] = @ \cup {attempts[e]}]
  /\ UNCHANGED <<attempts, seen, allowed>>

\* Attempts that have not reported in time are in doubt.
Doubt(S) ==
  /\ \A e \in S : phase[e] = "delivering"
  /\ phase' = [e \in Event |-> IF e \in S THEN "uncertain" ELSE phase[e]]
  /\ UNCHANGED <<attempts, seen, released, allowed>>

\* The user asks for a repeat, accepting that it may be a duplicate.
Allow(e) ==
  /\ phase[e] = "uncertain"
  /\ phase' = [phase EXCEPT ![e] = "pending"]
  /\ allowed' = [allowed EXCEPT ![e] = @ + 1]
  /\ UNCHANGED <<attempts, seen, released>>

Next ==
  \/ \E e \in Event : \/ Raise(e) \/ Begin(e) \/ Acknowledge(e)
                      \/ Release(e) \/ Allow(e)
                      \/ \E n \in 1..attempts[e] : Appear(e, n)
  \/ \E S \in SUBSET Event : Doubt(S)

Spec == Init /\ [][Next]_vars
==============================================================================
