----------------------------- MODULE HistoryService -----------------------------
(***************************************************************************)
(* What the helper with the history database promises the desktop,         *)
(* whatever children it takes: a service with one queue.  Requests are     *)
(* settled in the order in which they were made, and each is carried out   *)
(* at most once: if it is answered, in its turn and before the answer; if  *)
(* it failed, perhaps, and then possibly late, after requests that were    *)
(* made later; if it is refused, never.  A request is refused at once only *)
(* when the service is closed, or as many are pending as it takes.         *)
(***************************************************************************)
EXTENDS Integers, Sequences, FiniteSets

CONSTANT Limit     \* how many may be pending

VARIABLES
  asked,           \* how many requests were made, numbered 1..asked
  outcome,         \* of each: "pending", "resolved", "failed", "refused"
  closed,
  log              \* the requests that were carried out, in this order

vars == <<asked, outcome, closed, log>>

Pending == {r \in 1..asked : outcome[r] = "pending"}

\* The request that is served.
First(r) == r \in Pending /\ \A q \in Pending : r <= q

Done(r) == \E i \in DOMAIN log : log[i] = r

Settle(r, how) == outcome' = [outcome EXCEPT ![r] = how]

Init == asked = 0 /\ outcome = [r \in {} |-> "pending"] /\ closed = FALSE /\ log = <<>>

------------------------------------------------------------------------------
Ask ==
  LET accepted == ~closed /\ Cardinality(Pending) < Limit
  IN  /\ asked' = asked + 1
      /\ outcome' = [r \in 1..asked' |->
            IF r \in 1..asked THEN outcome[r] ELSE IF accepted THEN "pending" ELSE "refused"]
      /\ UNCHANGED <<closed, log>>

\* What is served is answered, once it was carried out.
Answer(r) == First(r) /\ ~closed /\ Done(r) /\ Settle(r, "resolved") /\ UNCHANGED <<asked, closed, log>>

\* It fails: its service takes too long, or is lost.
Fail(r) == First(r) /\ ~closed /\ Settle(r, "failed") /\ UNCHANGED <<asked, closed, log>>

\* It is not served: the service is closed, or nobody is there to do it.
Refuse(r) == First(r) /\ ~Done(r) /\ Settle(r, "refused") /\ UNCHANGED <<asked, closed, log>>

\* A request has its effect: the one that is served, or late, one that failed.
Carry(r) ==
  /\ ~Done(r)
  /\ \/ First(r) /\ ~closed
     \/ r \in 1..asked /\ outcome[r] = "failed"
  /\ log' = Append(log, r)
  /\ UNCHANGED <<asked, outcome, closed>>

\* The service is closed; what is being served fails.
Close ==
  /\ ~closed /\ closed' = TRUE
  /\ \/ UNCHANGED outcome
     \/ \E r \in Pending : First(r) /\ Settle(r, "failed")
  /\ UNCHANGED <<asked, log>>

Next ==
  \/ Ask \/ Close
  \/ \E r \in 1..asked : Answer(r) \/ Fail(r) \/ Refuse(r) \/ Carry(r)

Spec == Init /\ [][Next]_vars
==============================================================================
