------------------------------ MODULE HistoryClient ------------------------------
(***************************************************************************)
(* The helper process that has the history database open for the desktop,  *)
(* and the client that asks it (gui/history-client.ts, history-helper.ts): *)
(* requests wait in a bounded queue, one at a time is sent to a child      *)
(* that lasts until a request fails, and what a child answers may come     *)
(* late, or never.  A child that was killed goes on until the signal       *)
(* reaches it.                                                             *)
(*                                                                         *)
(* Requests are numbered as they are made; so are children, by the number  *)
(* of the request they were started for.                                   *)
(***************************************************************************)
EXTENDS Integers, Sequences, FiniteSets

CONSTANTS
  MaxRequests,
  Limit,         \* how many may be pending
  None

VARIABLES
  asked,         \* how many requests were made
  outcome,       \* of each: "pending", "resolved", "failed", "refused" (before it was sent)
  pending,       \* pendingCount
  running,       \* the request that was sent, and the child it was sent to
  current,       \* this.child
  disposed,
  child,         \* of each child: what it is doing, and what is on its way to it and back
  carried        \* what the children have done to the database, in this order

clientVars == <<asked, outcome, pending, running, current, disposed, child, carried>>

Request == 1..MaxRequests
Children == DOMAIN child
Waiting == {r \in 1..asked : outcome[r] = "pending"} \ (IF running = None THEN {} ELSE {running.of})
NewChild == [alive |-> TRUE, killed |-> FALSE, connected |-> TRUE, inbox |-> <<>>, doing |-> None, answers |-> <<>>]
Send(c, r) == [c EXCEPT !.inbox = Append(@, r)]

------------------------------------------------------------------------------
ClientInit ==
  /\ asked = 0 /\ outcome = [r \in {} |-> "pending"] /\ pending = 0
  /\ running = None /\ current = None /\ disposed = FALSE
  /\ child = [c \in {} |-> NewChild] /\ carried = <<>>

\* Mutant: the queue takes any number of requests.
Ask_Unbounded ==
  /\ asked < MaxRequests /\ asked' = asked + 1
  /\ outcome' = [r \in 1..asked' |->
        IF r < asked' THEN outcome[r] ELSE IF ~disposed THEN "pending" ELSE "refused"]
  /\ pending' = IF ~disposed THEN pending + 1 ELSE pending
  /\ UNCHANGED <<running, current, disposed, child, carried>>

\* request
Ask ==
  LET accepted == ~disposed /\ pending < Limit
  IN  /\ asked < MaxRequests /\ asked' = asked + 1
      /\ outcome' = [r \in 1..asked' |->
            IF r < asked' THEN outcome[r] ELSE IF accepted THEN "pending" ELSE "refused"]
      /\ pending' = IF accepted THEN pending + 1 ELSE pending
      /\ UNCHANGED <<running, current, disposed, child, carried>>

\* Mutant: only what is answered leaves the count.
Settle_Leaks(r, how) ==
  /\ outcome' = [outcome EXCEPT ![r] = how]
  /\ pending' = IF how = "resolved" THEN pending - 1 ELSE pending

\* A promise settles, and with it the count: the next request's turn has come.
Settle(r, how) ==
  /\ outcome' = [outcome EXCEPT ![r] = how]
  /\ pending' = pending - 1

\* Mutant: a disposed client takes no more turns.
Turn_Ends(r) == ~disposed /\ running = None /\ r \in Waiting /\ \A q \in Waiting : r <= q

Turn(r) == running = None /\ r \in Waiting /\ \A q \in Waiting : r <= q

Reusable == current # None /\ child[current].connected

\* run, up to the sending of the request
Run(r) ==
  /\ Turn(r)
  /\ \/ /\ ~disposed /\ Reusable
        /\ child' = [child EXCEPT ![current] = Send(@, r)]
        /\ running' = [of |-> r, on |-> current]
        /\ UNCHANGED <<outcome, pending, current>>
     \/ /\ ~disposed /\ ~Reusable
        /\ child' = [c \in Children \cup {r} |-> IF c = r THEN Send(NewChild, r) ELSE child[c]]
        /\ current' = r /\ running' = [of |-> r, on |-> r]
        /\ UNCHANGED <<outcome, pending>>
     \/ \* disposed, or fork throws
        /\ disposed \/ ~Reusable
        /\ Settle(r, "refused")
        /\ UNCHANGED <<running, current, child>>
  /\ UNCHANGED <<asked, disposed, carried>>

\* Mutant: the child that failed stays the current one.
Fail_Kept ==
  /\ running # None
  /\ Settle(running.of, "failed")
  /\ current' = current
  /\ child' = [child EXCEPT ![running.on].killed = TRUE]
  /\ running' = None

\* finish with an error
Fail ==
  /\ running # None
  /\ Settle(running.of, "failed")
  /\ current' = IF current = running.on THEN None ELSE current
  /\ child' = [child EXCEPT ![running.on].killed = TRUE]
  /\ running' = None

\* The timer, or a request that could not be sent.
Timeout == Fail /\ UNCHANGED <<asked, disposed, carried>>

\* An answer arrives.  It counts if it is to the request that is running on this child;
\* no other ever arrives at a child that is listened to (Recovers).
Message(c) ==
  /\ child[c].answers # <<>>
  /\ LET answer == Head(child[c].answers)
     IN  /\ running = [of |-> answer.of, on |-> c]
         /\ \/ /\ answer.ok /\ Settle(answer.of, "resolved") /\ running' = None
               /\ child' = [child EXCEPT ![c].answers = Tail(@)]
               /\ UNCHANGED current
            \/ ~answer.ok /\ Fail
  /\ UNCHANGED <<asked, disposed, carried>>

\* Whether a child is listened to; no other is ever used again.
Heard(c) == c = current \/ (running # None /\ running.on = c)

\* The client learns that a child has ended, which fails what was running on it.
Exit(c) ==
  /\ Heard(c) /\ ~child[c].alive /\ child[c].connected
  /\ IF running # None /\ running.on = c
     THEN /\ Settle(running.of, "failed") /\ running' = None
          /\ current' = IF current = c THEN None ELSE current
     ELSE UNCHANGED <<outcome, pending, running, current>>
  /\ child' = [child EXCEPT ![c].connected = FALSE]
  /\ UNCHANGED <<asked, disposed, carried>>

\* Mutant: the child of a disposed client goes on.
Dispose_Kept ==
  /\ ~disposed /\ disposed' = TRUE
  /\ IF running # None
     THEN Settle(running.of, "failed") /\ running' = None
     ELSE UNCHANGED <<outcome, pending, running>>
  /\ current' = None
  /\ UNCHANGED <<asked, child, carried>>

\* dispose: what runs is cancelled, what waits is refused in its turn.
Dispose ==
  /\ ~disposed /\ disposed' = TRUE
  /\ IF running # None
     THEN Settle(running.of, "failed") /\ running' = None
     ELSE UNCHANGED <<outcome, pending, running>>
  /\ current' = None
  /\ child' = [c \in Children |->
        [child[c] EXCEPT !.killed = @ \/ c = current \/ (running # None /\ running.on = c)]]
  /\ UNCHANGED <<asked, carried>>

------------------------------------------------------------------------------
(* The helper.                                                              *)

\* execute, which may also fail, with or without an effect
Execute(c) ==
  /\ child[c].alive /\ child[c].doing = None /\ child[c].inbox # <<>>
  /\ LET r == Head(child[c].inbox)
     IN  \E ok, effect \in BOOLEAN :
           /\ ok => effect
           /\ carried' = IF effect THEN Append(carried, r) ELSE carried
           /\ child' = [child EXCEPT ![c].doing = [of |-> r, ok |-> ok], ![c].inbox = Tail(@)]
  /\ UNCHANGED <<asked, outcome, pending, running, current, disposed>>

\* process.send, with a result or an error
Reply(c) ==
  /\ child[c].alive /\ child[c].doing # None
  /\ child' = [child EXCEPT ![c].answers = Append(@, child[c].doing), ![c].doing = None]
  /\ UNCHANGED <<asked, outcome, pending, running, current, disposed, carried>>

\* A child ends: it was killed, it crashed, or it never came up.
Die(c) ==
  /\ child[c].alive
  /\ child' = [child EXCEPT ![c].alive = FALSE, ![c].inbox = <<>>, ![c].doing = None]
  /\ UNCHANGED <<asked, outcome, pending, running, current, disposed, carried>>

ClientNext ==
  \/ Ask \/ Timeout \/ Dispose
  \/ \E r \in Request : Run(r)
  \/ \E c \in Children : Message(c) \/ Exit(c) \/ Execute(c) \/ Reply(c) \/ Die(c)

\* What waits gets its turn, timers fire, and a child that was killed ends.  Nothing
\* else is fair: neither children nor their answers, nor the calls of the desktop.
Killed(c) == c \in Children /\ child[c].killed /\ Die(c)

------------------------------------------------------------------------------
(* Properties.                                                              *)

\* A request is carried out at most once, whatever becomes of its child; one that is
\* answered was carried out, after all that were answered before it; and one
\* that was refused never reaches the database (HistoryHelperClient.request, run).
CarriedOnce ==
  /\ \A i, j \in DOMAIN carried : carried[i] = carried[j] => i = j
  /\ \A i, j \in DOMAIN carried :
       i < j /\ outcome[carried[i]] = "resolved" /\ outcome[carried[j]] = "resolved" => carried[i] < carried[j]
  /\ \A r \in 1..asked :
       /\ outcome[r] = "resolved" => \E i \in DOMAIN carried : carried[i] = r
       /\ outcome[r] = "refused" => \A i \in DOMAIN carried : carried[i] # r

\* "A failed worker is retried on the next request" (gui/history-client.ts:5): whatever
\* failed before, no place in the queue is lost, and the child that the next
\* request goes to is no killed one, nor has it anything else to do.
Recovers ==
  /\ pending = Cardinality({r \in 1..asked : outcome[r] = "pending"})
  /\ current # None =>
       /\ ~child[current].killed /\ ~disposed
       /\ running = None => child[current].inbox = <<>> /\ child[current].doing = None
                            /\ child[current].answers = <<>>
  /\ \A c \in Children : ~child[c].killed /\ child[c].alive => c = current

==============================================================================
