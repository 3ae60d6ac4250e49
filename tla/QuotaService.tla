------------------------------ MODULE QuotaService ------------------------------
(***************************************************************************)
(* What the cache of one provider's quota promises its callers, whatever   *)
(* memories, files and shared requests stand behind it: a store of         *)
(* observations per account, which may forget any of them at any time and  *)
(* learns one only when a call that fetches, for that account, makes it.   *)
(* Each call is bound once to an account, or to none, and answered once.   *)
(***************************************************************************)
EXTENDS Integers

CONSTANTS Call, Account, None, Nothing, TTL

VARIABLES
  clock,
  selected,   \* the account whose credential is configured
  stored,     \* of each account, the observations that may yet answer a call
  phase,      \* of each call: "idle", "asked", "bound", "done"
  kind,       \* "fetch", "bypass" or "read"
  account,    \* the account it is bound to, None when there is none
  now,        \* when it was bound
  answer      \* the observation it was answered with, Nothing for none

vars == <<clock, selected, stored, phase, kind, account, now, answer>>

\* What a call observes: the quota of its account, or, unattributed, of the one selected.
Made(c) == [account |-> IF account[c] # None THEN account[c] ELSE selected,
            label |-> account[c], by |-> c, at |-> clock]

\* What may answer a bound call: its own observation if it keeps apart from the store, or
\* one of its account; for a fetch, one that had not expired when the call was bound.
Apart(c) == kind[c] = "bypass" \/ account[c] = None
Permitted(c) ==
  IF Apart(c) THEN {Made(c)}
  ELSE {o \in stored[account[c]] : kind[c] = "fetch" => now[c] - o.at < TTL}

Forgets == \A a \in Account : stored'[a] \subseteq stored[a]

Init ==
  /\ clock = 0 /\ selected \in Account
  /\ stored = [a \in Account |-> {}]
  /\ phase = [c \in Call |-> "idle"] /\ kind = [c \in Call |-> "fetch"]
  /\ account = [c \in Call |-> None] /\ now = [c \in Call |-> 0]
  /\ answer = [c \in Call |-> Nothing]

------------------------------------------------------------------------------
Ask(c, k) ==
  /\ phase[c] = "idle" /\ phase' = [phase EXCEPT ![c] = "asked"]
  /\ kind' = [kind EXCEPT ![c] = k]
  /\ UNCHANGED <<clock, selected, stored, account, now, answer>>

\* A call is bound to the account selected at that moment, or to none; a read may be
\* answered at once, with whatever is stored.
Bind(c, a) ==
  /\ phase[c] = "asked" /\ a \in {selected, None}
  /\ account' = [account EXCEPT ![c] = a] /\ now' = [now EXCEPT ![c] = clock]
  /\ \/ phase' = [phase EXCEPT ![c] = "bound"] /\ UNCHANGED answer
     \/ /\ kind[c] = "read" /\ phase' = [phase EXCEPT ![c] = "done"]
        /\ \/ UNCHANGED answer
           \/ a # None /\ \E o \in stored[a] : answer' = [answer EXCEPT ![c] = o]
  /\ UNCHANGED <<clock, selected, stored, kind>>

\* A fetch observes the quota of its account.
Learn(c) ==
  /\ phase[c] = "bound" /\ kind[c] = "fetch" /\ ~Apart(c)
  /\ \A a \in Account : stored'[a] \subseteq IF a = account[c] THEN stored[a] \cup {Made(c)} ELSE stored[a]
  /\ UNCHANGED <<clock, selected, phase, kind, account, now, answer>>

\* Calls are answered, one or all that share a request, with an observation or with none.
Return(S) ==
  /\ \A c \in S : phase[c] = "bound" /\ (answer'[c] = Nothing \/ answer'[c] \in Permitted(c))
  /\ phase' = [c \in Call |-> IF c \in S THEN "done" ELSE phase[c]]
  /\ answer' = [c \in Call |-> IF c \in S THEN answer'[c] ELSE answer[c]]
  /\ Forgets
  /\ UNCHANGED <<clock, selected, kind, account, now>>

Forget == Forgets /\ UNCHANGED <<clock, selected, phase, kind, account, now, answer>>

Switch(a) == selected' = a /\ UNCHANGED <<clock, stored, phase, kind, account, now, answer>>

Tick == clock' = clock + 1 /\ UNCHANGED <<selected, stored, phase, kind, account, now, answer>>

Next ==
  \/ \E c \in Call : Learn(c) \/ (\E k \in {"fetch", "bypass", "read"} : Ask(c, k))
                     \/ \E a \in Account \cup {None} : Bind(c, a)
  \/ \E S \in SUBSET Call : Return(S)
  \/ Forget \/ Tick \/ \E a \in Account : Switch(a)

Spec == Init /\ [][Next]_vars
==============================================================================
