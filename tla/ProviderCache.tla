----------------------------- MODULE ProviderCache -----------------------------
(***************************************************************************)
(* quota-state.ts: the cache of one provider's quota, shared by all        *)
(* surfaces of a process through memory and by all processes through one   *)
(* file per account.  A call resolves the account that is signed in,       *)
(* freezes its credential, and answers from memory, from the probe some    *)
(* other call has under way, from the file, or from a probe of its own.    *)
(*                                                                         *)
(* Every await of the code ends a step here.  An observation is abstracted *)
(* to the account probed, the account it is labelled with, the call that   *)
(* made it and the time at which it was made.                              *)
(***************************************************************************)
EXTENDS Integers

CONSTANTS
  Process,    \* processes with an in-memory cache each
  Slot,       \* calls of each process
  Account,    \* accounts of the provider
  None,       \* no account, nobody
  TTL,        \* for how long an observation answers calls
  Horizon     \* bound of the clock

Call == Process \X Slot

ASSUME CacheAssumption ==
  /\ None \notin Account /\ None \notin Call
  /\ TTL \in Nat \ {0} /\ Horizon \in Nat

VARIABLES
  clock,      \* Date.now()
  selected,   \* the account whose credential is configured
  disk,       \* the file of each account in quota-provider-state
  memory,     \* inMemoryCache, per process and account
  flight,     \* inFlightByKey, per process and account: the call that probes
  stage,      \* what each call awaits
  kind,       \* fetch, bypass (bypassCache) or read (readCachedProviderResult)
  account,    \* identity of the credential it froze, None when unresolved
  now,        \* Date.now() as it took it
  seen,       \* the observation it read from the file or made
  answer      \* the observation it returned, Nothing for a failure or a miss

request == <<kind, account, now>>
vars == <<clock, selected, disk, memory, flight, stage, request, seen, answer>>

Observation ==
  [account : Account, label : Account \cup {None}, by : Call, at : 0..Horizon]
Nothing == [account |-> None, label |-> None, by |-> None, at |-> 0]

\* The file of another package version, or a damaged one.
Foreign == [account |-> None, label |-> None, by |-> None, at |-> -1]

Stage == {"idle", "preparing", "prepared", "looking", "joined", "reading", "discarding",
          "read", "probing", "saving", "clearing", "done"}

Init ==
  /\ clock = 0
  /\ selected \in Account
  /\ disk = [a \in Account |-> Nothing]
  /\ memory = [p \in Process |-> [a \in Account |-> Nothing]]
  /\ flight = [p \in Process |-> [a \in Account |-> None]]
  /\ stage = [c \in Call |-> "idle"]
  /\ kind = [c \in Call |-> "fetch"]
  /\ account = [c \in Call |-> None]
  /\ now = [c \in Call |-> 0]
  /\ seen = [c \in Call |-> Nothing]
  /\ answer = [c \in Call |-> Nothing]

Memory(c) == memory[c[1]][account[c]]
Flight(c) == flight[c[1]][account[c]]
Disk(c) == disk[account[c]]

Goto(c, s) == stage' = [stage EXCEPT ![c] = s]
Remember(c, o) == memory' = [memory EXCEPT ![c[1]] = [@ EXCEPT ![account[c]] = o]]
Fly(c, f) == flight' = [flight EXCEPT ![c[1]] = [@ EXCEPT ![account[c]] = f]]
Return(c, o) == Goto(c, "done") /\ answer' = [answer EXCEPT ![c] = o]

Fresh(c, o) == o # Nothing /\ now[c] - o.at < TTL

------------------------------------------------------------------------------
(* A call, up to its probe.                                                *)

Begin(c, k) ==
  /\ stage[c] = "idle"
  /\ kind' = [kind EXCEPT ![c] = k]
  /\ Goto(c, "preparing")
  /\ UNCHANGED <<clock, selected, disk, memory, flight, account, now, seen, answer>>

\* prepareCacheScope freezes the credential selected at that moment, or finds
\* no identity for it.  A cached-only read goes on to memory at once.
Prepare(c, a) ==
  /\ stage[c] = "preparing"
  /\ a \in {selected, None}
  /\ account' = [account EXCEPT ![c] = a]
  /\ now' = [now EXCEPT ![c] = clock]
  /\ IF kind[c] = "read"
       THEN LET found == IF a = None THEN Nothing ELSE memory[c[1]][a]
            IN  IF a = None \/ found # Nothing THEN Return(c, found)
                ELSE Goto(c, "reading") /\ UNCHANGED answer
       ELSE /\ Goto(c, IF kind[c] = "bypass" \/ a = None THEN "probing" ELSE "prepared")
            /\ UNCHANGED answer
  /\ UNCHANGED <<clock, selected, disk, memory, flight, kind, seen>>

\* Files a day old are removed; which ones are is left open.
Prune(c, old) ==
  /\ stage[c] = "prepared"
  /\ disk' = [a \in Account |-> IF a \in old THEN Nothing ELSE disk[a]]
  /\ Goto(c, "looking")
  /\ UNCHANGED <<clock, selected, memory, flight, request, seen, answer>>

Look(c) ==
  /\ stage[c] = "looking"
  /\ IF Fresh(c, Memory(c)) THEN Return(c, Memory(c))
     ELSE /\ Goto(c, IF Flight(c) # None THEN "joined" ELSE "reading")
          /\ UNCHANGED answer
  /\ UNCHANGED <<clock, selected, disk, memory, flight, request, seen>>

\* Mutant: expired files are used.
ReadFile_Expired(c) ==
  /\ stage[c] = "reading"
  /\ seen' = [seen EXCEPT ![c] = IF Disk(c) # Foreign THEN Disk(c) ELSE Nothing]
  /\ Goto(c, IF Disk(c) = Foreign THEN "discarding" ELSE "read")
  /\ UNCHANGED <<clock, selected, disk, memory, flight, request, answer>>

\* readPersistedQuotaProviderCacheEntry; cached-only reads ignore the expiry.
ReadFile(c) ==
  /\ stage[c] = "reading"
  /\ seen' = [seen EXCEPT ![c] =
                IF Disk(c) # Foreign /\ (kind[c] = "read" \/ Fresh(c, Disk(c)))
                  THEN Disk(c) ELSE Nothing]
  /\ Goto(c, IF Disk(c) = Foreign THEN "discarding" ELSE "read")
  /\ UNCHANGED <<clock, selected, disk, memory, flight, request, answer>>

\* Whatever has replaced the invalid file since is removed with it.
Discard(c) ==
  /\ stage[c] = "discarding"
  /\ disk' = [disk EXCEPT ![account[c]] = Nothing]
  /\ Goto(c, "read")
  /\ UNCHANGED <<clock, selected, memory, flight, request, seen, answer>>

\* What was read becomes the memory's.
UseFile(c) ==
  /\ stage[c] = "read"
  /\ seen[c] # Nothing
  /\ Remember(c, seen[c])
  /\ Return(c, seen[c])
  /\ UNCHANGED <<clock, selected, disk, flight, request, seen>>

\* Mutant: work published during the read of the file is overlooked.
Miss_NoRecheck(c) ==
  /\ stage[c] = "read"
  /\ seen[c] = Nothing
  /\ \/ kind[c] = "read" /\ Return(c, Nothing) /\ UNCHANGED flight
     \/ /\ kind[c] = "fetch"
        /\ Goto(c, "probing") /\ Fly(c, c) /\ UNCHANGED answer
  /\ UNCHANGED <<clock, selected, disk, memory, request, seen>>

\* Another call may have published pending work while the file was awaited.
Miss(c) ==
  /\ stage[c] = "read"
  /\ seen[c] = Nothing
  /\ \/ kind[c] = "read" /\ Return(c, Nothing) /\ UNCHANGED flight
     \/ /\ kind[c] = "fetch" /\ Flight(c) # None
        /\ Goto(c, "joined") /\ UNCHANGED <<flight, answer>>
     \/ /\ kind[c] = "fetch" /\ Flight(c) = None
        /\ Goto(c, "probing") /\ Fly(c, c) /\ UNCHANGED answer
  /\ UNCHANGED <<clock, selected, disk, memory, request, seen>>

------------------------------------------------------------------------------
(* The probe.                                                              *)

Cached(c) == kind[c] = "fetch" /\ account[c] # None

\* The call settles, and with it everybody who awaits the same promise.
Awaiting(c) ==
  {d \in Call : stage[d] = "joined" /\ d[1] = c[1] /\ account[d] = account[c]}

\* Mutant: pending work is not withdrawn when it fails.
Fail_KeepFlight(c) ==
  /\ stage[c] = "probing"
  /\ stage' = [d \in Call |->
               IF d = c \/ (Cached(c) /\ d \in Awaiting(c)) THEN "done" ELSE stage[d]]
  /\ UNCHANGED <<clock, selected, disk, memory, flight, request, seen, answer>>

\* The request fails or yields nothing but errors: what is cached stays.
Fail(c) ==
  /\ stage[c] = "probing"
  /\ stage' = [d \in Call |->
               IF d = c \/ (Cached(c) /\ d \in Awaiting(c)) THEN "done" ELSE stage[d]]
  /\ IF Cached(c) THEN Fly(c, None) ELSE UNCHANGED flight
  /\ UNCHANGED <<clock, selected, disk, memory, request, seen, answer>>

\* Mutant: the request resolves the credential again.
Probed_Again(c) == selected

\* The credential frozen with the identity makes the request; without one the
\* provider takes whatever is selected, and the result is not attributed.
Probed(c) == IF account[c] # None THEN account[c] ELSE selected

Observed(c) == [account |-> Probed(c), label |-> account[c], by |-> c, at |-> clock]

Observe(c) ==
  /\ stage[c] = "probing"
  /\ IF Cached(c)
       THEN /\ seen' = [seen EXCEPT ![c] = Observed(c)]
            /\ Remember(c, Observed(c))
            /\ Goto(c, "saving")
            /\ UNCHANGED answer
       ELSE Return(c, Observed(c)) /\ UNCHANGED <<memory, seen>>
  /\ UNCHANGED <<clock, selected, disk, flight, request>>

\* Nothing was attempted: the account is no longer configured there.
NotAttempted(c) ==
  /\ stage[c] = "probing"
  /\ Cached(c)
  /\ Remember(c, Nothing)
  /\ Goto(c, "clearing")
  /\ UNCHANGED <<clock, selected, disk, flight, request, seen, answer>>

\* Writing or removing the file succeeds or not; then the promise settles.
Settle(c) ==
  /\ stage[c] \in {"saving", "clearing"}
  /\ \/ UNCHANGED disk
     \/ disk' = [disk EXCEPT ![account[c]] = IF stage[c] = "saving" THEN seen[c] ELSE Nothing]
  /\ Fly(c, None)
  /\ LET told == {c} \cup Awaiting(c)
     IN  /\ stage' = [d \in Call |-> IF d \in told THEN "done" ELSE stage[d]]
         /\ answer' = [d \in Call |-> IF d \in told /\ stage[c] = "saving"
                                        THEN seen[c] ELSE answer[d]]
  /\ UNCHANGED <<clock, selected, memory, request, seen>>

------------------------------------------------------------------------------
(* Around the calls.                                                       *)

SwitchAccount(a) ==
  /\ a # selected
  /\ selected' = a
  /\ UNCHANGED <<clock, disk, memory, flight, stage, request, seen, answer>>

\* A process of another package version writes the same file, or it is damaged.
Overwritten(a) ==
  /\ disk[a] # Foreign
  /\ disk' = [disk EXCEPT ![a] = Foreign]
  /\ UNCHANGED <<clock, selected, memory, flight, stage, request, seen, answer>>

\* A file is written in less time than an observation lasts.
Tick ==
  /\ clock < Horizon
  /\ \A c \in Call : stage[c] = "saving" => clock + 1 - seen[c].at < TTL
  /\ clock' = clock + 1
  /\ UNCHANGED <<selected, disk, memory, flight, stage, request, seen, answer>>

Step(c) ==
  \/ \E a \in Account \cup {None} : Prepare(c, a)
  \/ \E old \in SUBSET Account : Prune(c, old)
  \/ Look(c)
  \/ ReadFile(c) \/ Discard(c) \/ UseFile(c) \/ Miss(c)
  \/ Fail(c) \/ Observe(c) \/ NotAttempted(c) \/ Settle(c)

Next ==
  \/ \E c \in Call : Step(c) \/ \E k \in {"fetch", "bypass", "read"} : Begin(c, k)
  \/ \E a \in Account : SwitchAccount(a) \/ Overwritten(a)
  \/ Tick

Spec == Init /\ [][Next]_vars

\* Files and requests answer: every client of a provider has a timeout.
FairSpec == Spec /\ \A c \in Call : WF_vars(Step(c))

------------------------------------------------------------------------------
(* Properties.                                                             *)

TypeOK ==
  /\ clock \in 0..Horizon
  /\ selected \in Account
  /\ disk \in [Account -> Observation \cup {Nothing, Foreign}]
  /\ memory \in [Process -> [Account -> Observation \cup {Nothing}]]
  /\ flight \in [Process -> [Account -> Call \cup {None}]]
  /\ stage \in [Call -> Stage]
  /\ kind \in [Call -> {"fetch", "bypass", "read"}]
  /\ account \in [Call -> Account \cup {None}]
  /\ now \in [Call -> 0..Horizon]
  /\ seen \in [Call -> Observation \cup {Nothing}]
  /\ answer \in [Call -> Observation \cup {Nothing}]

\* Whatever accounts are switched to and fro meanwhile: a call that resolved an
\* account is answered with that account's quota, and no observation is
\* attributed to an account it was not made with.
RightAccount ==
  \A c \in Call : answer[c] # Nothing =>
    /\ account[c] # None => answer[c].account = account[c]
    /\ answer[c].label \in {None, answer[c].account}

\* Calls of one process for one account share their requests: while one that
\* uses the cache probes, no other does.
Coalesced ==
  \A c, d \in Call :
    /\ c[1] = d[1] /\ account[c] = account[d] /\ Cached(c) /\ Cached(d)
    /\ {stage[c], stage[d]} \subseteq {"probing", "saving", "clearing"}
    => c = d

\* Wherever it comes from, the observation that answers a fetch was not yet
\* expired when the fetch began.
FreshAnswers ==
  \A c \in Call : kind[c] = "fetch" /\ answer[c] # Nothing => Fresh(c, answer[c])

\* An explicit refresh is answered by its own request, and leaves the cache of
\* the others alone.
BypassIsApart ==
  \A c \in Call : kind[c] = "bypass" =>
    /\ answer[c] # Nothing => answer[c].by = c
    /\ \A d \in Call \ {c} : answer[d].by # c

\* What may still answer a call for an account: what its file and the memories hold, and
\* what a call has read of the file, or observed and not yet written.
Held(a) ==
  LET inHand == {c \in Call : stage[c] \in {"read", "saving"} /\ account[c] = a}
  IN  ({disk[a]} \cup {memory[p][a] : p \in Process} \cup {seen[c] : c \in inHand}) \ {Nothing, Foreign}

PhaseOf(s) == CASE s = "idle" -> "idle" [] s = "preparing" -> "asked" [] s = "done" -> "done" [] OTHER -> "bound"

Contract == INSTANCE QuotaService WITH
  stored <- [a \in Account |-> Held(a)], phase <- [c \in Call |-> PhaseOf(stage[c])]

\* The cache keeps the promise of QuotaService: every step is one it allows, or a stutter.
\* No answer is about another account than the one that was resolved, none to a fetch
\* had expired when it began, and what nobody holds any more is never answered again
\* (fetchQuotaProviderResult, readCachedProviderResult).
KeepsContract == Contract!Spec

\* Every call returns, whatever happens to the request it waits for.
CallsReturn == \A c \in Call : stage[c] # "idle" ~> stage[c] = "done"
==============================================================================
