---------------------------- MODULE ResetDetection ----------------------------
(***************************************************************************)
(* How quota resets are told from observations: the processes that use an  *)
(* account observe its quota, hand observations to one another through the *)
(* provider cache, and record them in the history database late, twice,    *)
(* out of order or never (lib/quota-state.ts observe, dashboard/api.ts     *)
(* captureSnapshot, dashboard/reset-events.ts recordResetTransition,       *)
(* lib/quota-reset-transition.ts).  What becomes of a pending event is     *)
(* ResetDelivery.                                                          *)
(*                                                                         *)
(* One quota window of one provider is modelled: series of other windows,  *)
(* rows and providers do not meet in any query.  Every observation has a   *)
(* percentage to show.  Time is in ticks; observations of one tick are of  *)
(* the same millisecond.                                                   *)
(***************************************************************************)
EXTENDS Integers, FiniteSets

CONSTANTS
  Account,        \* accounts that may be selected
  Unknown,        \* the identity of an account that cannot be identified
  Full,           \* what remains at the beginning of a period
  Lengths,        \* of the provider's periods
  Dated,          \* accounts whose answers say of when they are
  FreshFor,       \* 5 minutes: age of an observation that may tell of a reset
  RecentFor,      \* 24 hours: age of a reset that is still worth telling
  BaselineFor,    \* 30 days: age of the observation it is compared with
  MaxObservations, Horizon  \* bounds

ASSUME DetectionAssumption ==
  /\ Unknown \notin Account
  /\ Full \in Nat \ {0}
  /\ Lengths \subseteq Nat \ {0} /\ Lengths # {}
  /\ Dated \subseteq Account
  /\ FreshFor \in Nat /\ RecentFor \in Nat /\ BaselineFor \in Nat
  /\ MaxObservations \in Nat /\ Horizon \in Nat

VARIABLES
  \* the provider
  now,
  left,      \* what remains to each account
  ends,      \* when its current period ends
  answer,    \* what the provider answers of it, perhaps from earlier
  ended,     \* the periods that are over
  \* the processes
  observed,  \* the observations that were made
  \* the database
  journal,   \* accounting_observations
  snapshots, \* quota_snapshots
  events     \* reset_events

provider == <<now, left, ends, answer, ended>>
database == <<journal, snapshots, events>>
vars == <<provider, observed, database>>

Live(a) == [src |-> now, ends |-> ends[a], left |-> left[a]]

Init ==
  /\ now = 0
  /\ left \in [Account -> 0..Full]
  /\ ends \in [Account -> Lengths]
  /\ answer = [a \in Account |-> Live(a)]
  /\ ended = {}
  /\ observed = {}
  /\ journal = {} /\ snapshots = {} /\ events = {}

------------------------------------------------------------------------------
(* The provider: what remains may jump either way, periods of any of the   *)
(* Lengths end, and what is answered is brought up to date now and then.   *)

Ending(a) == ends[a] = now + 1

Tick ==
  /\ now < Horizon
  /\ now' = now + 1
  /\ \E length \in [Account -> Lengths] :
       ends' = [a \in Account |-> IF Ending(a) THEN now' + length[a] ELSE ends[a]]
  /\ left' \in [Account -> 0..Full]
  /\ ended' = ended \cup {<<a, now'>> : a \in {b \in Account : Ending(b)}}
  /\ \E current \in SUBSET Account :
       answer' = [a \in Account |-> IF a \in current THEN Live(a)' ELSE answer[a]]
  /\ UNCHANGED <<observed, database>>

------------------------------------------------------------------------------
(* fetchQuotaProviderResult: observe() gives the provider's answer an id,  *)
(* the time, and the identity of the prepared account, if it has one.      *)

Fetch(a, identity) ==
  /\ Cardinality(observed) < MaxObservations
  /\ \E reply \in {answer[a], Live(a)} :
       /\ answer' = [answer EXCEPT ![a] = reply]
       /\ observed' = observed \cup
            {[id |-> Cardinality(observed) + 1, account |-> identity, at |-> now,
              src |-> reply.src, ends |-> reply.ends, left |-> reply.left]}
  /\ UNCHANGED <<now, left, ends, ended, database>>

------------------------------------------------------------------------------
(* detectQuotaReset, recordResetTransition, captureSnapshot.               *)

\* Mutant: that there is more than before counts, boundary or not.
Confirmed_AnyRise(p, c) ==
  /\ p.account = c.account
  /\ c.at > p.at /\ now - p.at <= BaselineFor
  /\ c.ends > now /\ now - c.at <= FreshFor
  /\ p.left < Full /\ c.left > p.left

\* Whether the observations p and c, recorded now, confirm a reset.
Confirmed(p, c) ==
  /\ p.account = c.account
  /\ c.at > p.at /\ now - p.at <= BaselineFor
  /\ p.at <= p.ends /\ c.at >= p.ends /\ now - p.ends <= RecentFor
  /\ c.ends > p.ends /\ c.ends > now
  /\ now - c.at <= FreshFor
  /\ p.left < Full /\ c.left > p.left
  /\ c.account \in Dated => c.src >= p.ends /\ c.src > p.src

\* The event that p and c confirm; without the time its fields are its id.
Event(p, c) == [account |-> c.account, old |-> p.ends, new |-> c.ends, at |-> c.at]
SameId(e, f) == e.account = f.account /\ e.old = f.old /\ e.new = f.new

\* Mutant: the baseline is the latest observation that can be one.
Previous_Used(c) ==
  LET Used == {p \in journal : p.account = c.account /\ p.left < Full}
  IN {p \in Used : \A q \in Used : q.at <= p.at}

\* The latest recorded observations of the account: one, or those of one
\* millisecond, of which any may be the one that the query returns.
Previous(c) ==
  {p \in journal : p.account = c.account
                   /\ \A q \in journal : q.account = c.account => q.at <= p.at}

\* What recordResetTransition may insert for the new observation c.
Transitions(c) ==
  IF c.account = Unknown \/ Previous(c) = {} THEN {{}}
  ELSE {IF Confirmed(p, c) THEN {Event(p, c)} ELSE {} : p \in Previous(c)}

\* The first millisecond from t on that no snapshot of the provider has.
FirstFree(t) ==
  CHOOSE n \in t .. t + Cardinality(snapshots) :
    /\ \A s \in snapshots : s.key # n
    /\ \A m \in t .. n - 1 : \E s \in snapshots : s.key = m

\* The transaction of captureSnapshot: accounting rows with the events they
\* confirm, and the legacy snapshot; each only for an observation it has not.
\* Any process may call it, at any time after the observation, for one that
\* it made or was given by the cache; or never, or to no avail (ROLLBACK).
Record(c) ==
  /\ journal' = journal \cup {c}
  /\ \E new \in (IF c \in journal THEN {{}} ELSE Transitions(c)) :
       events' = events \cup {e \in new : \A f \in events : ~SameId(e, f)}
  /\ snapshots' = IF \E s \in snapshots : s.id = c.id THEN snapshots
                  ELSE snapshots \cup {[id |-> c.id, account |-> c.account, at |-> c.at,
                                        key |-> FirstFree(c.at)]}
  /\ UNCHANGED <<provider, observed>>

Next ==
  \/ Tick
  \/ \E a \in Account : \E identity \in {a, Unknown} : Fetch(a, identity)
  \/ \E c \in observed : Record(c)

Spec == Init /\ [][Next]_vars

------------------------------------------------------------------------------
(* What the history shows.                                                 *)

\* Mutant: the latest is the one with the latest key.
CurrentQuota_ByKey(identity) ==
  {s \in snapshots : s.account = identity
                     /\ \A r \in snapshots : r.account = identity => r.key <= s.key}

\* getCurrentQuota of an account.
CurrentQuota(identity) ==
  {s \in snapshots : s.account = identity
                     /\ \A r \in snapshots : r.account = identity =>
                          r.at < s.at \/ (r.at = s.at /\ r.key <= s.key)}

------------------------------------------------------------------------------
(* Properties.                                                             *)

Times == 0 .. Horizon
Observation == [id : 1..MaxObservations, account : Account \cup {Unknown}, at : Times,
                src : Times, ends : Nat, left : 0..Full]

\* Type correctness.
TypeOK ==
  /\ now \in Times
  /\ left \in [Account -> 0..Full] /\ ends \in [Account -> Nat]
  /\ answer \in [Account -> [src : Times, ends : Nat, left : 0..Full]]
  /\ observed \subseteq Observation
  /\ journal \subseteq observed
  /\ snapshots \subseteq [id : 1..MaxObservations, account : Account \cup {Unknown},
                           at : Times, key : Nat]
  /\ events \subseteq [account : Account, old : Nat, new : Nat, at : Times]
  /\ ended \subseteq Account \X Times

\* Whatever lags, comes late, jumps or is unidentified: an event names an
\* account and a period of it that is over ("Display text, account switches,
\* clocks alone and percentage jumps cannot prove reset").
EventsAreReal == \A e \in events : <<e.account, e.old>> \in ended

\* e announces the end of a period and the one after it, f a later one.  They
\* may share that one only if e was observed in the very millisecond in which
\* it began, by another process than saw it still to come.
Apart(e, f) == e.new <= f.old \/ f.old = e.at

\* However many processes observe a reset and in whatever order they record
\* it, it is announced once: "Concurrent plugin/GUI writers and restarts
\* record one event".
AnnouncedOnce ==
  \A e, f \in events : e.account = f.account /\ e # f => Apart(e, f) \/ Apart(f, e)

\* Where the provider's answers do not lag, the first observation recorded
\* after a boundary announces it, if it is recorded in time and shows more
\* than those before the boundary.
FirstSight ==
  [][\A c \in journal' \ journal, p \in journal :
       LET others == {x \in journal : x.account = c.account}
       IN /\ p \in others /\ c.account # Unknown
          /\ \A x \in others \cup {c} : x.src = x.at
          /\ c.at >= p.ends /\ \A x \in others : x.at < p.ends
          /\ \A x \in others : x.ends = p.ends => x.left < c.left
          /\ now < c.ends /\ now - c.at <= FreshFor
          /\ now - p.ends <= RecentFor /\ now - p.at <= BaselineFor
          => \E e \in events' : SameId(e, Event(p, c))]_vars

\* The quota shown as an account's current one is its newest observation, in
\* whatever order they were recorded.
NewestIsShown ==
  \A c \in journal : \E s \in CurrentQuota(c.account) : s.at >= c.at
==============================================================================
