---------------------------- MODULE ResetDelivery ----------------------------
(***************************************************************************)
(* Delivery of durable quota-reset notices: the reset_events and           *)
(* reset_delivery_consumers tables of the dashboard database, the desktop  *)
(* runtimes that reach them through their history helper, and the plugin   *)
(* captures that reach them in process.                                    *)
(*                                                                         *)
(* Each database operation is one SQLite statement or one BEGIN IMMEDIATE  *)
(* transaction, hence atomic; everything a process does between two of     *)
(* them interleaves freely with the others.                                *)
(*                                                                         *)
(* Times are kept relative to the wall clock, which only moves forward:    *)
(* leaseLeft is lease_until - now, adverts[d].left is available_until -    *)
(* now, age is now - observed_at and resetIn is reset_at - now.  A NULL    *)
(* lease_until is -1, a lease that has run out.                            *)
(***************************************************************************)
EXTENDS Integers, FiniteSets

CONSTANTS
  Event,          \* reset events (the journal's primary key)
  Window,         \* quota windows a user may watch: (providerId, windowId)
  WindowOf,       \* the window each event belongs to
  Desktop,        \* launches of the desktop app, each with its own consumerId
  Plugin,         \* plugin captures that may be under way at the same time
  NoJob,          \* "holds no claim"
  PreferDesktop,  \* resetNotifications.preferDesktop
  LeaseTime,      \* lease of a claim (leaseMs, 30 s by default)
  AdvertTime,     \* availability lease of a desktop (45 s)
  FreshTime,      \* age up to which an event may still be claimed (15 min)
  Horizon,        \* bound: how far in the future a new reset boundary may be
  MaxClaims,      \* bound: claims of one event
  MaxRetries,     \* bound: explicit retries of one event
  Reconfigured    \* bound: consumers whose settings change on the way

Consumer == Desktop \cup Plugin
Job == [event : Event, token : Nat]

ASSUME DeliveryAssumption ==
  /\ WindowOf \in [Event -> Window]
  /\ Desktop \cap Plugin = {}
  /\ NoJob \notin Job
  /\ PreferDesktop \in BOOLEAN
  /\ {LeaseTime, AdvertTime, FreshTime, Horizon} \subseteq Nat \ {0}
  /\ {MaxClaims, MaxRetries} \subseteq Nat
  /\ Reconfigured \subseteq Consumer

VARIABLES
  \* the dashboard database
  events,      \* reset_events
  adverts,     \* reset_delivery_consumers, by consumer
  \* the processes
  pc,          \* what each consumer is doing
  job,         \* the claim it holds: the event and its lease token
  plan,        \* windows a desktop tick was started with, {} to withdraw
  failed,      \* ResetNotificationRuntime.failed
  advertised,  \* ResetNotificationRuntime.advertised
  outcome,     \* outcome of the attempt that is being settled
  watched,     \* watched windows each consumer is configured with, {} = disabled
  \* history: what happened, read by no action but through the token number
  claims,      \* claims of each event so far; the next lease token is the next one
  seen,        \* tokens whose notice has appeared on a screen
  released,    \* tokens whose holder released the event by reporting failure
  retries,     \* explicit retries of each event
  denied       \* a desktop's attempt failed and the user has not spoken since

db      == <<events, adverts, claims, released>>
runtime == <<plan, failed, advertised, outcome>>
vars    == <<db, pc, job, runtime, watched, seen, retries, denied>>

State == {"absent", "pending", "delivering", "delivered", "uncertain"}
Row == [state     : State,
        age       : 0..(FreshTime + 1),
        resetIn   : 0..Horizon,
        leaseLeft : -1..LeaseTime,
        owner     : Nat,
        channel   : {"none", "desktop", "plugin"}]

ChannelOf(c) == IF c \in Desktop THEN "desktop" ELSE "plugin"

JournalTypeOK ==
  /\ events \in [Event -> Row]
  /\ adverts \in [Desktop -> [watched : SUBSET Window, left : 0..AdvertTime]]
  /\ claims \in [Event -> Nat]
  /\ seen \in [Event -> SUBSET Nat]
  /\ released \in [Event -> SUBSET Nat]
  /\ retries \in [Event -> Nat]

ProcessTypeOK ==
  /\ pc \in [Consumer -> {"idle", "advertising", "claiming", "delivering",
                          "settling", "withdrawing", "dead"}]
  /\ job \in [Consumer -> Job \cup {NoJob}]
  /\ plan \in [Desktop -> SUBSET Window]
  /\ failed \in [Desktop -> BOOLEAN]
  /\ advertised \in [Desktop -> BOOLEAN]
  /\ outcome \in [Consumer -> {"none", "shown", "failed"}]
  /\ watched \in [Consumer -> SUBSET Window]
  /\ denied \in [Desktop -> BOOLEAN]

TypeOK == JournalTypeOK /\ ProcessTypeOK

Init ==
  /\ events = [e \in Event |-> [state |-> "absent", age |-> 0, resetIn |-> 0,
                                leaseLeft |-> -1, owner |-> 0, channel |-> "none"]]
  /\ adverts = [d \in Desktop |-> [watched |-> {}, left |-> 0]]
  /\ pc = [c \in Consumer |-> "idle"]
  /\ job = [c \in Consumer |-> NoJob]
  /\ plan = [d \in Desktop |-> {}]
  /\ failed = [d \in Desktop |-> FALSE]
  /\ advertised = [d \in Desktop |-> FALSE]
  /\ outcome = [c \in Consumer |-> "none"]
  /\ watched \in [Consumer -> SUBSET Window]
  /\ claims = [e \in Event |-> 0]
  /\ seen = [e \in Event |-> {}]
  /\ released = [e \in Event |-> {}]
  /\ retries = [e \in Event |-> 0]
  /\ denied = [d \in Desktop |-> FALSE]

------------------------------------------------------------------------------
(* The journal: one definition per SQL operation.                          *)

Fresh(e) == events[e].age <= FreshTime /\ events[e].resetIn > 0
Expired(row) == row.state = "delivering" /\ row.leaseLeft <= 0
\* What parseEvent reports for a row: an expired lease reads as uncertain.
Exposed(e) == IF Expired(events[e]) THEN "uncertain" ELSE events[e].state

ExpireLease(row) == IF Expired(row) THEN [row EXCEPT !.state = "uncertain"] ELSE row

\* Windows that some desktop advertises; a plugin that prefers them skips them.
Preferred == UNION {adverts[d].watched : d \in {x \in Desktop : adverts[x].left > 0}}

\* Mutant: an event that somebody else is delivering is claimed, too.
Claimable_Leased(c, windows) ==
  {e \in Event : /\ events[e].state = "pending" \/ (events[e].state = "delivering" /\ ~Expired(events[e]))
                 /\ Fresh(e)
                 /\ WindowOf[e] \in windows
                 /\ ~(c \in Plugin /\ PreferDesktop /\ WindowOf[e] \in Preferred)}

\* Mutant: the plugin does not look at the advertisements.
Claimable_NoDeferral(c, windows) ==
  {e \in Event : /\ events[e].state = "pending"
                 /\ Fresh(e)
                 /\ WindowOf[e] \in windows}

Claimable(c, windows) ==
  {e \in Event : /\ events[e].state = "pending"
                 /\ Fresh(e)
                 /\ WindowOf[e] \in windows
                 /\ ~(c \in Plugin /\ PreferDesktop /\ WindowOf[e] \in Preferred)}

Oldest(S) == {e \in S : \A f \in S : events[f].age <= events[e].age}

\* The part of claimResetEvents that leases e (its whole transaction).
LeaseEvent(c, e) ==
  /\ claims[e] < MaxClaims
  /\ claims' = [claims EXCEPT ![e] = @ + 1]
  /\ events' = [f \in Event |->
                  IF f = e THEN [events[e] EXCEPT !.state = "delivering",
                                                  !.owner = claims[e] + 1,
                                                  !.leaseLeft = LeaseTime]
                           ELSE ExpireLease(events[f])]
  /\ UNCHANGED <<adverts, released>>

\* The transaction of claimResetEvents when there is nothing to lease.
ExpireLeases ==
  /\ events' = [e \in Event |-> ExpireLease(events[e])]
  /\ UNCHANGED <<adverts, claims, released>>

\* Mutant: the lease's end is not compared.
HoldsLease_AnyTime(c) ==
  LET row == events[job[c].event]
  IN  row.state = "delivering" /\ row.owner = job[c].token

\* The row of c's claim still answers to c's token and its lease still runs.
HoldsLease(c) ==
  LET row == events[job[c].event]
  IN  row.state = "delivering" /\ row.owner = job[c].token /\ row.leaseLeft >= 0

\* Mutant: every settlement acknowledges.
SettleResetEvent_AlwaysDelivered(c) ==
  LET e == job[c].event
  IN  IF HoldsLease(c)
        THEN /\ events' = [events EXCEPT ![e] = [@ EXCEPT !.state = "delivered",
                                                          !.channel = ChannelOf(c),
                                                          !.owner = 0,
                                                          !.leaseLeft = -1]]
             /\ UNCHANGED <<adverts, claims, released>>
        ELSE UNCHANGED db

SettleResetEvent(c) ==
  LET e == job[c].event
      delivered == outcome[c] = "shown"
  IN  IF HoldsLease(c)
        THEN /\ events' = [events EXCEPT ![e] =
                              [@ EXCEPT !.state = IF delivered THEN "delivered" ELSE "pending",
                                        !.channel = IF delivered THEN ChannelOf(c) ELSE "none",
                                        !.owner = 0,
                                        !.leaseLeft = -1]]
             /\ released' = IF delivered THEN released
                            ELSE [released EXCEPT ![e] = @ \cup {job[c].token}]
             /\ UNCHANGED <<adverts, claims>>
        ELSE UNCHANGED db

\* Advertising also deletes the rows of others that have expired; left = 0 is
\* both a deleted and an expired row, for no reader tells them apart.
AdvertiseResetDesktop(d, windows) ==
  /\ adverts' = [adverts EXCEPT ![d] =
                   IF windows = {} THEN [watched |-> {}, left |-> 0]
                                   ELSE [watched |-> windows, left |-> AdvertTime]]
  /\ UNCHANGED <<events, claims, released>>

Retryable(e) ==
  /\ events[e].state = "uncertain" \/ Expired(events[e])
  /\ Fresh(e)

RetryUncertainReset(e) ==
  /\ events' = [events EXCEPT ![e] =
                   [@ EXCEPT !.state = "pending", !.owner = 0, !.leaseLeft = -1]]
  /\ retries' = [retries EXCEPT ![e] = @ + 1]
  /\ UNCHANGED <<adverts, claims, released>>

\* Consumer c drops its claim and the outcome of its attempt.
DropJob(c) ==
  /\ job' = [job EXCEPT ![c] = NoJob]
  /\ outcome' = [outcome EXCEPT ![c] = "none"]

\* The tick or capture of c ends.
EndTick(c) ==
  /\ pc' = [pc EXCEPT ![c] = "idle"]
  /\ DropJob(c)

------------------------------------------------------------------------------
(* The environment.                                                        *)

\* A confirmed boundary crossing journals a new event (recordResetTransition).
RecordReset(e, resetIn) ==
  /\ events[e].state = "absent"
  /\ events' = [events EXCEPT ![e] = [@ EXCEPT !.state = "pending", !.resetIn = resetIn]]
  /\ UNCHANGED <<adverts, pc, job, runtime, watched, claims, seen, released, retries, denied>>

\* A row one time unit later.  Ages past FreshTime and leases that have run out
\* are all alike, so both counters stop there.
Aged(row) ==
  [row EXCEPT !.age       = IF @ <= FreshTime THEN @ + 1 ELSE @,
              !.resetIn   = IF @ > 0 THEN @ - 1 ELSE @,
              !.leaseLeft = IF @ >= 0 THEN @ - 1 ELSE @]

\* The wall clock advances by one unit.
Tick ==
  /\ events' = [e \in Event |->
                  IF events[e].state = "absent" THEN events[e] ELSE Aged(events[e])]
  /\ adverts' = [d \in Desktop |->
       [adverts[d] EXCEPT !.left = IF @ > 0 THEN @ - 1 ELSE @]]
  /\ UNCHANGED <<pc, job, runtime, watched, claims, seen, released, retries, denied>>

\* Settings are reloaded; for a desktop this is also the user's retry of a
\* failed OS capability (resetCapability).
ReloadSettings(c, windows) ==
  /\ pc[c] # "dead"
  /\ watched' = [watched EXCEPT ![c] = windows]
  /\ failed' = [d \in Desktop |-> IF d = c THEN FALSE ELSE failed[d]]
  /\ denied' = [d \in Desktop |-> IF d = c THEN FALSE ELSE denied[d]]
  /\ UNCHANGED <<db, pc, job, plan, advertised, outcome, seen, retries>>

\* The process of c goes away.  A desktop launch is over for good (the next
\* launch is another consumer); a plugin's next capture has a consumerId of its
\* own anyway.
Stop(c) ==
  /\ pc[c] # "dead"
  /\ pc' = [pc EXCEPT ![c] = IF c \in Desktop THEN "dead" ELSE "idle"]
  /\ DropJob(c)
  /\ UNCHANGED <<db, plan, failed, advertised, watched, seen, retries, denied>>

------------------------------------------------------------------------------
(* Showing a notice and claiming one: both channels.                       *)

\* Consumer c, committed to windows, takes its lease and goes on to deliver.
TakeEvent(c, windows) ==
  \E e \in Oldest(Claimable(c, windows)) :
    /\ LeaseEvent(c, e)
    /\ job' = [job EXCEPT ![c] = [event |-> e, token |-> claims[e] + 1]]
    /\ pc' = [pc EXCEPT ![c] = "delivering"]
    /\ UNCHANGED <<runtime, watched, seen, retries, denied>>

\* The notice of c's claim appears.
Show(c) == seen' = [seen EXCEPT ![job[c].event] = @ \cup {job[c].token}]

\* The outcome of c's attempt is known and settled next.
Conclude(c, result) ==
  /\ outcome' = [outcome EXCEPT ![c] = result]
  /\ pc' = [pc EXCEPT ![c] = "settling"]
  /\ denied' = [d \in Desktop |-> denied[d] \/ (d = c /\ result = "failed")]
  /\ UNCHANGED <<db, job, plan, failed, advertised, watched, retries>>

\* Electron's "show" event, or a toast call that resolves without an error.
DeliverShown(c) ==
  /\ pc[c] = "delivering"
  /\ Show(c)
  /\ Conclude(c, "shown")

\* Electron's "failed" event or an exception; a toast call that is rejected or
\* resolves with an SDK error, which may happen after the toast appeared.
DeliverFailed(c) ==
  /\ pc[c] = "delivering"
  /\ (c \in Plugin /\ Show(c)) \/ UNCHANGED seen
  /\ Conclude(c, "failed")

------------------------------------------------------------------------------
(* ResetNotificationRuntime.                                               *)

\* Mutant: a failed desktop keeps advertising.
BeginTick_IgnoreFailure(d, supported) ==
  LET available == watched[d] # {} /\ supported
  IN  /\ pc[d] = "idle"
      /\ available \/ advertised[d]
      /\ plan' = [plan EXCEPT ![d] = IF available THEN watched[d] ELSE {}]
      /\ pc' = [pc EXCEPT ![d] = "advertising"]
      /\ UNCHANGED <<db, job, failed, advertised, outcome, watched, seen, retries, denied>>

\* tick(): configuration and capability are read once, before the first await.
BeginTick(d, supported) ==
  LET available == watched[d] # {} /\ ~failed[d] /\ supported
  IN  /\ pc[d] = "idle"
      /\ available \/ advertised[d]
      /\ plan' = [plan EXCEPT ![d] = IF available THEN watched[d] ELSE {}]
      /\ pc' = [pc EXCEPT ![d] = "advertising"]
      /\ UNCHANGED <<db, job, failed, advertised, outcome, watched, seen, retries, denied>>

Advertise(d) ==
  /\ pc[d] = "advertising"
  /\ AdvertiseResetDesktop(d, plan[d])
  /\ advertised' = [advertised EXCEPT ![d] = plan[d] # {}]
  /\ pc' = [pc EXCEPT ![d] = IF plan[d] = {} THEN "idle" ELSE "claiming"]
  /\ UNCHANGED <<job, plan, failed, outcome, watched, seen, retries, denied>>

ClaimDesktop(d) ==
  /\ pc[d] = "claiming"
  /\ TakeEvent(d, plan[d])

ClaimNothing(d) ==
  /\ pc[d] = "claiming"
  /\ Claimable(d, plan[d]) = {}
  /\ ExpireLeases
  /\ EndTick(d)
  /\ UNCHANGED <<plan, failed, advertised, watched, seen, retries, denied>>

\* Ten seconds without a "show" event, or the notice is closed: whether it
\* appeared is unknown, and nothing is settled.
DeliverUncertain(d) ==
  /\ pc[d] = "delivering"
  /\ Show(d) \/ UNCHANGED seen
  /\ EndTick(d)
  /\ UNCHANGED <<db, plan, failed, advertised, watched, retries, denied>>

\* After a failure the runtime marks itself failed and withdraws.
SettleDesktop(d) ==
  /\ pc[d] = "settling"
  /\ SettleResetEvent(d)
  /\ failed' = [failed EXCEPT ![d] = @ \/ outcome[d] = "failed"]
  /\ pc' = [pc EXCEPT ![d] = IF outcome[d] = "failed" THEN "withdrawing" ELSE "idle"]
  /\ DropJob(d)
  /\ UNCHANGED <<plan, advertised, watched, seen, retries, denied>>

Withdraw(d) ==
  /\ pc[d] = "withdrawing"
  /\ AdvertiseResetDesktop(d, {})
  /\ advertised' = [advertised EXCEPT ![d] = FALSE]
  /\ EndTick(d)
  /\ UNCHANGED <<plan, failed, watched, seen, retries, denied>>

\* The database work of the request that d is waiting for.
RequestedWork(d) ==
  \/ pc[d] = "advertising" /\ AdvertiseResetDesktop(d, plan[d])
  \/ pc[d] = "claiming" /\ \E e \in Oldest(Claimable(d, plan[d])) : LeaseEvent(d, e)
  \/ pc[d] = "settling" /\ SettleResetEvent(d)
  \/ pc[d] = "withdrawing" /\ AdvertiseResetDesktop(d, {})

\* The helper fails, times out after ten seconds or is killed: the request is
\* rejected and the tick ends, whether or not the helper had committed its work.
RequestFails(d) ==
  /\ pc[d] \in {"advertising", "claiming", "settling", "withdrawing"}
  /\ RequestedWork(d) \/ UNCHANGED db
  /\ EndTick(d)
  /\ UNCHANGED <<plan, failed, advertised, watched, seen, retries, denied>>

\* The user confirms a retry; the reply may get lost after the helper's commit.
Retry(d, e) ==
  /\ pc[d] # "dead"
  /\ Retryable(e)
  /\ retries[e] < MaxRetries
  /\ RetryUncertainReset(e)
  /\ failed' = [failed EXCEPT ![d] = FALSE] \/ UNCHANGED failed
  /\ denied' = [denied EXCEPT ![d] = FALSE]
  /\ UNCHANGED <<pc, job, plan, advertised, outcome, watched, seen>>

------------------------------------------------------------------------------
(* captureDashboardSnapshotsBestEffort: claim and settle are synchronous,  *)
(* only the toast in between is awaited.                                   *)

ClaimPlugin(p) ==
  /\ pc[p] = "idle"
  /\ TakeEvent(p, watched[p])

\* Settling may throw (a busy database): the capture gives up all the same.
SettlePlugin(p) ==
  /\ pc[p] = "settling"
  /\ SettleResetEvent(p) \/ UNCHANGED db
  /\ EndTick(p)
  /\ UNCHANGED <<plan, failed, advertised, watched, seen, retries, denied>>

------------------------------------------------------------------------------
DesktopStep(d) ==
  \/ \E supported \in BOOLEAN : BeginTick(d, supported)
  \/ Advertise(d)
  \/ ClaimDesktop(d)
  \/ ClaimNothing(d)
  \/ DeliverShown(d)
  \/ DeliverFailed(d)
  \/ DeliverUncertain(d)
  \/ SettleDesktop(d)
  \/ Withdraw(d)
  \/ RequestFails(d)

PluginStep(p) ==
  \/ ClaimPlugin(p)
  \/ DeliverShown(p)
  \/ DeliverFailed(p)
  \/ SettlePlugin(p)

Environment ==
  \/ \E e \in Event, resetIn \in 1..Horizon : RecordReset(e, resetIn)
  \/ \E c \in Reconfigured : \E windows \in SUBSET Window : ReloadSettings(c, windows)
  \/ \E c \in Consumer : Stop(c)
  \/ \E d \in Desktop, e \in Event : Retry(d, e)

Next ==
  \/ Tick
  \/ Environment
  \/ \E d \in Desktop : DesktopStep(d)
  \/ \E p \in Plugin : PluginStep(p)

Spec == Init /\ [][Next]_vars

\* The clock runs, a live desktop keeps ticking (its interval fires every 20 s
\* and every await of a tick is bounded), a toast call returns.
Fairness ==
  /\ WF_vars(Tick)
  /\ \A d \in Desktop : WF_vars(DesktopStep(d))
  /\ \A p \in Plugin : WF_vars(PluginStep(p))

FairSpec == Spec /\ Fairness

------------------------------------------------------------------------------
(* Properties.                                                             *)

\* Apart from attempts whose own holder reported failure, the notice of an event
\* appears at most once for its detection and once for every retry the user
\* asked for: leases, crashes, lost replies and late deliveries of competing
\* desktops and plugins never add another one (claimResetEvents,
\* settleResetEvent, retryUncertainReset together).
NoUnaskedDuplicate ==
  \A e \in Event : Cardinality(seen[e] \ released[e]) <= 1 + retries[e]

\* An event is marked delivered only by the attempt that holds it, and only
\* when that attempt's own notice appeared (settleResetEvent's token check).
DeliveredWasSeen ==
  \A e \in Event : events[e].state = "delivered" => claims[e] \in seen[e]

\* Once its lease has run out (or it was marked uncertain) an event stays as it
\* is until the user retries it: no late settlement marks it delivered or puts
\* it back for an automatic repeat.
LapsedLeaseStep(e) ==
  \/ events[e].state = "uncertain"
  \/ events[e].state = "delivering" /\ events[e].leaseLeft < 0
  => \/ events'[e].state \in {"uncertain", events[e].state}
     \/ retries'[e] > retries[e]

LapsedLeaseIsFinal == [][\A e \in Event : LapsedLeaseStep(e)]_vars

\* An acknowledged event stays acknowledged, through retries, crashes, restarts
\* and competing claims.
DeliveredIsFinal ==
  [][\A e \in Event : events[e].state = "delivered" => events'[e].state = "delivered"]_vars

\* A desktop that has advertised its windows and is about to claim is not
\* overtaken on them by a plugin while its advertisement lasts.
DesktopFirst ==
  [][\A p \in Plugin, d \in Desktop :
       (/\ PreferDesktop
        /\ pc[p] = "idle" /\ pc'[p] = "delivering"
        /\ pc[d] = "claiming" /\ adverts[d].left > 0)
       => WindowOf[job'[p].event] \notin plan[d]]_vars

\* A desktop that knows its channel failed stops standing in the plugin's way:
\* its advertisement is withdrawn or lapses, whatever requests fail meanwhile.
FailedDesktopYields ==
  \A d \in Desktop : failed[d] ~> (~failed[d] \/ adverts[d].left = 0)

\* "Do not repeatedly attempt a denied/unsupported channel": after an attempt
\* that failed, a desktop attempts nothing before the user reloads the settings
\* or retries an event.
NoAttemptAfterDenial ==
  [][\A d \in Desktop :
       denied[d] => pc'[d] # "delivering"]_vars

\* The journal as the history tab shows it, against what it promises.
Notice == INSTANCE ResetNotice WITH
  phase <- [e \in Event |-> Exposed(e)], attempts <- claims, allowed <- retries

\* The delivery machinery implements the promise of ResetNotice.
KeepsPromise == Notice!Spec
==============================================================================
