----------------------------- MODULE QuotaRefresh -----------------------------
(***************************************************************************)
(* The desktop app's QuotaRefreshController and the settings it fetches    *)
(* with (registerIpcHandlers of gui/main.ts): one main process, timers,    *)
(* power events, IPC calls and the awaits of a fetch interleaving.         *)
(*                                                                         *)
(* A turn of the event loop is atomic, its microtasks included: a fetch    *)
(* that settles, the schedule that follows and the queued fresh query that *)
(* was waiting for it are one step, because no caller continues from the   *)
(* controller's promises back into the controller.                         *)
(*                                                                         *)
(* Delays are in units of ten seconds.                                     *)
(***************************************************************************)
EXTENDS Integers, FiniteSets

CONSTANTS
  Requested,     \* refresh intervals the settings page may ask for
  InitInterval,  \* the interval of gui-config.json at launch
  Reloader,      \* config:quota-reload calls that may be under way together
  Settings,      \* contents the settings files may have
  InitSettings,  \* their content at launch
  None           \* no settings

Slot == {1, 2}             \* fetches in flight: room for one too many
Task == Slot \cup Reloader \* whoever may be reloading the settings

DefaultInterval == 30
MinInterval == 1
MaxInterval == 8640

\* normalizeGuiRefreshInterval: 0 is off, nonsense is the default.
Normalized(i) ==
  IF i = 0 THEN 0
  ELSE IF i < 0 THEN DefaultInterval
  ELSE IF i < MinInterval THEN MinInterval
  ELSE IF i > MaxInterval THEN MaxInterval ELSE i

ASSUME RefreshAssumption ==
  /\ Requested \subseteq Int
  /\ InitInterval \in 0..MaxInterval
  /\ Reloader \cap Slot = {}
  /\ InitSettings \in Settings
  /\ None \notin Settings

VARIABLES
  \* the controller
  active, suspended, disposed,
  interval,     \* state.refreshIntervalMs
  timer,        \* delay the timer was armed with, 0 without a timer
  pending,      \* the slot of the fetch behind this.pending, 0 for null
  pendingFresh,
  queuedFresh,  \* a fresh query waits for the pending fetch
  failures,     \* consecutive failures, 6 standing for 6 and more
  \* the snapshot it publishes
  shown,        \* settings the displayed entries were fetched with, or None
  stale,        \* state.stale
  previous,     \* state.previousObservation
  \* fetches and reloads under way
  stage,        \* what each task is doing
  using,        \* settings it has read or fetches with, or None
  config,       \* quotaConfig: the settings installed in the process
  file,         \* the settings on disk
  \* history
  manual,       \* where the caller of the latest fresh refresh waits
  latest        \* the displayed entries are the latest settled fetch's

schedule == <<active, suspended, disposed, interval>>
flight   == <<pending, pendingFresh, queuedFresh>>
snapshot == <<shown, stale, previous, latest>>
settings == <<config, file>>
vars == <<schedule, timer, flight, failures, snapshot, stage, using, settings, manual>>

Init ==
  /\ active = FALSE /\ suspended = FALSE /\ disposed = FALSE
  /\ interval = InitInterval
  /\ timer = 0
  /\ pending = 0 /\ pendingFresh = FALSE /\ queuedFresh = FALSE
  /\ failures = 0
  /\ shown = None /\ stale = FALSE /\ previous = FALSE /\ latest = FALSE
  /\ stage = [t \in Task |-> "none"]
  /\ using = [t \in Task |-> None]
  /\ config = InitSettings /\ file = InitSettings
  /\ manual = "none"

------------------------------------------------------------------------------
(* Scheduling.                                                             *)

Backoff(n) == IF n = 0 THEN 0 ELSE <<3, 6, 12, 24, 48, 90>>[n]

\* schedule() after n failures, with the interval i.
Delay(i, n) == IF i >= Backoff(n) THEN i ELSE Backoff(n)

\* Mutant: a suspended controller arms its timer, too.
MayArm_Suspended(i) == active /\ ~disposed /\ i # 0

\* Whether schedule() arms a timer at all.
MayArm(i) == active /\ ~suspended /\ ~disposed /\ i # 0

Free == {s \in Slot : stage[s] = "none"}

\* run(fresh): the timer is cleared and a fetch begins.  A fresh fetch reads
\* the settings again first, another one takes those that are installed.
RunIn(s, fresh) ==
  /\ timer' = 0
  /\ pending' = s
  /\ pendingFresh' = fresh
  /\ stage' = [stage EXCEPT ![s] = IF fresh THEN "reading" ELSE "querying"]
  /\ using' = [using EXCEPT ![s] = IF fresh THEN None ELSE config]

Run(fresh) == \E s \in Free : RunIn(s, fresh)

\* Mutant: a fresh request does not join the fetch in flight.
Refresh_FreshAtOnce(fresh) ==
  IF pending = 0 \/ (fresh /\ ~pendingFresh) THEN Run(fresh) /\ UNCHANGED queuedFresh
  ELSE UNCHANGED <<queuedFresh, timer, pending, pendingFresh, stage, using>>

\* Mutant: a fresh request is content with the cached fetch in flight.
Refresh_JoinAny(fresh) ==
  IF pending = 0 THEN Run(fresh) /\ UNCHANGED queuedFresh
  ELSE UNCHANGED <<queuedFresh, timer, pending, pendingFresh, stage, using>>

\* refresh(fresh), not disposed.
Refresh(fresh) ==
  IF pending = 0 THEN Run(fresh) /\ UNCHANGED queuedFresh
  ELSE /\ queuedFresh' = (queuedFresh \/ (fresh /\ ~pendingFresh))
       /\ UNCHANGED <<timer, pending, pendingFresh, stage, using>>

Start ==
  /\ ~disposed /\ ~active
  /\ active' = TRUE
  /\ Refresh(FALSE)
  /\ UNCHANGED <<suspended, disposed, interval, failures, snapshot, settings, manual>>

\* quota:fetch without bypassCache.
RefreshCached ==
  /\ ~disposed
  /\ Refresh(FALSE)
  /\ UNCHANGED <<schedule, failures, snapshot, settings, manual>>

\* quota:fetch with bypassCache, or "Refresh Quota" in the tray menu.
RefreshFresh ==
  /\ ~disposed
  /\ Refresh(TRUE)
  /\ manual' = IF pending = 0 \/ pendingFresh THEN "pending" ELSE "queued"
  /\ UNCHANGED <<schedule, failures, snapshot, settings>>

TimerFires ==
  /\ timer # 0
  /\ Refresh(FALSE)
  /\ UNCHANGED <<schedule, failures, snapshot, settings, manual>>

\* config:update and config:reset, whatever was updated.
SetInterval(i) ==
  /\ interval' = Normalized(i)
  /\ timer' = IF pending = 0 /\ MayArm(interval') THEN Delay(interval', failures) ELSE 0
  /\ UNCHANGED <<active, suspended, disposed, flight, failures, snapshot, stage, using,
                 settings, manual>>

Suspend ==
  /\ suspended' = TRUE
  /\ timer' = 0
  /\ UNCHANGED <<active, disposed, interval, flight, failures, snapshot, stage, using,
                 settings, manual>>

Resume ==
  /\ suspended' = FALSE
  /\ IF disposed \/ ~suspended \/ ~active \/ interval = 0
       THEN UNCHANGED <<timer, flight, stage, using>>
       ELSE Refresh(FALSE)
  /\ UNCHANGED <<active, disposed, interval, failures, snapshot, settings, manual>>

Dispose ==
  /\ disposed' = TRUE /\ active' = FALSE
  /\ timer' = 0
  /\ UNCHANGED <<suspended, interval, flight, failures, snapshot, stage, using, settings, manual>>

------------------------------------------------------------------------------
(* Settings and fetches.                                                   *)

EditSettings ==
  /\ file' \in Settings \ {file}
  /\ UNCHANGED <<schedule, timer, flight, failures, snapshot, stage, using, config, manual>>

\* config:quota-reload is called; a fresh fetch starts out in the same stage.
RequestReload(r) ==
  /\ stage[r] = "none"
  /\ stage' = [stage EXCEPT ![r] = "reading"]
  /\ UNCHANGED <<schedule, timer, flight, failures, snapshot, using, settings, manual>>

ReadSettings(t) ==
  /\ stage[t] = "reading"
  /\ stage' = [stage EXCEPT ![t] = "installing"]
  /\ using' = [using EXCEPT ![t] = file]
  /\ UNCHANGED <<schedule, timer, flight, failures, snapshot, settings, manual>>

\* The end of reloadQuotaConfig: other settings than the installed ones clear
\* the observation.  A fetch goes on with what it has loaded itself.
InstallSettings(t) ==
  /\ stage[t] = "installing"
  /\ config' = using[t]
  /\ IF using[t] = config THEN UNCHANGED snapshot
     ELSE shown' = None /\ stale' = FALSE /\ previous' = FALSE /\ latest' = FALSE
  /\ stage' = [stage EXCEPT ![t] = IF t \in Slot THEN "querying" ELSE "none"]
  /\ using' = [using EXCEPT ![t] = IF t \in Slot THEN @ ELSE None]
  /\ UNCHANGED <<schedule, timer, flight, failures, file, manual>>

\* What fetchAllQuota brings back: entries or not, with errors or not; nothing
\* at all when no provider is available; or it throws.
Outcome == {"complete", "partial", "errors", "unavailable", "detected", "thrown"}

HasEntries(o) == o \in {"complete", "partial"}

\* Whether the controller counts o as a failure.
Fails(o) == o \in {"partial", "errors", "thrown"} \/ (o = "unavailable" /\ shown # None)

\* Mutant: a query that throws leaves the marks of the snapshot alone.
Apply_ForgetThrown(s, o) ==
  /\ stale' = (Fails(o) /\ o # "thrown")
  /\ failures' = IF ~Fails(o) THEN 0 ELSE IF failures < 6 THEN failures + 1 ELSE 6
  /\ shown' = IF HasEntries(o) THEN using[s] ELSE IF Fails(o) THEN shown ELSE None
  /\ previous' = (Fails(o) /\ ~HasEntries(o) /\ shown # None)
  /\ latest' = HasEntries(o)

\* The settlement of slot s's fetch is applied to the snapshot.
Apply(s, o) ==
  /\ stale' = Fails(o)
  /\ failures' = IF ~Fails(o) THEN 0 ELSE IF failures < 6 THEN failures + 1 ELSE 6
  /\ shown' = IF HasEntries(o) THEN using[s] ELSE IF Fails(o) THEN shown ELSE None
  /\ previous' = (Fails(o) /\ ~HasEntries(o) /\ shown # None)
  /\ latest' = HasEntries(o)

\* Mutant: the queue is not emptied, what follows is another automatic fetch.
Finish_StillQueued(s) ==
  /\ UNCHANGED queuedFresh
  /\ IF queuedFresh /\ ~disposed
       THEN RunIn(s, FALSE) /\ UNCHANGED manual
       ELSE /\ pending' = 0
            /\ stage' = [stage EXCEPT ![s] = "none"]
            /\ using' = [using EXCEPT ![s] = None]
            /\ timer' = IF MayArm(interval) THEN Delay(interval, failures') ELSE timer
            /\ manual' = "none"
            /\ UNCHANGED pendingFresh

\* The pending fetch of slot s is over: the queued fresh query takes its place,
\* or else the next automatic refresh is scheduled.
Finish(s) ==
  /\ queuedFresh' = FALSE
  /\ IF queuedFresh /\ ~disposed
       THEN /\ RunIn(s, TRUE)
            /\ manual' = IF manual = "queued" THEN "pending" ELSE "none"
       ELSE /\ pending' = 0
            /\ stage' = [stage EXCEPT ![s] = "none"]
            /\ using' = [using EXCEPT ![s] = None]
            /\ timer' = IF MayArm(interval) THEN Delay(interval, failures') ELSE timer
            /\ manual' = "none"
            /\ UNCHANGED pendingFresh

Settle(s, o) ==
  /\ stage[s] = "querying" \/ (stage[s] = "reading" /\ o = "thrown")
  /\ IF disposed THEN UNCHANGED <<failures, snapshot>> ELSE Apply(s, o)
  /\ Finish(s)
  /\ UNCHANGED <<schedule, settings>>

------------------------------------------------------------------------------
FetchStep(s) ==
  \/ ReadSettings(s)
  \/ InstallSettings(s)
  \/ \E o \in Outcome : Settle(s, o)

ReloadStep(r) ==
  \/ ReadSettings(r)
  \/ InstallSettings(r)

Next ==
  \/ Start \/ RefreshCached \/ RefreshFresh \/ TimerFires
  \/ Suspend \/ Resume \/ Dispose
  \/ EditSettings
  \/ \E i \in Requested : SetInterval(i)
  \/ \E r \in Reloader : RequestReload(r) \/ ReloadStep(r)
  \/ \E s \in Slot : FetchStep(s)

Spec == Init /\ [][Next]_vars

\* Timers fire, files are read, and a fetch settles: each provider request, and
\* each request to the history helper behind it, is bounded by a timeout.
Fairness ==
  /\ WF_vars(TimerFires)
  /\ \A s \in Slot : WF_vars(FetchStep(s))
  /\ \A r \in Reloader : WF_vars(ReloadStep(r))

FairSpec == Spec /\ Fairness

------------------------------------------------------------------------------
(* Properties.                                                             *)

Stage == {"none", "reading", "installing", "querying"}

TypeOK ==
  /\ active \in BOOLEAN /\ suspended \in BOOLEAN /\ disposed \in BOOLEAN
  /\ interval \in 0..MaxInterval
  /\ timer \in 0..MaxInterval
  /\ pending \in Slot \cup {0} /\ pendingFresh \in BOOLEAN /\ queuedFresh \in BOOLEAN
  /\ failures \in 0..6
  /\ shown \in Settings \cup {None}
  /\ stale \in BOOLEAN /\ previous \in BOOLEAN /\ latest \in BOOLEAN
  /\ stage \in [Task -> Stage]
  /\ using \in [Task -> Settings \cup {None}]
  /\ config \in Settings /\ file \in Settings
  /\ manual \in {"none", "pending", "queued"}

\* Never two provider queries in flight, however timers, power events, manual
\* and queued refreshes meet: a slot in use is the pending one.
SingleFlight == \A s \in Slot : stage[s] # "none" <=> s = pending

\* Automatic refresh neither dies nor doubles: the running controller has a
\* fetch in flight or a timer that leads to one, never both; a stopped,
\* suspended or switched-off one has no timer left behind.
On == active /\ ~suspended /\ ~disposed /\ interval # 0
Rearmed ==
  /\ On => (timer # 0 \/ pending # 0)
  /\ timer # 0 => On /\ pending = 0

\* Automatic refresh has one query or one timer at a time, and is never without
\* both while it is on: across power events, changes of the interval, manual
\* refreshes and disposal in any order (schedule, run, clearTimer).
Scheduled == SingleFlight /\ Rearmed

\* A caller who asked for fresh data waits for a query that bypasses the cache,
\* the pending one or the queued one behind it.
ManualIsFresh ==
  /\ manual = "pending" => pending # 0 /\ pendingFresh
  /\ manual = "queued" => pending # 0 /\ queuedFresh

\* Entries are only shown as current when the latest fetch to settle brought
\* them; entries kept from an earlier one are marked as the previous observation.
CurrentIsLatest ==
  /\ shown # None /\ ~stale => latest
  /\ previous => stale /\ shown # None
  /\ shown # None /\ ~latest => previous

\* A caller of a fresh refresh gets an answer.
ManualIsAnswered == manual # "none" ~> manual = "none"

\* An observation that does not belong to the installed settings does not stay
\* on display as current while automatic refresh is on.
Mismatched == On /\ ~stale /\ shown \notin {None, config}
MismatchIsTransient == Mismatched ~> ~Mismatched

\* Whatever overlaps, the display catches up: with its callers and with its settings.
CatchesUp == ManualIsAnswered /\ MismatchIsTransient

\* "Explicit settings changes invalidate retained observations from old
\* settings": what is shown was fetched with the settings that are installed.
ObservationMatchesSettings == shown \in {None, config}
==============================================================================
