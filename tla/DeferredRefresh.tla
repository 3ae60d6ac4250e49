--------------------------- MODULE DeferredRefresh ---------------------------
(***************************************************************************)
(* The quota toast of one session of the plugin (plugin.ts) and the retry  *)
(* it defers when quota could not be read: lifecycle hooks and timers call *)
(* showQuotaToast, whose awaits interleave, and share the session's record *)
(* in deferredQuotaRefreshes.  Sessions share nothing but the              *)
(* configuration, so one is enough.                                        *)
(*                                                                         *)
(* A step is what runs between two awaits of I/O.  The count of attempts   *)
(* only picks the delay of the next timer (3, 15, 60 or 300 seconds) and   *)
(* is left out with it: a timer that is armed may fire at any time.        *)
(***************************************************************************)
EXTENDS Naturals, FiniteSets

CONSTANTS
  Hook,           \* lifecycle hooks that may be under way together
  Retry,          \* retries started by timers that may be under way together
  Environments    \* what may go wrong around them, of which one is chosen

Run == Hook \cup Retry

ASSUME DeferredAssumption ==
  /\ Hook \cap Retry = {}
  /\ Environments \subseteq [hooks : SUBSET Hook, loads : SUBSET {"on", "off", "failed"},
                            fetches : SUBSET {"rows", "none", "retry", "throws"}, slow : BOOLEAN]

VARIABLES
  environment, \* hooks called, how loading the configuration and collecting quota may end,
               \* and whether showing a toast may outlast the shortest delay
  config,    \* "unread" until loaded: the defaults hold, which are enabled
  loading,   \* configInFlight
  record,    \* the session's entry in deferredQuotaRefreshes
  timeouts,  \* timeouts of this session that the event loop holds
  run        \* where each call of showQuotaToast, or of its hook, is

vars == <<environment, config, loading, record, timeouts, run>>

NoRecord == [there |-> FALSE, inFlight |-> FALSE, timer |-> FALSE]

\* holds: its pendingDeferred is the record that is in the map.
NoRun == [pc |-> "idle", ready |-> FALSE, consumed |-> FALSE, holds |-> FALSE]

Waiting == {"hook", "toast", "render"}         \* awaiting refreshConfig
Stages == Waiting \cup {"idle", "recording", "probe", "fetch", "show"}

Init ==
  /\ environment \in Environments
  /\ config = "unread" /\ loading = FALSE
  /\ record = NoRecord /\ timeouts = 0
  /\ run = [r \in Run |-> NoRun]

\* r goes on to stage pc, what it holds unchanged.
To(r, pc) == [run EXCEPT ![r] =
  [pc |-> pc, ready |-> FALSE, consumed |-> run[r].consumed, holds |-> run[r].holds]]

\* await refreshConfig(), joining a load that is in flight.
Await(r, pc) ==
  /\ run' = To(r, pc)
  /\ loading' = TRUE

\* The timeouts left once clearTimeout ran on the record's handle.
Cancelled(rec, n) == IF rec.timer THEN n - 1 ELSE n

\* clearDeferredQuotaRefresh, r going on to stage pc.
Clear(r, pc) ==
  /\ record' = NoRecord
  /\ timeouts' = Cancelled(record, timeouts)
  /\ run' = [q \in Run |-> [To(r, pc)[q] EXCEPT !.holds = FALSE]]

\* scheduleDeferredQuotaRefresh: a new record or the present one, its timer
\* started over.
Schedule ==
  /\ record' = [there |-> TRUE, inFlight |-> record.inFlight, timer |-> TRUE]
  /\ timeouts' = Cancelled(record, timeouts) + 1

------------------------------------------------------------------------------
(* showQuotaToast. *)

\* Mutant: a hook does not mind a retry in flight.
Begin_NoSkip(r, rec, n) ==
  /\ run' = [run EXCEPT ![r] = [pc |-> "probe", ready |-> FALSE,
                                consumed |-> rec.there \/ r \in Retry, holds |-> rec.there]]
  /\ record' = [there |-> rec.there, inFlight |-> rec.there, timer |-> FALSE]
  /\ timeouts' = Cancelled(rec, n)

\* Take the record rec, n timeouts running, and ask whether the session is a
\* subagent's; a hook gives up when a retry is in flight.
Begin(r, rec, n) ==
  IF rec.inFlight /\ r \notin Retry
    THEN run' = [run EXCEPT ![r] = NoRun] /\ record' = rec /\ timeouts' = n
    ELSE /\ run' = [run EXCEPT ![r] = [pc |-> "probe", ready |-> FALSE,
                                       consumed |-> rec.there \/ r \in Retry, holds |-> rec.there]]
         /\ record' = [there |-> rec.there, inFlight |-> rec.there, timer |-> FALSE]
         /\ timeouts' = Cancelled(rec, n)

ShowToast(r, rec, n) ==
  IF config = "unread"
    THEN Await(r, "toast") /\ record' = rec /\ timeouts' = n
    ELSE Begin(r, rec, n) /\ UNCHANGED loading

\* The configuration was awaited; read or not, the toast goes on.
ToastReady(r) ==
  /\ run[r].pc = "toast" /\ run[r].ready
  /\ Begin(r, record, timeouts)
  /\ UNCHANGED <<config, loading>>

\* Mutant: a retry that failed is not scheduled again.
Reconcile_OneRetry(r, outcome) ==
  IF outcome = "retry" /\ ~run[r].consumed THEN Schedule /\ run' = To(r, "show")
  ELSE IF outcome = "retry" THEN run' = To(r, "show") /\ UNCHANGED <<record, timeouts>>
  ELSE IF record.there THEN Clear(r, "show")
  ELSE run' = To(r, "show") /\ UNCHANGED <<record, timeouts>>

\* reconcileDeferredQuotaRefresh, then the awaits that log or show.
Reconcile(r, outcome) ==
  IF outcome = "retry" THEN Schedule /\ run' = To(r, "show")
  ELSE IF record.there THEN Clear(r, "show")
  ELSE run' = To(r, "show") /\ UNCHANGED <<record, timeouts>>

\* Mutant: disabled is taken for not configured yet.
Collect_RetryDisabled(r) ==
  \/ config # "on" /\ Reconcile(r, "retry")
  \/ config = "on" /\ run' = To(r, "fetch") /\ UNCHANGED <<record, timeouts>>

\* fetchQuotaMessageResult once the configuration has been awaited or not.
Collect(r) ==
  \/ config = "unread" /\ Reconcile(r, "retry")
  \/ config = "off" /\ Reconcile(r, "none")
  \/ config = "on" /\ run' = To(r, "fetch") /\ UNCHANGED <<record, timeouts>>

\* A subagent's session gets no toast, and no retry either.
Subagent(r) ==
  /\ run[r].pc = "probe"
  /\ IF run[r].consumed
       THEN Clear(r, "show")
       ELSE run' = To(r, "show") /\ UNCHANGED <<record, timeouts>>
  /\ UNCHANGED <<config, loading>>

Primary(r) ==
  /\ run[r].pc = "probe"
  /\ IF config = "unread"
       THEN Await(r, "render") /\ UNCHANGED <<record, timeouts>>
       ELSE Collect(r) /\ UNCHANGED loading
  /\ UNCHANGED config

RenderReady(r) ==
  /\ run[r].pc = "render" /\ run[r].ready
  /\ Collect(r)
  /\ UNCHANGED <<config, loading>>

\* The finally block: the record, if it is still the one taken, is free.
Release(r) ==
  /\ run' = [run EXCEPT ![r] = NoRun]
  /\ record' = IF run[r].holds THEN [record EXCEPT !.inFlight = FALSE] ELSE record
  /\ UNCHANGED timeouts

\* Mutant: without finally, an exception leaves the record taken.
Settle_NoFinally(r, outcome) ==
  /\ run[r].pc = "fetch"
  /\ IF outcome = "throws"
       THEN run' = [run EXCEPT ![r] = NoRun] /\ UNCHANGED <<record, timeouts>>
       ELSE Reconcile(r, outcome)
  /\ UNCHANGED <<config, loading>>

Settle(r, outcome) ==
  /\ run[r].pc = "fetch"
  /\ IF outcome = "throws" THEN Release(r) ELSE Reconcile(r, outcome)
  /\ UNCHANGED <<config, loading>>

Finish(r) ==
  /\ run[r].pc = "show"
  /\ Release(r)
  /\ UNCHANGED <<config, loading>>

------------------------------------------------------------------------------
(* The callers: lifecycle hooks, timers, and the load they wait for. *)

\* A hook with the configuration at hand: a disabled plugin forgets the
\* retry, the question hook first records the completion, the others show.
HookGoesOn(r) ==
  IF config = "off"
    THEN Clear(r, "idle") /\ UNCHANGED loading
    ELSE \/ run' = To(r, "recording") /\ UNCHANGED <<loading, record, timeouts>>
         \/ ShowToast(r, record, timeouts)

Event(r) ==
  /\ run[r].pc = "idle"
  /\ IF config = "unread"
       THEN Await(r, "hook") /\ UNCHANGED <<record, timeouts>>
       ELSE HookGoesOn(r)
  /\ UNCHANGED config

HookReady(r) ==
  /\ run[r].pc = "hook" /\ run[r].ready
  /\ HookGoesOn(r)
  /\ UNCHANGED config

Recorded(r) ==
  /\ run[r].pc = "recording"
  /\ ShowToast(r, record, timeouts)
  /\ UNCHANGED config

\* refreshConfig ends, and everyone who awaited it may go on.
Load(outcome) ==
  /\ loading
  /\ loading' = FALSE
  /\ config' = IF outcome = "failed" THEN config ELSE outcome
  /\ run' = [r \in Run |->
       [run[r] EXCEPT !.ready = run[r].ready \/ run[r].pc \in Waiting]]
  /\ UNCHANGED <<record, timeouts>>

\* Mutant: without a configuration the timer starts over.
TimerFires_WaitForConfig ==
  /\ record.timer
  /\ IF record.inFlight \/ config = "unread"
       THEN UNCHANGED <<record, timeouts, loading, run>>
       ELSE \E r \in Retry : run[r].pc = "idle"
                              /\ ShowToast(r, [record EXCEPT !.timer = FALSE], timeouts - 1)
  /\ UNCHANGED config

\* A timeout fires, the record's own or one it has lost sight of:
\* runDeferredQuotaRefresh does nothing while a retry is in flight.
TimerFires ==
  /\ environment.slow \/ \A r \in Run : ~(run[r].holds /\ run[r].pc = "show")
  /\ \E own \in {t \in BOOLEAN : IF t THEN record.timer ELSE Cancelled(record, timeouts) > 0} :
       LET rec == [record EXCEPT !.timer = @ /\ ~own]
       IN IF rec.there /\ ~rec.inFlight
            THEN \E r \in Retry : run[r].pc = "idle" /\ ShowToast(r, rec, timeouts - 1)
            ELSE record' = rec /\ timeouts' = timeouts - 1 /\ UNCHANGED <<loading, run>>
  /\ UNCHANGED config

\* The continuations of an awaited load run before any other event.
Resumes(r) == ToastReady(r) \/ RenderReady(r) \/ HookReady(r)

Quiet == \A r \in Run : ~run[r].ready

Answered(r) ==
  /\ Quiet
  /\ \/ Recorded(r) \/ Subagent(r) \/ Primary(r) \/ Finish(r)
     \/ \E o \in environment.fetches : Settle(r, o)

LoadEnds == Quiet /\ \E o \in environment.loads : Load(o)

Next ==
  /\ \/ \E r \in Run : Resumes(r) \/ Answered(r)
     \/ Quiet /\ \E r \in environment.hooks : Event(r)
     \/ LoadEnds
     \/ Quiet /\ TimerFires
  /\ UNCHANGED environment

Spec == Init /\ [][Next]_vars

\* Awaited calls end and timers fire; no event needs to happen.
FairSpec ==
  /\ Spec
  /\ \A r \in Run : WF_vars(Resumes(r) /\ UNCHANGED environment) /\ WF_vars(Answered(r) /\ UNCHANGED environment)
  /\ WF_vars(LoadEnds /\ UNCHANGED environment)
  /\ WF_vars(Quiet /\ TimerFires /\ UNCHANGED environment)

------------------------------------------------------------------------------
(* Properties. *)

RunType == [pc : Stages, ready : BOOLEAN, consumed : BOOLEAN, holds : BOOLEAN]

\* Type correctness; timeouts are counted, never below none.
StateTypeOK ==
  /\ config \in {"unread", "on", "off"}
  /\ loading \in BOOLEAN
  /\ record \in [there : BOOLEAN, inFlight : BOOLEAN, timer : BOOLEAN]
  /\ timeouts \in Nat
  /\ run \in [Run -> RunType]
TypeOK == environment \in Environments /\ StateTypeOK

\* The event loop never holds a timeout of the session but the one its record
\* can cancel: whatever overlaps, no stray timer is left behind to show a
\* toast that was called off (clearDeferredQuotaRefresh, -Timer, schedule).
OneTimer == timeouts = IF record.timer THEN 1 ELSE 0

\* A record marked in flight has a call of showQuotaToast at work on it.  A
\* mark left behind (by an exception, or by a record that was replaced) would
\* make every later hook skip its toast and every timer return, for good.
InFlightIsReal ==
  record.inFlight => \E r \in Run : run[r].holds

\* A record has a timer to come, or a call that will reconcile it.
RetryKept ==
  record.there =>
    \/ record.timer
    \/ \E r \in Run : run[r].holds /\ run[r].pc \in {"probe", "render", "fetch"}
    \/ \E r \in Retry : run[r].pc = "toast"

\* Where nothing throws, and a toast is shown before the next timer is due, a deferred
\* retry is never dropped, also when the configuration cannot be read.
Gentle == "throws" \notin environment.fetches /\ ~environment.slow
Kept == Gentle => RetryKept

\* A deferred retry is consumed by one call at a time: the next lifecycle
\* toast or the timer, not both.
OneConsumer ==
  \A q, r \in Run : run[q].holds /\ run[r].holds => q = r

\* One that is marked in flight has a call at work on it, and where the configuration can
\* be read just one, whatever throws and however slow the toasts are.
Readable == "failed" \notin environment.loads
ConsumedByOne == InFlightIsReal /\ (Readable => OneConsumer)

\* A deferred retry is eventually attempted, or called off.
PendingIsRetried ==
  Gentle /\ record.there ~> (~record.there \/ \E r \in Run : run[r].holds)

\* Once the plugin is known to be disabled, its deferred retry goes away for
\* good, although calls that began before may still be under way.
DisabledQuiets == Gentle /\ config = "off" ~> [](~record.there)

\* A deferred retry ends: attempted or called off, and for good in a disabled plugin.
RetriesEnd == PendingIsRetried /\ DisabledQuiets
==============================================================================
