-------------------------- MODULE QuotaRefreshProofs --------------------------
(***************************************************************************)
(* The safety invariants of QuotaRefresh, proved for every choice of       *)
(* intervals, settings and reload calls.  The inductive invariant adds     *)
(* two facts to them: a query waits only behind a fetch in flight, and     *)
(* whoever is past reading the settings holds some.                        *)
(***************************************************************************)
EXTENDS QuotaRefresh, TLAPS

\* A fresh query waits behind the fetch in flight, never on its own.
QueueBehindFetch == queuedFresh => pending # 0

\* A task that has settings to install or to query with really has them.
TasksHaveSettings ==
  /\ \A t \in Task : stage[t] = "installing" => using[t] \in Settings
  /\ \A s \in Slot : stage[s] = "querying" => using[s] \in Settings

IInv ==
  /\ TypeOK
  /\ SingleFlight
  /\ Rearmed
  /\ ManualIsFresh
  /\ CurrentIsLatest
  /\ QueueBehindFetch
  /\ TasksHaveSettings

\* The longest interval is a number, beyond the longest backoff.
LEMMA LongestInterval == MaxInterval \in Nat /\ MaxInterval >= 90 /\ 0 \in 0..MaxInterval
BY DEF MaxInterval

\* The delay of an automatic refresh is at least its interval and in range.
LEMMA DelayInRange ==
  ASSUME NEW i \in 0..MaxInterval, NEW n \in 0..6
  PROVE  Delay(i, n) \in 0..MaxInterval /\ (i # 0 => Delay(i, n) # 0)
<1>1. Backoff(n) \in 0..90
  <2>1. CASE n = 0  BY <2>1 DEF Backoff
  <2>2. CASE n # 0
    <3>1. n \in {1, 2, 3, 4, 5, 6}  BY <2>2
    <3> QED  BY <2>2, <3>1 DEF Backoff
  <2> QED  BY <2>1, <2>2
<1>2. i \in Nat /\ i <= MaxInterval  OBVIOUS
<1> QED  BY <1>1, <1>2, LongestInterval DEF Delay

\* normalizeGuiRefreshInterval returns an interval in range, whatever it is given.
LEMMA NormalizedInRange ==
  ASSUME NEW i \in Int
  PROVE  Normalized(i) \in 0..MaxInterval
BY LongestInterval DEF Normalized, MinInterval, DefaultInterval

\* At launch nothing is scheduled, in flight or on display.
LEMMA InitInv == Init => IInv
<1> SUFFICES ASSUME Init PROVE IInv  OBVIOUS
<1>1. TypeOK
  <2>1. /\ interval \in 0..MaxInterval /\ timer \in 0..MaxInterval
        /\ pending \in Slot \cup {0} /\ failures \in 0..6
    BY RefreshAssumption, LongestInterval DEF Init
  <2>2. /\ stage \in [Task -> Stage] /\ using \in [Task -> Settings \cup {None}]
    BY DEF Init, Stage
  <2> QED  BY <2>1, <2>2, RefreshAssumption DEF Init, TypeOK
<1>2. SingleFlight /\ TasksHaveSettings  BY DEF Init, SingleFlight, TasksHaveSettings, Slot, Task
<1>3. Rearmed /\ ManualIsFresh /\ CurrentIsLatest /\ QueueBehindFetch
  BY DEF Init, Rearmed, On, ManualIsFresh, CurrentIsLatest, QueueBehindFetch
<1> QED  BY <1>1, <1>2, <1>3 DEF IInv

\* run(fresh), with no fetch in flight or in place of the one that settles.
LEMMA RunKeeps ==
  ASSUME IInv, NEW s \in Slot, NEW fresh \in BOOLEAN, RunIn(s, fresh),
         pending = 0 \/ pending = s
  PROVE  /\ timer' = 0 /\ pending' = s /\ pendingFresh' = fresh
         /\ pending' \in Slot /\ pending' # 0
         /\ stage' \in [Task -> Stage]
         /\ using' \in [Task -> Settings \cup {None}]
         /\ SingleFlight'
         /\ \A t \in Task : stage'[t] = "installing" => using'[t] \in Settings
         /\ \A r \in Slot : stage'[r] = "querying" => using'[r] \in Settings
BY RefreshAssumption
DEF IInv, RunIn, TypeOK, SingleFlight, TasksHaveSettings, Slot, Task, Stage

\* refresh(fresh) starts a fetch or joins the one in flight.
LEMMA RefreshKeeps ==
  ASSUME IInv, NEW fresh \in BOOLEAN, Refresh(fresh)
  PROVE  /\ timer' = 0
         /\ pending' \in Slot /\ pending' # 0
         /\ pendingFresh' \in BOOLEAN /\ queuedFresh' \in BOOLEAN
         /\ stage' \in [Task -> Stage]
         /\ using' \in [Task -> Settings \cup {None}]
         /\ SingleFlight'
         /\ \A t \in Task : stage'[t] = "installing" => using'[t] \in Settings
         /\ \A r \in Slot : stage'[r] = "querying" => using'[r] \in Settings
         /\ pending # 0 => (pendingFresh' = pendingFresh /\ (queuedFresh => queuedFresh'))
         /\ pending # 0 /\ fresh => (pendingFresh \/ queuedFresh')
         /\ pending = 0 => pendingFresh' = fresh
<1>1. CASE pending = 0
  <2>1. PICK s \in Free : RunIn(s, fresh)  BY <1>1 DEF Refresh, Run
  <2>2. s \in Slot  BY <2>1 DEF Free
  <2> QED  BY <1>1, <2>1, <2>2, RunKeeps DEF Refresh, IInv, TypeOK
<1>2. CASE pending # 0
  BY <1>2 DEF Refresh, IInv, TypeOK, SingleFlight, TasksHaveSettings, Rearmed
<1> QED  BY <1>1, <1>2

\* A refresh that leaves the snapshot and the settings alone keeps the invariant.
LEMMA RefreshInv ==
  ASSUME IInv, NEW fresh \in BOOLEAN, Refresh(fresh),
         UNCHANGED <<interval, failures, snapshot, settings>>,
         active' \in BOOLEAN, suspended' \in BOOLEAN, disposed' \in BOOLEAN,
         \/ manual' = manual
         \/ fresh /\ manual' = IF pending = 0 \/ pendingFresh THEN "pending" ELSE "queued"
  PROVE  IInv'
<1>1. TypeOK'
  <2>1. /\ timer' \in 0..MaxInterval /\ pending' \in Slot \cup {0}
        /\ pendingFresh' \in BOOLEAN /\ queuedFresh' \in BOOLEAN
        /\ stage' \in [Task -> Stage] /\ using' \in [Task -> Settings \cup {None}]
    BY RefreshKeeps, LongestInterval
  <2>2. manual' \in {"none", "pending", "queued"}  BY DEF IInv, TypeOK
  <2> QED  BY <2>1, <2>2 DEF IInv, TypeOK, snapshot, settings
<1>2. SingleFlight' /\ TasksHaveSettings'
  BY RefreshKeeps DEF TasksHaveSettings
<1>3. Rearmed' /\ QueueBehindFetch'
  BY RefreshKeeps DEF Rearmed, QueueBehindFetch
<1>4. ManualIsFresh'
  BY RefreshKeeps DEF IInv, ManualIsFresh, TypeOK
<1>5. CurrentIsLatest'
  BY DEF IInv, CurrentIsLatest, snapshot
<1> QED  BY <1>1, <1>2, <1>3, <1>4, <1>5 DEF IInv

\* Steps that leave the fetches alone.
LEMMA ScheduleInv ==
  ASSUME IInv,
         \/ Suspend \/ Dispose \/ EditSettings
         \/ \E i \in Requested : SetInterval(i)
  PROVE  IInv'
<1>1. CASE Suspend
  <2>1. TypeOK'
    <3>1. timer' \in 0..MaxInterval /\ suspended' \in BOOLEAN /\ disposed' \in BOOLEAN
          /\ active' \in BOOLEAN
      BY <1>1, LongestInterval DEF Suspend, IInv, TypeOK
    <3> QED  BY <1>1, <3>1 DEF Suspend, IInv, TypeOK, flight, snapshot, settings
  <2>2. SingleFlight' /\ Rearmed' /\ ManualIsFresh' /\ CurrentIsLatest' /\ QueueBehindFetch'
        /\ TasksHaveSettings'
    BY <1>1 DEF Suspend, IInv, SingleFlight, Rearmed, On, ManualIsFresh, CurrentIsLatest,
       QueueBehindFetch, TasksHaveSettings, flight, snapshot
  <2> QED  BY <2>1, <2>2 DEF IInv
<1>2. CASE Dispose
  <2>1. TypeOK'
    <3>1. timer' \in 0..MaxInterval /\ suspended' \in BOOLEAN /\ disposed' \in BOOLEAN
          /\ active' \in BOOLEAN
      BY <1>2, LongestInterval DEF Dispose, IInv, TypeOK
    <3> QED  BY <1>2, <3>1 DEF Dispose, IInv, TypeOK, flight, snapshot, settings
  <2>2. SingleFlight' /\ Rearmed' /\ ManualIsFresh' /\ CurrentIsLatest' /\ QueueBehindFetch'
        /\ TasksHaveSettings'
    BY <1>2 DEF Dispose, IInv, SingleFlight, Rearmed, On, ManualIsFresh, CurrentIsLatest,
       QueueBehindFetch, TasksHaveSettings, flight, snapshot
  <2> QED  BY <2>1, <2>2 DEF IInv
<1>3. CASE EditSettings
  BY <1>3 DEF EditSettings, IInv, TypeOK, SingleFlight, Rearmed, On, ManualIsFresh,
     CurrentIsLatest, QueueBehindFetch, TasksHaveSettings, schedule, flight, snapshot
<1>4. ASSUME NEW i \in Requested, SetInterval(i)
      PROVE  IInv'
  <2>1. interval' \in 0..MaxInterval
    BY <1>4, NormalizedInRange, RefreshAssumption DEF SetInterval
  <2>2. /\ timer' \in 0..MaxInterval
        /\ timer' # 0 => On' /\ pending' = 0
        /\ On' => (timer' # 0 \/ pending' # 0)
    <3>1. Delay(interval', failures) \in 0..MaxInterval
          /\ (interval' # 0 => Delay(interval', failures) # 0)
      BY <2>1, DelayInRange DEF IInv, TypeOK
    <3>2. timer' = IF pending = 0 /\ MayArm(interval') THEN Delay(interval', failures) ELSE 0
      BY <1>4 DEF SetInterval
    <3>3. MayArm(interval') <=> On'
      BY <1>4 DEF SetInterval, MayArm, On
    <3>4. pending' = pending  BY <1>4 DEF SetInterval, flight
    <3>5. CASE pending = 0 /\ MayArm(interval')
      <4>1. interval' # 0  BY <3>5 DEF MayArm
      <4> QED  BY <3>1, <3>2, <3>3, <3>4, <3>5, <4>1
    <3>6. CASE ~(pending = 0 /\ MayArm(interval'))
      BY <3>2, <3>3, <3>4, <3>6, LongestInterval
    <3> QED  BY <3>5, <3>6
  <2>3. TypeOK'
    BY <1>4, <2>1, <2>2 DEF SetInterval, IInv, TypeOK, flight, snapshot, settings
  <2>4. Rearmed'
    BY <2>2 DEF Rearmed
  <2>5. SingleFlight' /\ ManualIsFresh' /\ CurrentIsLatest' /\ QueueBehindFetch'
        /\ TasksHaveSettings'
    BY <1>4 DEF SetInterval, IInv, SingleFlight, ManualIsFresh, CurrentIsLatest,
       QueueBehindFetch, TasksHaveSettings, flight, snapshot
  <2> QED  BY <2>3, <2>4, <2>5 DEF IInv
<1> QED  BY <1>1, <1>2, <1>3, <1>4

\* Steps of a reload of the settings, by a fetch or by an IPC call.
LEMMA ReloadInv ==
  ASSUME IInv, NEW t \in Task,
         \/ ReadSettings(t) \/ InstallSettings(t)
         \/ t \in Reloader /\ RequestReload(t)
  PROVE  IInv'
<1>1. CASE ReadSettings(t)
  <2>1. TypeOK' /\ SingleFlight' /\ TasksHaveSettings'
    BY <1>1 DEF ReadSettings, IInv, TypeOK, SingleFlight, TasksHaveSettings, Stage, Slot,
       schedule, flight, snapshot, settings
  <2>2. Rearmed' /\ ManualIsFresh' /\ CurrentIsLatest' /\ QueueBehindFetch'
    BY <1>1 DEF ReadSettings, IInv, Rearmed, On, ManualIsFresh, CurrentIsLatest,
       QueueBehindFetch, schedule, flight, snapshot
  <2> QED  BY <2>1, <2>2 DEF IInv
<1>2. CASE InstallSettings(t)
  <2>1. TypeOK' /\ SingleFlight' /\ TasksHaveSettings'
    <3>1. using[t] \in Settings  BY <1>2 DEF InstallSettings, IInv, TasksHaveSettings
    <3>2. TypeOK'
      <4>1. /\ config' \in Settings
            /\ shown' \in Settings \cup {None}
            /\ stale' \in BOOLEAN /\ previous' \in BOOLEAN /\ latest' \in BOOLEAN
        BY <1>2, <3>1 DEF InstallSettings, IInv, TypeOK, snapshot
      <4>2. stage' \in [Task -> Stage]
        BY <1>2 DEF InstallSettings, IInv, TypeOK, Stage
      <4>3. using' \in [Task -> Settings \cup {None}]
        BY <1>2 DEF InstallSettings, IInv, TypeOK
      <4> QED  BY <1>2, <4>1, <4>2, <4>3 DEF InstallSettings, IInv, TypeOK, schedule, flight
    <3>3. SingleFlight'
      BY <1>2 DEF InstallSettings, IInv, TypeOK, SingleFlight, Slot, Task, flight
    <3>4. TasksHaveSettings'
      BY <1>2, <3>1 DEF InstallSettings, IInv, TypeOK, TasksHaveSettings, Slot, Task
    <3> QED  BY <3>2, <3>3, <3>4
  <2>2. Rearmed' /\ ManualIsFresh' /\ CurrentIsLatest' /\ QueueBehindFetch'
    BY <1>2 DEF InstallSettings, IInv, Rearmed, On, ManualIsFresh, CurrentIsLatest,
       QueueBehindFetch, schedule, flight, snapshot
  <2> QED  BY <2>1, <2>2 DEF IInv
<1>3. CASE t \in Reloader /\ RequestReload(t)
  <2>1. TypeOK' /\ SingleFlight' /\ TasksHaveSettings'
    BY <1>3, RefreshAssumption DEF RequestReload, IInv, TypeOK, SingleFlight, TasksHaveSettings,
       Stage, Slot, Task, schedule, flight, snapshot, settings
  <2>2. Rearmed' /\ ManualIsFresh' /\ CurrentIsLatest' /\ QueueBehindFetch'
    BY <1>3 DEF RequestReload, IInv, Rearmed, On, ManualIsFresh, CurrentIsLatest,
       QueueBehindFetch, schedule, flight, snapshot
  <2> QED  BY <2>1, <2>2 DEF IInv
<1> QED  BY <1>1, <1>2, <1>3

\* The settlement of the fetch in flight.
LEMMA SettleInv ==
  ASSUME IInv, NEW s \in Slot, NEW o \in Outcome, Settle(s, o)
  PROVE  IInv'
<1>1. pending = s /\ s # 0 /\ timer = 0
  BY DEF Settle, IInv, SingleFlight, Rearmed, Slot
<1>2. /\ stale' \in BOOLEAN /\ previous' \in BOOLEAN /\ latest' \in BOOLEAN
      /\ failures' \in 0..6
      /\ shown' \in Settings \cup {None}
      /\ CurrentIsLatest'
  <2>1. CASE disposed
    BY <2>1 DEF Settle, IInv, TypeOK, CurrentIsLatest, snapshot
  <2>2. CASE ~disposed
    <3>1. HasEntries(o) => using[s] \in Settings
      BY DEF Settle, HasEntries, IInv, TasksHaveSettings
    <3>2. Apply(s, o)  BY <2>2 DEF Settle
    <3>3. /\ stale' \in BOOLEAN /\ previous' \in BOOLEAN /\ latest' \in BOOLEAN
          /\ shown' \in Settings \cup {None}
      BY <3>1, <3>2 DEF Apply, Fails, HasEntries, IInv, TypeOK
    <3>4. failures' \in 0..6
      BY <3>2 DEF Apply, IInv, TypeOK
    <3>5. CurrentIsLatest'
      BY <3>1, <3>2, RefreshAssumption
      DEF Apply, Fails, HasEntries, CurrentIsLatest
    <3> QED  BY <3>3, <3>4, <3>5
  <2> QED  BY <2>1, <2>2
<1>3. CASE queuedFresh /\ ~disposed
  <2>1. RunIn(s, TRUE) /\ queuedFresh' = FALSE /\ manual' \in {"none", "pending"}
    BY <1>3 DEF Settle, Finish
  <2>2. /\ timer' = 0 /\ pending' = s /\ pendingFresh' = TRUE
        /\ stage' \in [Task -> Stage] /\ using' \in [Task -> Settings \cup {None}]
        /\ SingleFlight' /\ TasksHaveSettings'
    BY <1>1, <2>1, RunKeeps DEF TasksHaveSettings
  <2>3. TypeOK'
    <3>1. /\ timer' \in 0..MaxInterval /\ pending' \in Slot \cup {0}
          /\ pendingFresh' \in BOOLEAN /\ queuedFresh' \in BOOLEAN
          /\ manual' \in {"none", "pending", "queued"}
      BY <2>1, <2>2, LongestInterval
    <3> QED  BY <1>2, <2>2, <3>1 DEF Settle, IInv, TypeOK, schedule, settings
  <2>4. Rearmed' /\ ManualIsFresh' /\ QueueBehindFetch'
    BY <1>1, <2>1, <2>2 DEF Rearmed, ManualIsFresh, QueueBehindFetch
  <2> QED  BY <1>2, <2>2, <2>3, <2>4 DEF IInv
<1>4. CASE ~(queuedFresh /\ ~disposed)
  <2>1. /\ queuedFresh' = FALSE /\ pending' = 0 /\ manual' = "none"
        /\ pendingFresh' = pendingFresh
        /\ stage' = [stage EXCEPT ![s] = "none"]
        /\ using' = [using EXCEPT ![s] = None]
        /\ timer' = IF MayArm(interval) THEN Delay(interval, failures') ELSE timer
    BY <1>4 DEF Settle, Finish
  <2>2. /\ timer' \in 0..MaxInterval
        /\ timer' # 0 => On'
        /\ On' => timer' # 0
    <3>1. interval \in 0..MaxInterval /\ failures' \in 0..6
      BY <1>2 DEF IInv, TypeOK
    <3>2. Delay(interval, failures') \in 0..MaxInterval
          /\ (interval # 0 => Delay(interval, failures') # 0)
      BY <3>1, DelayInRange
    <3>3. MayArm(interval) <=> On'
      BY DEF Settle, MayArm, On, schedule
    <3>4. On' => interval # 0
      BY DEF Settle, On, schedule
    <3> QED  BY <1>1, <2>1, <3>2, <3>3, <3>4, LongestInterval
  <2>3. TypeOK'
    BY <1>2, <2>1, <2>2 DEF Settle, IInv, TypeOK, schedule, settings, Stage
  <2>4. SingleFlight' /\ TasksHaveSettings'
    BY <1>1, <2>1 DEF IInv, TypeOK, SingleFlight, TasksHaveSettings, Slot, Task
  <2>5. Rearmed' /\ ManualIsFresh' /\ QueueBehindFetch'
    BY <2>1, <2>2 DEF Rearmed, ManualIsFresh, QueueBehindFetch
  <2> QED  BY <1>2, <2>3, <2>4, <2>5 DEF IInv
<1> QED  BY <1>3, <1>4

\* Every step keeps the invariant.
LEMMA NextInv == IInv /\ [Next]_vars => IInv'
<1> SUFFICES ASSUME IInv, [Next]_vars PROVE IInv'  OBVIOUS
<1>1. CASE Start
  BY <1>1, RefreshInv DEF Start, IInv, TypeOK
<1>2. CASE RefreshCached
  BY <1>2, RefreshInv DEF RefreshCached, schedule, IInv, TypeOK
<1>3. CASE RefreshFresh
  BY <1>3, RefreshInv DEF RefreshFresh, schedule, IInv, TypeOK
<1>4. CASE TimerFires
  BY <1>4, RefreshInv DEF TimerFires, schedule, IInv, TypeOK
<1>5. CASE Resume
  <2>1. CASE disposed \/ ~suspended \/ ~active \/ interval = 0
    <3>1. /\ suspended' = FALSE
          /\ UNCHANGED <<timer, flight, stage, using>>
          /\ UNCHANGED <<active, disposed, interval, failures, snapshot, settings, manual>>
      BY <1>5, <2>1 DEF Resume
    <3>2. TypeOK'
      BY ZenonT(30), <3>1 DEF IInv, TypeOK, flight, snapshot, settings
    <3>3. On' => On
      BY <1>5, <2>1, <3>1 DEF Resume, On, IInv, TypeOK
    <3>4. Rearmed'
      BY <1>5, <2>1, <3>1, <3>3 DEF IInv, Rearmed, On, TypeOK, flight
    <3>5. SingleFlight' /\ ManualIsFresh' /\ CurrentIsLatest' /\ QueueBehindFetch'
          /\ TasksHaveSettings'
      BY <3>1 DEF IInv, SingleFlight, ManualIsFresh, CurrentIsLatest, QueueBehindFetch,
         TasksHaveSettings, flight, snapshot
    <3> QED  BY <3>2, <3>4, <3>5 DEF IInv
  <2>2. CASE ~(disposed \/ ~suspended \/ ~active \/ interval = 0)
    BY <1>5, <2>2, RefreshInv DEF Resume, IInv, TypeOK
  <2> QED  BY <2>1, <2>2
<1>6. CASE Suspend \/ Dispose \/ EditSettings \/ \E i \in Requested : SetInterval(i)
  BY <1>6, ScheduleInv
<1>7. ASSUME NEW r \in Reloader, RequestReload(r) \/ ReloadStep(r)
      PROVE  IInv'
  <2>1. r \in Task  BY DEF Task
  <2> QED  BY <1>7, <2>1, ReloadInv DEF ReloadStep
<1>8. ASSUME NEW s \in Slot, FetchStep(s)
      PROVE  IInv'
  <2>1. s \in Task  BY DEF Task
  <2> QED  BY <1>8, <2>1, ReloadInv, SettleInv DEF FetchStep
<1>9. CASE UNCHANGED vars
  BY <1>9 DEF vars, IInv, TypeOK, SingleFlight, Rearmed, On, ManualIsFresh, CurrentIsLatest,
     QueueBehindFetch, TasksHaveSettings, schedule, flight, snapshot, settings
<1> QED  BY <1>1, <1>2, <1>3, <1>4, <1>5, <1>6, <1>7, <1>8, <1>9 DEF Next

\* The invariant holds throughout, whatever events and settlements follow one
\* another in the main process.
THEOREM InductiveInvariant == Spec => []IInv
BY InitInv, NextInv, PTL DEF Spec

\* Every reachable state of the controller is well typed.
THEOREM TypeCorrect == Spec => []TypeOK
BY InductiveInvariant, PTL DEF IInv

\* The controller never has two provider queries in flight (run, refresh).
THEOREM OneQueryAtATime == Spec => []SingleFlight
BY InductiveInvariant, PTL DEF IInv

\* Automatic refresh is never lost and never doubled (schedule, clearTimer).
THEOREM AutomaticRefreshLives == Spec => []Rearmed
BY InductiveInvariant, PTL DEF IInv

\* There is one query or one timer while automatic refresh is on (schedule, run).
THEOREM AlwaysScheduled == Spec => []Scheduled
BY InductiveInvariant, PTL DEF IInv, Scheduled

\* Callers who asked for fresh data wait for a fresh query (queuedFresh).
THEOREM FreshMeansFresh == Spec => []ManualIsFresh
BY InductiveInvariant, PTL DEF IInv

\* Retained entries are never passed off as current (stale, previousObservation).
THEOREM CurrentMeansLatest == Spec => []CurrentIsLatest
BY InductiveInvariant, PTL DEF IInv
==============================================================================
