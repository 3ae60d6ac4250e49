------------------------ MODULE DeferredRefreshProofs ------------------------
(***************************************************************************)
(* The safety invariants of DeferredRefresh, proved for any number of      *)
(* hooks and retries.  IInv holds in every environment; Kept and           *)
(* ConsumedByOne say what more there is in a gentle and in a readable one, *)
(* and the latter needs a strengthening of its own, Single.                *)
(***************************************************************************)
EXTENDS DeferredRefresh, TLAPS

Working == {"probe", "render", "fetch", "show"}

RecordType == [there : BOOLEAN, inFlight : BOOLEAN, timer : BOOLEAN]

\* Without a record there is nothing in flight and nothing to fire.
Blank(rec) == ~rec.there => ~rec.inFlight /\ ~rec.timer

\* Whoever holds the record is at work, and will treat it as consumed.
HoldersWork ==
  \A r \in Run : run[r].holds =>
    record.there /\ run[r].consumed /\ run[r].pc \in Working

WorkInv == StateTypeOK /\ OneTimer /\ InFlightIsReal /\ Blank(record) /\ HoldersWork
IInv == environment \in Environments /\ WorkInv

------------------------------------------------------------------------------
(* What the helpers do to the calls. *)

\* To moves one call and keeps what it holds.
LEMMA ToFacts ==
  ASSUME StateTypeOK, NEW r \in Run, NEW pc \in Stages
  PROVE  /\ To(r, pc) \in [Run -> RunType]
         /\ To(r, pc)[r].pc = pc /\ ~To(r, pc)[r].ready
         /\ To(r, pc)[r].consumed = run[r].consumed /\ To(r, pc)[r].holds = run[r].holds
         /\ \A q \in Run : q # r => To(r, pc)[q] = run[q]
<1>1. run \in [Run -> RunType] /\ run[r] \in RunType  BY DEF StateTypeOK
<1>2. run[r].consumed \in BOOLEAN /\ run[r].holds \in BOOLEAN  BY <1>1 DEF RunType
<1>3. [pc |-> pc, ready |-> FALSE, consumed |-> run[r].consumed, holds |-> run[r].holds] \in RunType
  BY <1>2 DEF RunType
<1> QED  BY <1>1, <1>3 DEF To

\* Clear moves one call and takes the record from all.
LEMMA ClearFacts ==
  ASSUME StateTypeOK, NEW r \in Run, NEW pc \in Stages, Clear(r, pc)
  PROVE  /\ run' \in [Run -> RunType]
         /\ run'[r].pc = pc
         /\ \A q \in Run : ~run'[q].holds
         /\ \A q \in Run : q # r => run'[q].pc = run[q].pc /\ run'[q].ready = run[q].ready
         /\ ~run'[r].ready
<1>1. /\ To(r, pc) \in [Run -> RunType] /\ To(r, pc)[r].pc = pc /\ ~To(r, pc)[r].ready
      /\ \A q \in Run : q # r => To(r, pc)[q] = run[q]
  BY ToFacts
<1>2. run' = [q \in Run |-> [To(r, pc)[q] EXCEPT !.holds = FALSE]]  BY DEF Clear
<1>3. \A q \in Run : To(r, pc)[q] \in RunType  BY <1>1
<1>4. \A q \in Run : /\ run'[q] \in RunType /\ ~run'[q].holds
                     /\ run'[q].pc = To(r, pc)[q].pc /\ run'[q].ready = To(r, pc)[q].ready
  BY <1>2, <1>3 DEF RunType
<1>5. run' \in [Run -> RunType]  BY <1>2, <1>4
<1> QED  BY <1>1, <1>4, <1>5

\* A new call of showQuotaToast changes one call only.
LEMMA BeginFacts ==
  ASSUME StateTypeOK, NEW r \in Run, NEW rec \in RecordType, NEW n, Begin(r, rec, n)
  PROVE  /\ run' \in [Run -> RunType]
         /\ \A q \in Run : q # r => run'[q] = run[q]
         /\ ~run'[r].ready
         /\ \/ /\ rec.inFlight /\ r \notin Retry
               /\ run'[r] = NoRun /\ record' = rec /\ timeouts' = n
            \/ /\ ~rec.inFlight \/ r \in Retry
               /\ run'[r].pc = "probe" /\ run'[r].holds = rec.there
               /\ run'[r].consumed = (rec.there \/ r \in Retry)
               /\ record' = [there |-> rec.there, inFlight |-> rec.there, timer |-> FALSE]
               /\ timeouts' = Cancelled(rec, n)
<1>1. run \in [Run -> RunType]  BY DEF StateTypeOK
<1>2. NoRun \in RunType  BY DEF NoRun, RunType, Stages
<1>3. rec.there \in BOOLEAN /\ (rec.there \/ r \in Retry) \in BOOLEAN  BY DEF RecordType
<1> DEFINE N == [pc |-> "probe", ready |-> FALSE, consumed |-> rec.there \/ r \in Retry, holds |-> rec.there]
<1>4. N \in RunType  BY <1>3 DEF RunType, Stages
<1>5. CASE rec.inFlight /\ r \notin Retry
  <2>1. run' = [run EXCEPT ![r] = NoRun] /\ record' = rec /\ timeouts' = n  BY <1>5 DEF Begin
  <2> QED  BY <1>1, <1>2, <1>5, <2>1 DEF NoRun
<1>6. CASE ~(rec.inFlight /\ r \notin Retry)
  <2>1. /\ run' = [run EXCEPT ![r] = N]
        /\ record' = [there |-> rec.there, inFlight |-> rec.there, timer |-> FALSE]
        /\ timeouts' = Cancelled(rec, n)
    BY <1>6 DEF Begin
  <2>2. run'[r] = N /\ \A q \in Run : q # r => run'[q] = run[q]  BY <1>1, <2>1
  <2>3. run' \in [Run -> RunType]  BY <1>1, <1>4, <2>1
  <2> QED  BY <1>6, <2>1, <2>2, <2>3
<1> QED  BY <1>5, <1>6

------------------------------------------------------------------------------
(* The inductive invariant. *)

\* Nothing has happened yet.
LEMMA InitInv == Init => IInv
<1> SUFFICES ASSUME Init PROVE IInv  OBVIOUS
<1>1. NoRun \in RunType /\ ~NoRun.holds  BY DEF NoRun, RunType, Stages
<1>2. NoRecord \in RecordType /\ Blank(NoRecord) /\ ~NoRecord.timer /\ ~NoRecord.inFlight
  BY DEF NoRecord, RecordType, Blank
<1>3. StateTypeOK  BY <1>1, <1>2 DEF Init, StateTypeOK, RecordType
<1>4. HoldersWork  BY <1>1 DEF Init, HoldersWork
<1> QED  BY <1>2, <1>3, <1>4 DEF Init, IInv, WorkInv, OneTimer, InFlightIsReal

\* The configuration stays one of its values, loading a Boolean.
Configured == config' \in {"unread", "on", "off"} /\ loading' \in BOOLEAN

\* rec is the record as a timer that is firing leaves it, n its timeouts.
Seen(rec, n) ==
  /\ rec \in RecordType /\ rec.there = record.there /\ rec.inFlight = record.inFlight
  /\ Blank(rec)
  /\ n = IF rec.timer THEN 1 ELSE 0

\* The record itself, timer and all, is such a record.
LEMMA SeenRecord == WorkInv => Seen(record, timeouts)
BY DEF WorkInv, Seen, StateTypeOK, RecordType, OneTimer

\* A call that starts takes the record or leaves it to the one in flight.
LEMMA BeginInv ==
  ASSUME WorkInv, NEW r \in Run, ~run[r].holds, NEW rec, NEW n, Seen(rec, n),
         Begin(r, rec, n), Configured
  PROVE  WorkInv'
<1>1. StateTypeOK /\ HoldersWork /\ InFlightIsReal  BY DEF WorkInv
<1>2. rec \in RecordType /\ Blank(rec)  BY DEF Seen
<1>3. n \in Nat /\ Cancelled(rec, n) = 0  BY <1>2 DEF Seen, Cancelled, RecordType
<1>4. /\ run' \in [Run -> RunType]
      /\ \A q \in Run : q # r => run'[q] = run[q]
      /\ \/ /\ rec.inFlight /\ run'[r] = NoRun /\ record' = rec /\ timeouts' = n
         \/ /\ run'[r].pc = "probe" /\ run'[r].holds = rec.there
            /\ run'[r].consumed = (rec.there \/ r \in Retry)
            /\ record' = [there |-> rec.there, inFlight |-> rec.there, timer |-> FALSE]
            /\ timeouts' = Cancelled(rec, n)
  BY <1>1, <1>2, BeginFacts
<1>5. CASE rec.inFlight /\ run'[r] = NoRun /\ record' = rec /\ timeouts' = n
  <2>1. StateTypeOK'  BY <1>2, <1>3, <1>4, <1>5 DEF StateTypeOK, Configured, RecordType
  <2>2. OneTimer' /\ Blank(record)'  BY <1>2, <1>5 DEF OneTimer, Seen, Blank
  <2>3. PICK q \in Run : run[q].holds  BY <1>1, <1>5 DEF Seen, InFlightIsReal
  <2>4. InFlightIsReal'  BY <2>3, <1>4 DEF InFlightIsReal
  <2>5. HoldersWork'  BY <1>1, <1>4, <1>5 DEF HoldersWork, NoRun, Seen
  <2> QED  BY <2>1, <2>2, <2>4, <2>5 DEF WorkInv
<1>6. CASE /\ run'[r].pc = "probe" /\ run'[r].holds = rec.there
           /\ run'[r].consumed = (rec.there \/ r \in Retry)
           /\ record' = [there |-> rec.there, inFlight |-> rec.there, timer |-> FALSE]
           /\ timeouts' = Cancelled(rec, n)
  <2>1. record' \in RecordType /\ ~record'.timer /\ record'.there = rec.there /\ record'.inFlight = rec.there
    BY <1>2, <1>6 DEF RecordType
  <2>2. StateTypeOK'  BY <1>3, <1>4, <1>6, <2>1 DEF StateTypeOK, Configured, RecordType
  <2>3. OneTimer' /\ Blank(record)'  BY <1>3, <1>6, <2>1 DEF OneTimer, Blank
  <2>4. InFlightIsReal'  BY <1>6, <2>1 DEF InFlightIsReal
  <2>5. HoldersWork'  BY <1>1, <1>4, <1>6, <2>1 DEF HoldersWork, Seen, Working
  <2> QED  BY <2>2, <2>3, <2>4, <2>5 DEF WorkInv
<1> QED  BY <1>4, <1>5, <1>6

\* A call that moves on with the record as it is.
LEMMA ToInv ==
  ASSUME WorkInv, NEW r \in Run, NEW pc \in Stages, run[r].holds => pc \in Working,
         NEW rec, NEW n, Seen(rec, n), run' = To(r, pc), record' = rec, timeouts' = n, Configured
  PROVE  WorkInv'
<1>1. StateTypeOK /\ HoldersWork /\ InFlightIsReal  BY DEF WorkInv
<1>2. /\ run' \in [Run -> RunType] /\ run'[r].pc = pc
      /\ run'[r].consumed = run[r].consumed /\ run'[r].holds = run[r].holds
      /\ \A q \in Run : q # r => run'[q] = run[q]
  BY <1>1, ToFacts
<1>3. StateTypeOK'  BY <1>2 DEF StateTypeOK, Configured, Seen, RecordType
<1>4. OneTimer' /\ Blank(record)'  BY DEF OneTimer, Blank, Seen
<1>5. InFlightIsReal'  BY <1>1, <1>2 DEF InFlightIsReal, Seen
<1>6. HoldersWork'  BY <1>1, <1>2 DEF HoldersWork, Seen
<1> QED  BY <1>3, <1>4, <1>5, <1>6 DEF WorkInv

\* Clearing the record takes its timer with it.
LEMMA ClearInv ==
  ASSUME WorkInv, NEW r \in Run, NEW pc \in Stages, Clear(r, pc), Configured
  PROVE  WorkInv'
<1>1. run' \in [Run -> RunType] /\ \A q \in Run : ~run'[q].holds  BY ClearFacts DEF WorkInv
<1>2. record' = NoRecord /\ timeouts' = 0
  BY DEF Clear, Cancelled, WorkInv, OneTimer, StateTypeOK
<1>3. NoRecord \in RecordType /\ ~NoRecord.timer /\ ~NoRecord.inFlight  BY DEF NoRecord, RecordType
<1>4. StateTypeOK'  BY <1>1, <1>2, <1>3 DEF StateTypeOK, Configured, RecordType
<1>5. HoldersWork'  BY <1>1 DEF HoldersWork
<1> QED  BY <1>2, <1>3, <1>4, <1>5 DEF WorkInv, OneTimer, InFlightIsReal, Blank

\* Scheduling replaces the timer, if there was one.
LEMMA ScheduleInv ==
  ASSUME WorkInv, NEW r \in Run, Schedule, run' = To(r, "show"), Configured
  PROVE  WorkInv'
<1>1. StateTypeOK /\ HoldersWork /\ InFlightIsReal  BY DEF WorkInv
<1>2. /\ run' \in [Run -> RunType] /\ run'[r].pc = "show"
      /\ run'[r].consumed = run[r].consumed /\ run'[r].holds = run[r].holds
      /\ \A q \in Run : q # r => run'[q] = run[q]
  BY <1>1, ToFacts DEF Stages
<1>3. record' = [there |-> TRUE, inFlight |-> record.inFlight, timer |-> TRUE] /\ timeouts' = 1
  BY DEF Schedule, Cancelled, WorkInv, OneTimer, StateTypeOK
<1>4. record' \in RecordType /\ record'.there /\ record'.timer /\ record'.inFlight = record.inFlight
  BY <1>1, <1>3 DEF StateTypeOK, RecordType
<1>5. StateTypeOK'  BY <1>2, <1>3, <1>4 DEF StateTypeOK, Configured, RecordType
<1>6. InFlightIsReal'  BY <1>1, <1>2, <1>4 DEF InFlightIsReal
<1>7. HoldersWork'  BY <1>1, <1>2, <1>4 DEF HoldersWork, Working
<1> QED  BY <1>3, <1>4, <1>5, <1>6, <1>7 DEF WorkInv, OneTimer, Blank

\* Reconciliation schedules, clears or leaves the record.
LEMMA ReconcileInv ==
  ASSUME WorkInv, NEW r \in Run, NEW outcome, Reconcile(r, outcome), Configured
  PROVE  WorkInv'
<1>1. CASE outcome = "retry"  BY <1>1, ScheduleInv DEF Reconcile
<1>2. CASE outcome # "retry" /\ record.there  BY <1>2, ClearInv DEF Reconcile, Stages
<1>3. CASE outcome # "retry" /\ ~record.there
  BY <1>3, ToInv, SeenRecord DEF Reconcile, Stages, Working
<1> QED  BY <1>1, <1>2, <1>3

\* showQuotaToast begins or awaits the configuration.
LEMMA ShowToastInv ==
  ASSUME WorkInv, NEW r \in Run, ~run[r].holds, NEW rec, NEW n, Seen(rec, n),
         ShowToast(r, rec, n), UNCHANGED config
  PROVE  WorkInv'
<1>1. StateTypeOK  BY DEF WorkInv
<1>2. CASE config = "unread"
  <2>1. run' = To(r, "toast") /\ loading' = TRUE /\ record' = rec /\ timeouts' = n
    BY <1>2 DEF ShowToast, Await
  <2>2. Configured  BY <1>1, <2>1 DEF Configured, StateTypeOK
  <2>3. "toast" \in Stages  BY DEF Stages, Waiting
  <2> QED  BY <2>1, <2>2, <2>3, ToInv
<1>3. CASE config # "unread"
  <2>1. Begin(r, rec, n) /\ UNCHANGED loading  BY <1>3 DEF ShowToast
  <2>2. Configured  BY <1>1, <2>1 DEF Configured, StateTypeOK
  <2> QED  BY <2>1, <2>2, BeginInv
<1> QED  BY <1>2, <1>3

\* Collecting ends at once or awaits the providers.
LEMMA CollectInv ==
  ASSUME WorkInv, NEW r \in Run, Collect(r), Configured
  PROVE  WorkInv'
<1>1. CASE \E o : Reconcile(r, o)  BY <1>1, ReconcileInv
<1>2. CASE run' = To(r, "fetch") /\ UNCHANGED <<record, timeouts>>
  BY <1>2, ToInv, SeenRecord DEF Stages, Working
<1> QED  BY <1>1, <1>2 DEF Collect

\* The finally block frees the record for the next call.
LEMMA ReleaseInv ==
  ASSUME WorkInv, NEW r \in Run, Release(r), Configured
  PROVE  WorkInv'
<1>1. StateTypeOK /\ HoldersWork /\ InFlightIsReal /\ OneTimer /\ Blank(record)  BY DEF WorkInv
<1>2. NoRun \in RunType /\ ~NoRun.holds  BY DEF NoRun, RunType, Stages
<1>3. /\ run' \in [Run -> RunType] /\ run'[r] = NoRun
      /\ \A q \in Run : q # r => run'[q] = run[q]
  BY <1>1, <1>2 DEF Release, StateTypeOK
<1>4. /\ record' \in RecordType /\ record'.there = record.there /\ record'.timer = record.timer
      /\ record'.inFlight => record.inFlight /\ ~run[r].holds
  BY <1>1 DEF Release, StateTypeOK, RecordType
<1>5. timeouts' = timeouts  BY DEF Release
<1>6. StateTypeOK'  BY <1>1, <1>3, <1>4, <1>5 DEF StateTypeOK, Configured, RecordType
<1>7. InFlightIsReal'  BY <1>1, <1>3, <1>4 DEF InFlightIsReal
<1>8. HoldersWork'  BY <1>1, <1>2, <1>3, <1>4 DEF HoldersWork
<1> QED  BY <1>1, <1>4, <1>5, <1>6, <1>7, <1>8 DEF WorkInv, OneTimer, Blank

\* A call that has yet to begin holds nothing.
LEMMA NotYet ==
  ASSUME WorkInv, NEW r \in Run, run[r].pc \notin Working
  PROVE  ~run[r].holds
BY DEF WorkInv, HoldersWork

\* What a hook does with the configuration at hand.
LEMMA HookInv ==
  ASSUME WorkInv, NEW r \in Run, ~run[r].holds, HookGoesOn(r), UNCHANGED config
  PROVE  WorkInv'
<1>1. StateTypeOK  BY DEF WorkInv
<1>2. CASE Clear(r, "idle") /\ UNCHANGED loading
  BY <1>1, <1>2, ClearInv DEF Configured, StateTypeOK, Stages
<1>3. CASE run' = To(r, "recording") /\ UNCHANGED <<loading, record, timeouts>>
  <2>1. Configured  BY <1>1, <1>3 DEF Configured, StateTypeOK
  <2> QED  BY <1>3, <2>1, ToInv, SeenRecord DEF Stages
<1>4. CASE ShowToast(r, record, timeouts)  BY <1>4, ShowToastInv, SeenRecord
<1> QED  BY <1>2, <1>3, <1>4 DEF HookGoesOn

\* A load that ends changes no record and nobody's hold of it.
LEMMA LoadInv ==
  ASSUME WorkInv, NEW outcome \in {"on", "off", "failed"}, Load(outcome)
  PROVE  WorkInv'
<1>1. StateTypeOK /\ HoldersWork /\ InFlightIsReal  BY DEF WorkInv
<1>2. Configured  BY <1>1 DEF Load, Configured, StateTypeOK
<1>3. run' = [r \in Run |-> [run[r] EXCEPT !.ready = run[r].ready \/ run[r].pc \in Waiting]]
  BY DEF Load
<1>4. \A r \in Run : run[r] \in RunType  BY <1>1 DEF StateTypeOK
<1>5. \A r \in Run : /\ run'[r] \in RunType /\ run'[r].pc = run[r].pc
                     /\ run'[r].consumed = run[r].consumed /\ run'[r].holds = run[r].holds
  BY <1>3, <1>4 DEF RunType
<1>6. run' \in [Run -> RunType]  BY <1>3, <1>5
<1>7. UNCHANGED <<record, timeouts>>  BY DEF Load
<1>8. StateTypeOK'  BY <1>1, <1>2, <1>6, <1>7 DEF StateTypeOK, Configured
<1>9. InFlightIsReal' /\ HoldersWork'  BY <1>1, <1>5, <1>7 DEF InFlightIsReal, HoldersWork
<1> QED  BY <1>7, <1>8, <1>9 DEF WorkInv, OneTimer, Blank

\* A timer that fires finds the record as Seen.
LEMMA FiredRecord ==
  ASSUME WorkInv, NEW own \in BOOLEAN,
         IF own THEN record.timer ELSE Cancelled(record, timeouts) > 0
  PROVE  Seen([record EXCEPT !.timer = @ /\ ~own], timeouts - 1) /\ own
<1>1. record \in RecordType /\ Blank(record) /\ timeouts = IF record.timer THEN 1 ELSE 0
  BY DEF WorkInv, StateTypeOK, RecordType, OneTimer
<1>2. Cancelled(record, timeouts) = 0  BY <1>1 DEF Cancelled
<1>3. own /\ record.timer /\ timeouts = 1  BY <1>1, <1>2
<1> DEFINE rec == [record EXCEPT !.timer = @ /\ ~own]
<1>4. rec \in RecordType /\ rec.there = record.there /\ rec.inFlight = record.inFlight /\ ~rec.timer
  BY <1>1, <1>3 DEF RecordType
<1> QED  BY <1>1, <1>3, <1>4 DEF Seen, Blank

\* The timer starts a retry, or finds nothing to do.
LEMMA TimerInv ==
  ASSUME WorkInv, TimerFires
  PROVE  WorkInv'
<1>1. PICK own \in {t \in BOOLEAN : IF t THEN record.timer ELSE Cancelled(record, timeouts) > 0} :
        LET rec == [record EXCEPT !.timer = @ /\ ~own]
        IN IF rec.there /\ ~rec.inFlight
             THEN \E r \in Retry : run[r].pc = "idle" /\ ShowToast(r, rec, timeouts - 1)
             ELSE record' = rec /\ timeouts' = timeouts - 1 /\ UNCHANGED <<loading, run>>
  BY DEF TimerFires
<1> DEFINE rec == [record EXCEPT !.timer = @ /\ ~own]
<1>2. Seen(rec, timeouts - 1)  BY FiredRecord
<1>3. UNCHANGED config  BY DEF TimerFires
<1> HIDE DEF rec
<1>4. ASSUME NEW r \in Retry, run[r].pc = "idle", ShowToast(r, rec, timeouts - 1)
      PROVE  WorkInv'
  <2>1. r \in Run /\ ~run[r].holds  BY <1>4, NotYet DEF Run, Working
  <2> QED  BY <1>2, <1>3, <1>4, <2>1, ShowToastInv
<1>5. CASE record' = rec /\ timeouts' = timeouts - 1 /\ UNCHANGED <<loading, run>>
  <2>1. StateTypeOK'  BY <1>2, <1>3, <1>5 DEF WorkInv, StateTypeOK, Seen, RecordType
  <2>2. OneTimer' /\ Blank(record)'  BY <1>2, <1>5 DEF OneTimer, Seen, Blank
  <2>3. InFlightIsReal' /\ HoldersWork'
    BY <1>2, <1>5 DEF WorkInv, InFlightIsReal, HoldersWork, Seen
  <2> QED  BY <2>1, <2>2, <2>3 DEF WorkInv
<1> QED  BY <1>1, <1>4, <1>5 DEF rec

\* Every step preserves the invariant.
LEMMA NextInv == IInv /\ [Next]_vars => IInv'
<1> SUFFICES ASSUME WorkInv, environment \in Environments, [Next]_vars PROVE IInv'  BY DEF IInv
<1>0. StateTypeOK  BY DEF WorkInv
<1>1. ASSUME NEW r \in Run, Resumes(r)
      PROVE  WorkInv'
  <2>1. CASE ToastReady(r)
    <3>1. Begin(r, record, timeouts) /\ ~run[r].holds /\ Configured
      BY <1>0, <2>1, NotYet DEF ToastReady, Configured, StateTypeOK, Working
    <3> QED  BY <3>1, BeginInv, SeenRecord
  <2>2. CASE RenderReady(r)
    <3>1. Collect(r) /\ Configured  BY <1>0, <2>2 DEF RenderReady, Configured, StateTypeOK
    <3> QED  BY <3>1, CollectInv
  <2>3. CASE HookReady(r)
    <3>1. HookGoesOn(r) /\ ~run[r].holds /\ UNCHANGED config
      BY <2>3, NotYet DEF HookReady, Working
    <3> QED  BY <3>1, HookInv
  <2> QED  BY <1>1, <2>1, <2>2, <2>3 DEF Resumes
<1>2. ASSUME NEW r \in Run, Answered(r)
      PROVE  WorkInv'
  <2>1. CASE Recorded(r)
    <3>1. ShowToast(r, record, timeouts) /\ ~run[r].holds /\ UNCHANGED config
      BY <2>1, NotYet DEF Recorded, Working
    <3> QED  BY <3>1, ShowToastInv, SeenRecord
  <2>2. CASE Subagent(r)
    <3>1. Configured  BY <1>0, <2>2 DEF Subagent, Configured, StateTypeOK
    <3>2. CASE Clear(r, "show")  BY <3>1, <3>2, ClearInv DEF Stages
    <3>3. CASE run' = To(r, "show") /\ UNCHANGED <<record, timeouts>>
      BY <3>1, <3>3, ToInv, SeenRecord DEF Stages, Working
    <3> QED  BY <2>2, <3>2, <3>3 DEF Subagent
  <2>3. CASE Primary(r)
    <3>1. CASE Await(r, "render") /\ UNCHANGED <<config, record, timeouts>>
      <4>1. Configured /\ run' = To(r, "render")  BY <1>0, <3>1 DEF Await, Configured, StateTypeOK
      <4>2. "render" \in Stages /\ "render" \in Working  BY DEF Stages, Waiting, Working
      <4> QED  BY <3>1, <4>1, <4>2, ToInv, SeenRecord
    <3>2. CASE Collect(r) /\ UNCHANGED <<config, loading>>
      BY <1>0, <3>2, CollectInv DEF Configured, StateTypeOK
    <3> QED  BY <2>3, <3>1, <3>2 DEF Primary
  <2>4. CASE Finish(r)
    BY <1>0, <2>4, ReleaseInv DEF Finish, Configured, StateTypeOK
  <2>5. ASSUME NEW o \in environment.fetches, Settle(r, o)
        PROVE  WorkInv'
    <3>1. Configured  BY <1>0, <2>5 DEF Settle, Configured, StateTypeOK
    <3> QED  BY <2>5, <3>1, ReleaseInv, ReconcileInv DEF Settle
  <2> QED  BY <1>2, <2>1, <2>2, <2>3, <2>4, <2>5 DEF Answered
<1>3. ASSUME NEW r \in Hook, Event(r)
      PROVE  WorkInv'
  <2>1. r \in Run /\ ~run[r].holds  BY <1>3, NotYet DEF Event, Run, Working
  <2>2. CASE Await(r, "hook") /\ UNCHANGED <<config, record, timeouts>>
    <3>1. Configured /\ run' = To(r, "hook")  BY <1>0, <2>2 DEF Await, Configured, StateTypeOK
    <3>2. "hook" \in Stages  BY DEF Stages, Waiting
    <3> QED  BY <2>1, <2>2, <3>1, <3>2, ToInv, SeenRecord
  <2>3. CASE HookGoesOn(r) /\ UNCHANGED config  BY <2>1, <2>3, HookInv
  <2> QED  BY <1>3, <2>2, <2>3 DEF Event
<1>4. ASSUME UNCHANGED vars PROVE WorkInv'
  BY <1>4 DEF vars, WorkInv, StateTypeOK, OneTimer, InFlightIsReal, Blank, HoldersWork
<1>5. environment' = environment  BY DEF Next, vars
<1>6. environment.hooks \subseteq Hook /\ environment.loads \subseteq {"on", "off", "failed"}
  BY DeferredAssumption
<1>7. WorkInv'  BY <1>1, <1>2, <1>3, <1>4, <1>6, LoadInv, TimerInv DEF Next, LoadEnds
<1> QED  BY <1>5, <1>7 DEF IInv

\* The inductive invariant holds throughout.
THEOREM InductiveInvariant == Spec => []IInv
BY InitInv, NextInv, PTL DEF Spec

\* The event loop holds exactly the timeout that the record can cancel.
THEOREM NoStrayTimer == Spec => []OneTimer
<1>1. IInv => OneTimer  BY DEF IInv, WorkInv
<1> QED  BY <1>1, InductiveInvariant, PTL

\* A record in flight has a call at work on it, whatever throws.
THEOREM MarksAreReal == Spec => []InFlightIsReal
<1>1. IInv => InFlightIsReal  BY DEF IInv, WorkInv
<1> QED  BY <1>1, InductiveInvariant, PTL

------------------------------------------------------------------------------
(* No retry is dropped, where nothing throws and display is prompt. *)

\* r has the record and will reconcile it.
Reconciling(r) == run[r].holds /\ run[r].pc \in {"probe", "render", "fetch"}

\* Nobody stops caring for the record, and its timer stays.
LEMMA KeptStays ==
  ASSUME RetryKept, record'.there => record.there, record'.timer = record.timer,
         \A q \in Run : Reconciling(q) => Reconciling(q)',
         \A q \in Retry : run[q].pc = "toast" => run'[q].pc = "toast"
  PROVE  RetryKept'
BY DEF RetryKept, Reconciling

\* A record whose timer is armed, or that is gone, is no worry.
LEMMA KeptByTimer ==
  ASSUME ~record'.there \/ record'.timer
  PROVE  RetryKept'
BY DEF RetryKept

\* A call that starts takes the record over, unless another has it.
LEMMA KeptBegin ==
  ASSUME WorkInv, RetryKept, NEW r \in Run, run[r].pc \notin Working, NEW rec, NEW n, Seen(rec, n),
         r \in Retry \/ rec = record, Begin(r, rec, n)
  PROVE  RetryKept'
<1>1. StateTypeOK /\ rec \in RecordType  BY DEF WorkInv, Seen
<1>2. /\ \A q \in Run : q # r => run'[q] = run[q]
      /\ \/ rec.inFlight /\ r \notin Retry /\ record' = rec
         \/ /\ run'[r].pc = "probe" /\ run'[r].holds = rec.there
            /\ record' = [there |-> rec.there, inFlight |-> rec.there, timer |-> FALSE]
  BY <1>1, BeginFacts
<1>3. CASE rec.inFlight /\ r \notin Retry /\ record' = rec
  <2>1. record' = record /\ ~Reconciling(r)  BY <1>3 DEF Reconciling, Working
  <2>2. \A q \in Run : Reconciling(q) => Reconciling(q)'  BY <1>2, <2>1 DEF Reconciling
  <2>3. \A q \in Retry : run[q].pc = "toast" => run'[q].pc = "toast"  BY <1>2, <1>3 DEF Run
  <2> QED  BY <2>1, <2>2, <2>3, KeptStays
<1>4. CASE /\ run'[r].pc = "probe" /\ run'[r].holds = rec.there
           /\ record' = [there |-> rec.there, inFlight |-> rec.there, timer |-> FALSE]
  BY <1>4 DEF RetryKept
<1> QED  BY <1>2, <1>3, <1>4

\* A call that moves on keeps its duty if it had one.
LEMMA KeptTo ==
  ASSUME StateTypeOK, RetryKept, NEW r \in Run, NEW pc \in Stages, run' = To(r, pc), UNCHANGED record,
         Reconciling(r) => pc \in {"probe", "render", "fetch"},
         r \in Retry /\ run[r].pc = "toast" => pc = "toast"
  PROVE  RetryKept'
<1>1. /\ run'[r].pc = pc /\ run'[r].holds = run[r].holds
      /\ \A q \in Run : q # r => run'[q] = run[q]
  BY ToFacts
<1>2. \A q \in Run : Reconciling(q) => Reconciling(q)'  BY <1>1 DEF Reconciling
<1>3. \A q \in Retry : run[q].pc = "toast" => run'[q].pc = "toast"  BY <1>1 DEF Run
<1> QED  BY <1>2, <1>3, KeptStays

\* Reconciliation leaves a timer or no record.
LEMMA KeptReconcile ==
  ASSUME NEW r \in Run, NEW outcome, Reconcile(r, outcome)
  PROVE  RetryKept'
<1>1. CASE outcome = "retry"  BY <1>1, KeptByTimer DEF Reconcile, Schedule
<1>2. CASE outcome # "retry" /\ record.there  BY <1>2, KeptByTimer DEF Reconcile, Clear, NoRecord
<1>3. CASE outcome # "retry" /\ ~record.there  BY <1>3, KeptByTimer DEF Reconcile
<1> QED  BY <1>1, <1>2, <1>3

\* showQuotaToast, called by a hook with the record or by a timer's retry.
LEMMA KeptShow ==
  ASSUME WorkInv, RetryKept, NEW r \in Run, run[r].pc \in {"idle", "hook", "recording"},
         NEW rec, NEW n, Seen(rec, n), r \in Retry \/ rec = record, ShowToast(r, rec, n)
  PROVE  RetryKept'
<1>1. StateTypeOK  BY DEF WorkInv
<1>2. CASE config = "unread" /\ r \in Retry
  <2>1. run' = To(r, "toast")  BY <1>2 DEF ShowToast, Await
  <2>2. "toast" \in Stages  BY DEF Stages, Waiting
  <2>3. run'[r].pc = "toast"  BY <1>1, <2>1, <2>2, ToFacts
  <2> QED  BY <1>2, <2>3 DEF RetryKept
<1>3. CASE config = "unread" /\ r \notin Retry
  <2>1. run' = To(r, "toast") /\ record' = record  BY <1>3 DEF ShowToast, Await
  <2>2. "toast" \in Stages /\ ~Reconciling(r)  BY DEF Stages, Waiting, Reconciling
  <2> QED  BY <1>1, <1>3, <2>1, <2>2, KeptTo
<1>4. CASE config # "unread"  BY <1>4, KeptBegin DEF ShowToast, Working
<1> QED  BY <1>2, <1>3, <1>4

LEMMA KeptCollect ==
  ASSUME StateTypeOK, RetryKept, NEW r \in Run, run[r].pc \in {"probe", "render"}, Collect(r)
  PROVE  RetryKept'
<1>1. CASE \E o : Reconcile(r, o)  BY <1>1, KeptReconcile
<1>2. CASE run' = To(r, "fetch") /\ UNCHANGED <<record, timeouts>>
  BY <1>2, KeptTo DEF Stages
<1> QED  BY <1>1, <1>2 DEF Collect

LEMMA KeptHook ==
  ASSUME WorkInv, RetryKept, NEW r \in Run, run[r].pc \in {"idle", "hook"}, HookGoesOn(r)
  PROVE  RetryKept'
<1>1. CASE Clear(r, "idle")  BY <1>1, KeptByTimer DEF Clear, NoRecord
<1>2. CASE run' = To(r, "recording") /\ UNCHANGED <<loading, record, timeouts>>
  BY <1>2, KeptTo DEF Stages, Reconciling, WorkInv
<1>3. CASE ShowToast(r, record, timeouts)  BY <1>3, KeptShow, SeenRecord
<1> QED  BY <1>1, <1>2, <1>3 DEF HookGoesOn

\* A prompt display is over when the timer fires, so the call in flight, if
\* there is one, has yet to reconcile.
LEMMA KeptTimer ==
  ASSUME WorkInv, RetryKept, ~environment.slow, TimerFires
  PROVE  RetryKept'
<1>1. PICK own \in {t \in BOOLEAN : IF t THEN record.timer ELSE Cancelled(record, timeouts) > 0} :
        LET rec == [record EXCEPT !.timer = @ /\ ~own]
        IN IF rec.there /\ ~rec.inFlight
             THEN \E r \in Retry : run[r].pc = "idle" /\ ShowToast(r, rec, timeouts - 1)
             ELSE record' = rec /\ timeouts' = timeouts - 1 /\ UNCHANGED <<loading, run>>
  BY DEF TimerFires
<1> DEFINE rec == [record EXCEPT !.timer = @ /\ ~own]
<1>2. Seen(rec, timeouts - 1)  BY FiredRecord
<1> HIDE DEF rec
<1>3. ASSUME NEW r \in Retry, run[r].pc = "idle", ShowToast(r, rec, timeouts - 1)
      PROVE  RetryKept'
  BY <1>2, <1>3, KeptShow DEF Run
<1>4. CASE /\ ~(rec.there /\ ~rec.inFlight)
           /\ record' = rec /\ timeouts' = timeouts - 1 /\ UNCHANGED <<loading, run>>
  <2>1. CASE ~rec.there  BY <1>4, <2>1, KeptByTimer
  <2>2. CASE rec.there /\ rec.inFlight
    <3>1. PICK q \in Run : run[q].holds
      BY <1>2, <2>2 DEF WorkInv, InFlightIsReal, Seen
    <3>2. run[q].pc # "show"  BY <3>1 DEF TimerFires
    <3>3. Reconciling(q)  BY <3>1, <3>2 DEF WorkInv, HoldersWork, Working, Reconciling
    <3> QED  BY <1>4, <3>3 DEF RetryKept, Reconciling
  <2> QED  BY <1>2, <1>4, <2>1, <2>2
<1> QED  BY <1>1, <1>3, <1>4 DEF rec

\* Every step keeps the retry.
LEMMA KeptNext ==
  ASSUME IInv, RetryKept, Gentle, [Next]_vars
  PROVE  RetryKept'
<1> WorkInv /\ environment \in Environments  BY DEF IInv
<1>0. StateTypeOK  BY DEF WorkInv
<1>1. ASSUME NEW r \in Run, Resumes(r)
      PROVE  RetryKept'
  <2>1. CASE ToastReady(r)  BY <2>1, KeptBegin, SeenRecord DEF ToastReady, Working
  <2>2. CASE RenderReady(r)  BY <1>0, <2>2, KeptCollect DEF RenderReady
  <2>3. CASE HookReady(r)  BY <2>3, KeptHook DEF HookReady
  <2> QED  BY <1>1, <2>1, <2>2, <2>3 DEF Resumes
<1>2. ASSUME NEW r \in Run, Answered(r)
      PROVE  RetryKept'
  <2>1. CASE Recorded(r)  BY <2>1, KeptShow, SeenRecord DEF Recorded
  <2>2. CASE Subagent(r)
    <3>1. CASE Clear(r, "show")  BY <3>1, KeptByTimer DEF Clear, NoRecord
    <3>2. CASE ~run[r].consumed /\ run' = To(r, "show") /\ UNCHANGED <<record, timeouts>>
      <4>1. ~Reconciling(r)  BY <3>2 DEF WorkInv, HoldersWork, Reconciling
      <4>2. run[r].pc # "toast"  BY <2>2 DEF Subagent
      <4> QED  BY <1>0, <3>2, <4>1, <4>2, KeptTo DEF Stages
    <3> QED  BY <2>2, <3>1, <3>2 DEF Subagent
  <2>3. CASE Primary(r)
    <3>1. CASE Await(r, "render") /\ UNCHANGED <<record, timeouts>>
      <4>1. "render" \in Stages  BY DEF Stages, Waiting
      <4>2. run[r].pc # "toast"  BY <2>3 DEF Primary
      <4> QED  BY <1>0, <3>1, <4>1, <4>2, KeptTo DEF Await
    <3>2. CASE Collect(r)  BY <1>0, <2>3, <3>2, KeptCollect DEF Primary
    <3> QED  BY <2>3, <3>1, <3>2 DEF Primary
  <2>4. CASE Finish(r)
    <3>1. run[r].pc = "show" /\ run' = [run EXCEPT ![r] = NoRun]  BY <2>4 DEF Finish, Release
    <3>2. record'.there = record.there /\ record'.timer = record.timer
      BY <1>0, <2>4 DEF Finish, Release, StateTypeOK
    <3>3. \A q \in Run : q # r => run'[q] = run[q]  BY <1>0, <3>1 DEF StateTypeOK
    <3>4. \A q \in Run : Reconciling(q) => Reconciling(q)'  BY <3>1, <3>3 DEF Reconciling
    <3>5. \A q \in Retry : run[q].pc = "toast" => run'[q].pc = "toast"  BY <3>1, <3>3 DEF Run
    <3> QED  BY <3>2, <3>4, <3>5, KeptStays
  <2>5. ASSUME NEW o \in environment.fetches, Settle(r, o)
        PROVE  RetryKept'
    BY <2>5, KeptReconcile DEF Settle, Gentle
  <2> QED  BY <1>2, <2>1, <2>2, <2>3, <2>4, <2>5 DEF Answered
<1>3. ASSUME NEW r \in Hook, Event(r)
      PROVE  RetryKept'
  <2>1. r \in Run /\ r \notin Retry /\ run[r].pc = "idle"
    BY <1>3, DeferredAssumption DEF Event, Run
  <2>2. CASE Await(r, "hook") /\ UNCHANGED <<record, timeouts>>
    <3>1. "hook" \in Stages /\ ~Reconciling(r)  BY <2>1 DEF Stages, Waiting, Reconciling
    <3> QED  BY <1>0, <2>1, <2>2, <3>1, KeptTo DEF Await
  <2>3. CASE HookGoesOn(r)  BY <2>1, <2>3, KeptHook
  <2> QED  BY <1>3, <2>2, <2>3 DEF Event
<1>4. ASSUME NEW o, Load(o)
      PROVE  RetryKept'
  <2>1. run' = [q \in Run |-> [run[q] EXCEPT !.ready = run[q].ready \/ run[q].pc \in Waiting]]
    BY <1>4 DEF Load
  <2>2. \A q \in Run : run'[q].pc = run[q].pc /\ run'[q].holds = run[q].holds
    BY <1>0, <2>1 DEF StateTypeOK, RunType
  <2>3. \A q \in Run : Reconciling(q) => Reconciling(q)'  BY <2>2 DEF Reconciling
  <2>4. \A q \in Retry : run[q].pc = "toast" => run'[q].pc = "toast"  BY <2>2 DEF Run
  <2> QED  BY <1>4, <2>3, <2>4, KeptStays DEF Load
<1>5. CASE UNCHANGED vars  BY <1>5 DEF vars, RetryKept
<1>6. environment.hooks \subseteq Hook /\ ~environment.slow  BY DeferredAssumption DEF Gentle
<1> QED  BY <1>1, <1>2, <1>3, <1>4, <1>5, <1>6, KeptTimer DEF Next, LoadEnds

\* Where nothing throws and what is shown is shown before the next timer is
\* due, a deferred retry is never dropped.
THEOREM RetriesAreKept == Spec => []Kept
<1>1. Init => Kept  BY DEF Init, Kept, RetryKept, NoRecord
<1>2. IInv /\ Kept /\ [Next]_vars => Kept'
  <2> SUFFICES ASSUME IInv, Kept, [Next]_vars, Gentle' PROVE RetryKept'  BY DEF Kept
  <2>1. environment' = environment  BY DEF Next, vars
  <2>2. Gentle  BY <2>1 DEF Gentle
  <2> QED  BY <2>2, KeptNext DEF Kept
<1> QED  BY <1>1, <1>2, InductiveInvariant, PTL DEF Spec

------------------------------------------------------------------------------
(* One consumer at a time, where the configuration can be read. *)

\* A record means the configuration was read, and so does whoever depends on
\* it; timers' retries then never await it, and whoever holds the record has
\* it marked in flight.
Single ==
  /\ OneConsumer
  /\ record.there => config # "unread"
  /\ \A r \in Run : run[r].holds => record.inFlight
  /\ \A r \in Run : run[r].ready \/ run[r].pc = "fetch" => config # "unread"
  /\ \A r \in Retry : run[r].pc \notin {"hook", "toast", "recording"}

\* A call that starts is alone with the record.
LEMMA SingleBegin ==
  ASSUME WorkInv, Single, NEW r \in Run, NEW rec, NEW n, Seen(rec, n), UNCHANGED config,
         r \in Retry => ~rec.inFlight, Begin(r, rec, n)
  PROVE  Single'
<1>1. StateTypeOK /\ rec \in RecordType  BY DEF WorkInv, Seen
<1>2. /\ \A q \in Run : q # r => run'[q] = run[q]
      /\ ~run'[r].ready
      /\ \/ rec.inFlight /\ r \notin Retry /\ record' = rec /\ run'[r] = NoRun
         \/ /\ ~rec.inFlight \/ r \in Retry
            /\ run'[r].pc = "probe" /\ run'[r].holds = rec.there
            /\ record' = [there |-> rec.there, inFlight |-> rec.there, timer |-> FALSE]
  BY <1>1, BeginFacts
<1>3. CASE rec.inFlight /\ r \notin Retry /\ record' = rec /\ run'[r] = NoRun
  <2>1. ~run'[r].holds /\ run'[r].pc = "idle"  BY <1>3 DEF NoRun
  <2>2. OneConsumer'  BY <1>2, <2>1 DEF Single, OneConsumer
  <2>3. record'.there => config' # "unread"  BY <1>3 DEF Single, Seen
  <2>4. \A q \in Run : run'[q].holds => record'.inFlight  BY <1>3
  <2>5. \A q \in Run : run'[q].ready \/ run'[q].pc = "fetch" => config' # "unread"
    BY <1>2, <2>1 DEF Single
  <2>6. \A q \in Retry : run'[q].pc \notin {"hook", "toast", "recording"}
    BY <1>2, <1>3 DEF Single, Run
  <2> QED  BY <2>2, <2>3, <2>4, <2>5, <2>6 DEF Single
<1>4. CASE /\ ~rec.inFlight
           /\ run'[r].pc = "probe" /\ run'[r].holds = rec.there
           /\ record' = [there |-> rec.there, inFlight |-> rec.there, timer |-> FALSE]
  <2>1. \A q \in Run : ~run[q].holds  BY <1>4 DEF Single, Seen
  <2>2. OneConsumer'  BY <1>2, <2>1 DEF OneConsumer
  <2>3. record'.there => config' # "unread"  BY <1>4 DEF Single, Seen
  <2>4. \A q \in Run : run'[q].holds => record'.inFlight  BY <1>2, <1>4, <2>1
  <2>5. \A q \in Run : run'[q].ready \/ run'[q].pc = "fetch" => config' # "unread"
    BY <1>2, <1>4 DEF Single
  <2>6. \A q \in Retry : run'[q].pc \notin {"hook", "toast", "recording"}
    BY <1>2, <1>4 DEF Single, Run
  <2> QED  BY <2>2, <2>3, <2>4, <2>5, <2>6 DEF Single
<1> QED  BY <1>2, <1>3, <1>4

\* A call that moves on holds what it held.
LEMMA SingleTo ==
  ASSUME StateTypeOK, Single, NEW r \in Run, NEW pc \in Stages, run' = To(r, pc), UNCHANGED config,
         record'.there => config # "unread", record'.inFlight = record.inFlight,
         pc = "fetch" => config # "unread",
         r \in Retry => pc \notin {"hook", "toast", "recording"}
  PROVE  Single'
<1>1. /\ run'[r].pc = pc /\ run'[r].holds = run[r].holds /\ ~run'[r].ready
      /\ \A q \in Run : q # r => run'[q] = run[q]
  BY ToFacts
<1>2. \A q \in Run : run'[q].holds = run[q].holds  BY <1>1
<1>3. OneConsumer'  BY <1>2 DEF Single, OneConsumer
<1>4. \A q \in Run : run'[q].ready \/ run'[q].pc = "fetch" => config' # "unread"
  BY <1>1 DEF Single
<1>5. \A q \in Retry : run'[q].pc \notin {"hook", "toast", "recording"}
  BY <1>1 DEF Single, Run
<1> QED  BY <1>2, <1>3, <1>4, <1>5 DEF Single

\* Once the record is cleared nobody holds it.
LEMMA SingleClear ==
  ASSUME StateTypeOK, Single, NEW r \in Run, NEW pc \in Stages, Clear(r, pc), UNCHANGED config,
         pc \in {"idle", "show"}
  PROVE  Single'
<1>1. /\ run'[r].pc = pc /\ ~run'[r].ready
      /\ \A q \in Run : ~run'[q].holds
      /\ \A q \in Run : q # r => run'[q].pc = run[q].pc /\ run'[q].ready = run[q].ready
  BY ClearFacts
<1>2. ~record'.there  BY DEF Clear, NoRecord
<1>3. \A q \in Run : run'[q].ready \/ run'[q].pc = "fetch" => config' # "unread"
  BY <1>1 DEF Single
<1>4. \A q \in Retry : run'[q].pc \notin {"hook", "toast", "recording"}
  BY <1>1 DEF Single, Run
<1> QED  BY <1>1, <1>2, <1>3, <1>4 DEF Single, OneConsumer

LEMMA SingleReconcile ==
  ASSUME WorkInv, Single, NEW r \in Run, config # "unread", NEW outcome, Reconcile(r, outcome),
         UNCHANGED config
  PROVE  Single'
<1>1. StateTypeOK /\ "show" \in Stages  BY DEF WorkInv, Stages
<1>2. CASE outcome = "retry"
  <2>1. run' = To(r, "show") /\ record'.inFlight = record.inFlight
    BY <1>2 DEF Reconcile, Schedule
  <2> QED  BY <1>1, <2>1, SingleTo
<1>3. CASE outcome # "retry" /\ record.there  BY <1>1, <1>3, SingleClear DEF Reconcile
<1>4. CASE outcome # "retry" /\ ~record.there
  <2>1. run' = To(r, "show") /\ record' = record  BY <1>4 DEF Reconcile
  <2> QED  BY <1>1, <2>1, SingleTo
<1> QED  BY <1>2, <1>3, <1>4

LEMMA SingleCollect ==
  ASSUME WorkInv, Single, NEW r \in Run, config # "unread", Collect(r), UNCHANGED config
  PROVE  Single'
<1>1. CASE \E o : Reconcile(r, o)  BY <1>1, SingleReconcile
<1>2. CASE run' = To(r, "fetch") /\ UNCHANGED <<record, timeouts>>
  <2>1. StateTypeOK /\ "fetch" \in Stages /\ record' = record  BY <1>2 DEF WorkInv, Stages
  <2> QED  BY <1>2, <2>1, SingleTo
<1> QED  BY <1>1, <1>2 DEF Collect

LEMMA SingleShow ==
  ASSUME WorkInv, Single, NEW r \in Run, NEW rec, NEW n, Seen(rec, n), UNCHANGED config,
         r \in Retry => ~rec.inFlight /\ config # "unread", ShowToast(r, rec, n)
  PROVE  Single'
<1>1. CASE config = "unread"
  <2>1. StateTypeOK /\ "toast" \in Stages  BY DEF WorkInv, Stages, Waiting
  <2>2. run' = To(r, "toast") /\ record' = rec  BY <1>1 DEF ShowToast, Await
  <2>3. record'.there = record.there /\ record'.inFlight = record.inFlight  BY <2>2 DEF Seen
  <2>4. record'.there => config # "unread"  BY <2>3 DEF Single
  <2> QED  BY <1>1, <2>1, <2>2, <2>3, <2>4, SingleTo
<1>2. CASE config # "unread"  BY <1>2, SingleBegin DEF ShowToast
<1> QED  BY <1>1, <1>2

LEMMA SingleHook ==
  ASSUME WorkInv, Single, NEW r \in Run, r \notin Retry, HookGoesOn(r), UNCHANGED config
  PROVE  Single'
<1>0. StateTypeOK /\ {"idle", "recording"} \subseteq Stages  BY DEF WorkInv, Stages
<1>1. CASE Clear(r, "idle")  BY <1>0, <1>1, SingleClear
<1>2. CASE run' = To(r, "recording") /\ UNCHANGED <<loading, record, timeouts>>
  <2>1. record' = record /\ (record'.there => config # "unread")  BY <1>2 DEF Single
  <2> QED  BY <1>0, <1>2, <2>1, SingleTo
<1>3. CASE ShowToast(r, record, timeouts)  BY <1>3, SingleShow, SeenRecord
<1> QED  BY <1>1, <1>2, <1>3 DEF HookGoesOn

LEMMA SingleTimer ==
  ASSUME WorkInv, Single, TimerFires
  PROVE  Single'
<1>1. PICK own \in {t \in BOOLEAN : IF t THEN record.timer ELSE Cancelled(record, timeouts) > 0} :
        LET rec == [record EXCEPT !.timer = @ /\ ~own]
        IN IF rec.there /\ ~rec.inFlight
             THEN \E r \in Retry : run[r].pc = "idle" /\ ShowToast(r, rec, timeouts - 1)
             ELSE record' = rec /\ timeouts' = timeouts - 1 /\ UNCHANGED <<loading, run>>
  BY DEF TimerFires
<1> DEFINE rec == [record EXCEPT !.timer = @ /\ ~own]
<1>2. Seen(rec, timeouts - 1)  BY FiredRecord
<1>3. UNCHANGED config  BY DEF TimerFires
<1> HIDE DEF rec
<1>4. ASSUME NEW r \in Retry, rec.there /\ ~rec.inFlight, ShowToast(r, rec, timeouts - 1)
      PROVE  Single'
  <2>1. r \in Run /\ config # "unread"  BY <1>2, <1>4 DEF Run, Seen, Single
  <2> QED  BY <1>2, <1>3, <1>4, <2>1, SingleShow
<1>5. CASE record' = rec /\ timeouts' = timeouts - 1 /\ UNCHANGED <<loading, run>>
  BY <1>2, <1>3, <1>5 DEF Single, OneConsumer, Seen
<1> QED  BY <1>1, <1>4, <1>5 DEF rec

\* Every step leaves the record to one call.
LEMMA SingleNext ==
  ASSUME IInv, Single, Readable, [Next]_vars
  PROVE  Single'
<1> WorkInv /\ environment \in Environments  BY DEF IInv
<1>0. StateTypeOK  BY DEF WorkInv
<1>1. ASSUME NEW r \in Run, Resumes(r)
      PROVE  Single'
  <2>1. CASE ToastReady(r)
    <3>1. r \notin Retry  BY <2>1 DEF ToastReady, Single
    <3> QED  BY <2>1, <3>1, SingleBegin, SeenRecord DEF ToastReady
  <2>2. CASE RenderReady(r)
    <3>1. config # "unread" /\ UNCHANGED config /\ Collect(r)  BY <2>2 DEF RenderReady, Single
    <3> QED  BY <3>1, SingleCollect
  <2>3. CASE HookReady(r)
    <3>1. r \notin Retry  BY <2>3 DEF HookReady, Single
    <3> QED  BY <2>3, <3>1, SingleHook DEF HookReady
  <2> QED  BY <1>1, <2>1, <2>2, <2>3 DEF Resumes
<1>2. ASSUME NEW r \in Run, Answered(r)
      PROVE  Single'
  <2>1. CASE Recorded(r)
    <3>1. r \notin Retry  BY <2>1 DEF Recorded, Single
    <3> QED  BY <2>1, <3>1, SingleShow, SeenRecord DEF Recorded
  <2>2. CASE Subagent(r)
    <3>0. "show" \in Stages /\ UNCHANGED config  BY <2>2 DEF Stages, Subagent
    <3>1. CASE Clear(r, "show")  BY <1>0, <3>0, <3>1, SingleClear
    <3>2. CASE run' = To(r, "show") /\ UNCHANGED <<record, timeouts>>
      <4>1. record' = record /\ (record'.there => config # "unread")  BY <3>2 DEF Single
      <4> QED  BY <1>0, <3>0, <3>2, <4>1, SingleTo
    <3> QED  BY <2>2, <3>1, <3>2 DEF Subagent
  <2>3. CASE Primary(r)
    <3>1. CASE Await(r, "render") /\ UNCHANGED <<config, record, timeouts>>
      <4>1. "render" \in Stages  BY DEF Stages, Waiting
      <4>2. record' = record /\ (record'.there => config # "unread")  BY <3>1 DEF Single
      <4> QED  BY <1>0, <3>1, <4>1, <4>2, SingleTo DEF Await
    <3>2. CASE config # "unread" /\ Collect(r) /\ UNCHANGED config  BY <3>2, SingleCollect
    <3> QED  BY <2>3, <3>1, <3>2 DEF Primary
  <2>4. CASE Release(r) /\ UNCHANGED config
    <3>1. run'[r] = NoRun /\ \A q \in Run : q # r => run'[q] = run[q]
      BY <1>0, <2>4 DEF Release, StateTypeOK
    <3>2. record'.there = record.there /\ (record'.inFlight = (record.inFlight /\ ~run[r].holds))
      BY <1>0, <2>4 DEF Release, StateTypeOK, RunType
    <3>3. OneConsumer'  BY <3>1 DEF Single, OneConsumer, NoRun
    <3>4. \A q \in Run : run'[q].holds => record'.inFlight
      <4> SUFFICES ASSUME NEW q \in Run, run'[q].holds PROVE record'.inFlight  OBVIOUS
      <4>1. q # r /\ run[q].holds  BY <3>1 DEF NoRun
      <4>2. ~run[r].holds  BY <4>1 DEF Single, OneConsumer
      <4> QED  BY <3>2, <4>1, <4>2 DEF Single
    <3>5. \A q \in Run : run'[q].ready \/ run'[q].pc = "fetch" => config' # "unread"
      BY <2>4, <3>1 DEF Single, NoRun
    <3>6. \A q \in Retry : run'[q].pc \notin {"hook", "toast", "recording"}
      BY <3>1 DEF Single, NoRun, Run
    <3> QED  BY <2>4, <3>2, <3>3, <3>4, <3>5, <3>6 DEF Single
  <2>5. ASSUME NEW o \in environment.fetches, Settle(r, o)
        PROVE  Single'
    <3>1. config # "unread" /\ UNCHANGED config  BY <2>5 DEF Settle, Single
    <3> QED  BY <2>4, <2>5, <3>1, SingleReconcile DEF Settle
  <2> QED  BY <1>2, <2>1, <2>2, <2>3, <2>4, <2>5 DEF Answered, Finish
<1>3. ASSUME NEW r \in Hook, Event(r)
      PROVE  Single'
  <2>1. r \in Run /\ r \notin Retry  BY DeferredAssumption DEF Run
  <2>2. CASE Await(r, "hook") /\ UNCHANGED <<config, record, timeouts>>
    <3>1. "hook" \in Stages  BY DEF Stages, Waiting
    <3>2. record' = record /\ (record'.there => config # "unread")  BY <2>2 DEF Single
    <3> QED  BY <1>0, <2>1, <2>2, <3>1, <3>2, SingleTo DEF Await
  <2>3. CASE HookGoesOn(r) /\ UNCHANGED config  BY <2>1, <2>3, SingleHook
  <2> QED  BY <1>3, <2>2, <2>3 DEF Event
<1>4. ASSUME NEW o \in {"on", "off"}, Load(o)
      PROVE  Single'
  <2>1. run' = [q \in Run |-> [run[q] EXCEPT !.ready = run[q].ready \/ run[q].pc \in Waiting]]
    BY <1>4 DEF Load
  <2>2. \A q \in Run : run'[q].pc = run[q].pc /\ run'[q].holds = run[q].holds
    BY <1>0, <2>1 DEF StateTypeOK, RunType
  <2>3. config' # "unread" /\ record' = record  BY <1>4 DEF Load
  <2> QED  BY <2>2, <2>3 DEF Single, OneConsumer, Run
<1>5. CASE UNCHANGED vars  BY <1>5 DEF vars, Single, OneConsumer
<1>6. environment.hooks \subseteq Hook /\ environment.loads \subseteq {"on", "off"}
  BY DeferredAssumption DEF Readable
<1> QED  BY <1>1, <1>2, <1>3, <1>4, <1>5, <1>6, SingleTimer DEF Next, LoadEnds

\* A deferred retry that is marked in flight has a call at work on it, and where the
\* configuration can be read just one, however many hooks and timers overlap.
THEOREM ConsumedOnce == Spec => []ConsumedByOne
<1>1. Init => (Readable => Single)
  BY DeferredAssumption DEF Init, Single, OneConsumer, NoRecord, NoRun, Run
<1>2. IInv /\ (Readable => Single) /\ [Next]_vars => (Readable => Single)'
  <2> SUFFICES ASSUME IInv, Readable => Single, [Next]_vars, Readable' PROVE Single'  OBVIOUS
  <2>1. environment' = environment  BY DEF Next, vars
  <2>2. Readable  BY <2>1 DEF Readable
  <2> QED  BY <2>2, SingleNext
<1>3. IInv /\ (Readable => Single) => ConsumedByOne  BY DEF IInv, WorkInv, Single, ConsumedByOne
<1> QED  BY <1>1, <1>2, <1>3, InductiveInvariant, PTL DEF Spec
==============================================================================
