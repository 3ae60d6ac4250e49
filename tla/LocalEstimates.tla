------------------------------ MODULE LocalEstimates ------------------------------
(***************************************************************************)
(* The two quotas that are counted locally, for want of an endpoint that   *)
(* says them: Qwen's free requests per UTC day and per minute, and the     *)
(* three rolling windows of the Alibaba coding plan.  A completed question *)
(* is recorded by reading a journal, pruning it, appending, and replacing  *)
(* the file, without a lock; queries compute what is left from the file.   *)
(*                                                                         *)
(* Times are whole ticks.  A call takes its time when it starts, and the   *)
(* clock may be set back under it.                                         *)
(***************************************************************************)
EXTENDS Integers, FiniteSets

CONSTANTS
  Recording,     \* recordings, of all the processes that share the file
  Window,        \* the rolling windows: name -> [length, limit]
  Longest,       \* RPM_WINDOW_MS, MONTHLY_WINDOW_MS
  Cap,           \* MAX_QWEN_RECENT_TIMESTAMPS, MAX_ALIBABA_MONTHLY_LIMIT
  Day,           \* ticks of a UTC day
  DayLimit,      \* QWEN_FREE_DAILY_LIMIT; 0 for the plan, which has no such count
  MaxNow, MaxFaults,
  NoFile         \* no file, or one that cannot be parsed

VARIABLES
  now, faults,
  journal,       \* NoFile, or [day, count, recent]
  pc, at, loaded,\* of each recording
  exact          \* no overlap, failure or change of the clock so far

estimateVars == <<now, faults, journal, pc, at, loaded, exact>>

Unreadable == -1
NoTimes == [r \in {} |-> 0]

\* The list of times has those of some recordings, each with its age: how many were
\* appended after it.  A time that is none is Unreadable in its place.
Journal ==
  [day : Int, count : Nat \cup {Unreadable},
   recent : UNION {[kept -> Nat \cup {Unreadable}] : kept \in SUBSET Recording}]

\* defaultQwenState, defaultAlibabaState
Default(t) == [day |-> t \div Day, count |-> 0, recent |-> NoTimes]

\* normalizeQwenState, normalizeAlibabaState: damaged parts fall to their defaults
\* one by one.
Normalized(j, t) ==
  IF j = NoFile THEN Default(t)
  ELSE [day |-> IF j.day = Unreadable THEN t \div Day ELSE j.day,
        count |-> IF j.count = Unreadable THEN 0 ELSE j.count,
        recent |-> [r \in {x \in DOMAIN j.recent : j.recent[x] # Unreadable} |-> j.recent[r]]]

\* slice(-Cap): what has fewer than that many after it.
Last(age) ==
  [r \in {x \in DOMAIN age : Cardinality({y \in DOMAIN age : age[y] < age[x]}) < Cap} |-> age[r]]

\* The times from a floor to t.
Within(age, length, t) == [r \in {x \in DOMAIN age : at[x] \in (t - length)..t} |-> age[r]]

\* Mutant: the count of another day is kept.
Pruned_Kept(s, t) ==
  [day |-> t \div Day, count |-> s.count, recent |-> Last(Within(s.recent, Longest, t))]

\* applyUtcResetAndPrune, pruneAlibabaState
Pruned(s, t) ==
  [day |-> t \div Day, count |-> IF s.day = t \div Day THEN s.count ELSE 0,
   recent |-> Last(Within(s.recent, Longest, t))]

\* readQwenLocalQuotaState, readAlibabaCodingPlanQuotaState
Read(j, t) == Pruned(Normalized(j, t), t)

\* The others grow older by one.
Appended(age, r) == [x \in DOMAIN age \cup {r} |-> IF x = r THEN 0 ELSE age[x] + 1]

\* The state a recording writes, from what it read.
Recorded(r) ==
  LET s == Read(loaded[r], at[r])
  IN  [day |-> s.day, count |-> s.count + 1, recent |-> Last(Appended(s.recent, r))]

\* toPercentRemaining
PercentRemaining(used, limit) ==
  IF limit <= 0 THEN 0
  ELSE LET percent == ((limit - used) * 100) \div limit
       IN  IF percent < 0 THEN 0 ELSE IF percent > 100 THEN 100 ELSE percent

\* computeRollingWindow; computeQwenQuota has one window as long as the pruned list.
InWindow(s, w, t) == Within(s.recent, Window[w].length, t)

\* computeQwenQuota, computeAlibabaCodingPlanQuota: used, of each window and the day
Used(j, w, t) == Cardinality(DOMAIN InWindow(Read(j, t), w, t))
UsedToday(j, t) == Read(j, t).count

------------------------------------------------------------------------------
EstimateInit ==
  /\ now = 0 /\ faults = 0
  /\ journal = NoFile
  /\ pc = [r \in Recording |-> "idle"] /\ at = [r \in Recording |-> 0]
  /\ loaded = [r \in Recording |-> NoFile]
  /\ exact = TRUE

Tick ==
  /\ now < MaxNow /\ now' = now + 1
  /\ UNCHANGED <<faults, journal, pc, at, loaded, exact>>

ClockBack ==
  /\ faults < MaxFaults /\ faults' = faults + 1
  /\ now > 0 /\ now' \in 0..(now - 1)
  /\ exact' = FALSE
  /\ UNCHANGED <<journal, pc, at, loaded>>

\* recordQwenCompletion, recordAlibabaCodingPlanCompletion, up to the read
Complete(r) ==
  /\ pc[r] = "idle"
  /\ pc' = [pc EXCEPT ![r] = "reading"]
  /\ at' = [at EXCEPT ![r] = now]
  /\ exact' = (exact /\ \A other \in Recording \ {r} : pc[other] \in {"idle", "done"})
  /\ UNCHANGED <<now, faults, journal, loaded>>

ReadJournal(r) ==
  /\ pc[r] = "reading"
  /\ pc' = [pc EXCEPT ![r] = "writing"]
  /\ loaded' = [loaded EXCEPT ![r] = journal]
  /\ UNCHANGED <<now, faults, journal, at, exact>>

Written(r, file) ==
  /\ pc[r] = "writing"
  /\ pc' = [pc EXCEPT ![r] = "done"]
  /\ journal' = file
  /\ UNCHANGED <<now, at, loaded>>

\* writeJsonAtomic: a rename to the path
WriteJournal(r) ==
  /\ Written(r, Recorded(r))
  /\ UNCHANGED <<faults, exact>>

\* The write fails, or the process ends, before the rename; where the target had to
\* be removed for the rename, after that.
WriteFails(r) ==
  /\ faults < MaxFaults /\ faults' = faults + 1
  /\ \E file \in {journal, NoFile} : Written(r, file)
  /\ exact' = FALSE

\* Something else damages the file, in whole or in part.
Damage ==
  /\ faults < MaxFaults /\ faults' = faults + 1
  /\ journal # NoFile
  /\ \/ journal' = NoFile
     \/ journal' = [journal EXCEPT !.count = Unreadable]
     \/ journal' = [journal EXCEPT !.day = Unreadable, !.count = Unreadable]
     \/ \E r \in DOMAIN journal.recent : journal' = [journal EXCEPT !.recent[r] = Unreadable]
  /\ exact' = FALSE
  /\ UNCHANGED <<now, pc, at, loaded>>

EstimateNext ==
  \/ Tick \/ ClockBack \/ Damage
  \/ \E r \in Recording : Complete(r) \/ ReadJournal(r) \/ WriteJournal(r) \/ WriteFails(r)

EstimateSpec == EstimateInit /\ [][EstimateNext]_estimateVars

------------------------------------------------------------------------------
(* Properties.                                                              *)

\* What was completed, of a window and of the day.
CompletedIn(w) ==
  Cardinality({r \in Recording : pc[r] # "idle" /\ at[r] \in (now - Window[w].length)..now})
CompletedToday == Cardinality({r \in Recording : pc[r] # "idle" /\ at[r] \div Day = now \div Day})

\* What is shown as used was used: overlapping recordings, failed writes, damage and
\* a clock that is set back lose completions of a window, but never add one.
NeverOvercounts ==
  /\ \A w \in DOMAIN Window : Used(journal, w, now) <= CompletedIn(w)
  /\ UsedToday(journal, now) <= CompletedToday

\* Recordings that do not overlap, with a clock that goes forward, leave the share
\* that remains of every window exact, also when more are recorded than the journal
\* keeps, and after each change of the day.
SerialIsExact ==
  exact /\ (\A r \in Recording : pc[r] \in {"idle", "done"}) =>
    /\ \A w \in DOMAIN Window :
         PercentRemaining(Used(journal, w, now), Window[w].limit)
           = PercentRemaining(CompletedIn(w), Window[w].limit)
    /\ PercentRemaining(UsedToday(journal, now), DayLimit) = PercentRemaining(CompletedToday, DayLimit)

==============================================================================
