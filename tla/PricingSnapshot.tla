------------------------------ MODULE PricingSnapshot ------------------------------
(***************************************************************************)
(* The prices of models (modelsdev-pricing.ts): bundled with the plugin,   *)
(* and refreshed from models.dev into a file of the cache directory, with  *)
(* a second file for the state of the refresh.  A refresh is conditional:  *)
(* it sends the etag of the state file, and an answer of 304 stamps the    *)
(* prices of the snapshot file anew.  The two files are written one after  *)
(* the other, by any of several processes, with nothing that keeps their   *)
(* refreshes apart.                                                        *)
(*                                                                         *)
(* A snapshot has the version of the list its prices are of and the time   *)
(* it is stamped with.  An etag is a version: it stands for what a request *)
(* is conditional on, be it the ETag or the Last-Modified of an answer.    *)
(***************************************************************************)
EXTENDS Integers, FiniteSets

CONSTANTS
  Process,
  Bundled,       \* the snapshot of the package, Empty without data
  Empty,         \* EMPTY_SNAPSHOT
  Nothing,       \* a file that is not there, or cannot be read
  Selections,    \* of "auto", "bundled", "runtime"
  Losable,       \* files that may be lost: of "snapshot", "state"
  MaxAge, MinInterval,
  MaxClock, MaxVersion, MaxFaults

VARIABLES
  clock, version, since,   \* the list that is served, and since when each version is
  snapshot, state,         \* the two files
  faults,
  loaded, checked,         \* by process: SNAPSHOT, PROCESS_REFRESH_CHECKED
  selection,               \* SNAPSHOT_SELECTION
  flight,                  \* REFRESH_IN_FLIGHT: the step and the values it has so far
  undisturbed              \* history: no two refreshes have overlapped, and no snapshot was lost

pricingVars == <<clock, version, since, snapshot, state, faults, loaded, checked, selection, flight, undisturbed>>

Snapshots == [of : Nat, at : Nat]
Never == -1
Idle == [step |-> "idle"]
FirstState == [attempt |-> Never, etag |-> Never, result |-> "none"]

------------------------------------------------------------------------------
\* chooseSnapshot
Choose(select) ==
  IF select = "bundled" THEN Bundled
  ELSE IF select = "runtime" THEN (IF snapshot # Nothing THEN snapshot ELSE Bundled)
  ELSE IF snapshot # Nothing /\ (Bundled = Empty \/ snapshot.at >= Bundled.at) THEN snapshot
  ELSE Bundled

\* getPricingSnapshotHealth: what has no data is as old as can be.
Stale(s, now) == s = Empty \/ now - s.at > MaxAge

\* Why a refresh does not ask, or "ask"; refreshes are not switched off altogether.
Verdict(p, call, now, previous) ==
  IF call.select = "bundled" /\ ~call.allowBundled THEN "selection_bundled"
  ELSE IF call.force THEN "ask"
  ELSE IF checked[p] THEN "already_checked_this_process"
  ELSE IF ~Stale(Choose(call.select), now) THEN "fresh"
  ELSE IF previous.attempt # Never /\ now - previous.attempt < MinInterval THEN "throttled"
  ELSE "ask"

------------------------------------------------------------------------------
PricingInit ==
  /\ clock = 0 /\ version = 1 /\ since = [v \in {1} |-> 0]
  /\ snapshot = Nothing /\ state = Nothing /\ faults = 0
  /\ loaded = [p \in Process |-> Nothing] /\ checked = [p \in Process |-> FALSE]
  /\ selection \in [Process -> Selections]
  /\ flight = [p \in Process |-> Idle]
  /\ undisturbed = TRUE

Tick ==
  /\ clock < MaxClock /\ clock' = clock + 1
  /\ UNCHANGED <<version, since, snapshot, state, faults, loaded, checked, selection, flight>>

\* models.dev has new prices.
Publish ==
  /\ version < MaxVersion /\ version' = version + 1
  /\ since' = [v \in 1..version' |-> IF v = version' THEN clock ELSE since[v]]
  /\ UNCHANGED <<clock, snapshot, state, faults, loaded, checked, selection, flight>>

\* setPricingSnapshotSelection
Select(p, s) ==
  /\ selection[p] # s
  /\ selection' = [selection EXCEPT ![p] = s]
  /\ loaded' = [loaded EXCEPT ![p] = Nothing]
  /\ UNCHANGED <<clock, version, since, snapshot, state, faults, checked, flight>>

\* maybeRefreshPricingSnapshot up to its first await; a second call joins the first.
Call(p, force, allow) ==
  /\ flight[p] = Idle
  /\ flight' = [flight EXCEPT ![p] = [step |-> "state", now |-> clock, force |-> force, allowBundled |-> allow,
                                      select |-> selection[p]]]
  /\ UNCHANGED <<clock, version, since, snapshot, state, faults, loaded, checked, selection>>

\* With the state file read, the rest up to the request.
Decide(p) ==
  LET call == flight[p]
      previous == IF state = Nothing THEN FirstState ELSE state
      verdict == Verdict(p, call, call.now, previous)
  IN  /\ call.step = "state"
      /\ loaded' = [loaded EXCEPT ![p] = Choose(call.select)]
      /\ checked' = [checked EXCEPT ![p] = @ \/ verdict # "selection_bundled"]
      /\ flight' = [flight EXCEPT ![p] =
            IF verdict # "ask" THEN Idle
            ELSE [step |-> "asking", now |-> call.now, select |-> call.select, before |-> snapshot,
                  next |-> [previous EXCEPT !.attempt = call.now]]]
      /\ UNCHANGED <<clock, version, since, snapshot, state, faults, selection>>

\* What is going to be written: the snapshot first, then the state.
Writes(p, content, next) ==
  flight' = [flight EXCEPT ![p] = [step |-> "snapshot", select |-> @.select, content |-> content,
                                   next |-> next, failed |-> [@.next EXCEPT !.result = "failed"]]]
Fails(p) ==
  flight' = [flight EXCEPT ![p] = [step |-> "save", next |-> [@.next EXCEPT !.result = "failed"]]]

\* The server has what the etag says: the prices from before are good for longer, be
\* they of the file, of the package or none at all.
NotModified(p) ==
  LET call == flight[p]
      base == IF call.before # Nothing THEN call.before
              ELSE IF loaded[p] # Nothing THEN loaded[p] ELSE Choose(selection[p])
  IN  /\ call.step = "asking" /\ call.next.etag = version
      /\ Writes(p, [of |-> IF base = Empty THEN 0 ELSE base.of, at |-> call.now], [call.next EXCEPT !.result = "not_modified"])
      /\ UNCHANGED <<clock, version, since, snapshot, state, faults, loaded, checked, selection>>

\* A new list, unless it has no prices; a header may be missing.
Modified(p) ==
  LET call == flight[p]
  IN  /\ call.step = "asking" /\ call.next.etag # version
      /\ \E etag \in {version, call.next.etag} :
           Writes(p, [of |-> version, at |-> call.now],
                  [call.next EXCEPT !.result = "success", !.etag = etag])
      /\ UNCHANGED <<clock, version, since, snapshot, state, faults, loaded, checked, selection>>

\* An error, a timeout, or a list without any price.
AskFails(p) ==
  /\ flight[p].step = "asking" /\ Fails(p)
  /\ UNCHANGED <<clock, version, since, snapshot, state, faults, loaded, checked, selection>>

\* Mutant: the state is saved as if the snapshot had been written.
WriteSnapshot_Recorded(p) ==
  /\ flight[p].step = "snapshot"
  /\ snapshot' \in {snapshot, flight[p].content}
  /\ flight' = [flight EXCEPT ![p] = [step |-> "reselect", select |-> @.select, next |-> @.next]]
  /\ UNCHANGED <<clock, version, since, state, faults, loaded, checked, selection>>

\* A failure to write the snapshot is a failure of the refresh.  The file that could not
\* be replaced may be removed by then, and that be all (writeJsonAtomic).
WriteSnapshot(p) ==
  /\ flight[p].step = "snapshot"
  /\ \/ /\ snapshot' = flight[p].content
        /\ flight' = [flight EXCEPT ![p] = [step |-> "reselect", select |-> @.select, next |-> @.next]]
     \/ /\ snapshot' \in {snapshot, Nothing}
        /\ flight' = [flight EXCEPT ![p] = [step |-> "save", next |-> @.failed]]
  /\ UNCHANGED <<clock, version, since, state, faults, loaded, checked, selection>>

\* applySnapshotSelection reads the file again, which may be another's by now.
Reselect(p) ==
  /\ flight[p].step = "reselect"
  /\ loaded' = [loaded EXCEPT ![p] = Choose(flight[p].select)]
  /\ flight' = [flight EXCEPT ![p] = [step |-> "save", next |-> @.next]]
  /\ UNCHANGED <<clock, version, since, snapshot, state, faults, checked, selection>>

\* The state is saved as well as may be.
SaveState(p) ==
  /\ flight[p].step = "save"
  /\ state' \in {state, flight[p].next, Nothing}
  /\ flight' = [flight EXCEPT ![p] = Idle]
  /\ UNCHANGED <<clock, version, since, snapshot, faults, loaded, checked, selection>>

\* ensureLoaded, for a lookup of prices
Lookup(p) ==
  /\ loaded[p] = Nothing
  /\ loaded' = [loaded EXCEPT ![p] = Choose(selection[p])]
  /\ UNCHANGED <<clock, version, since, snapshot, state, faults, checked, selection, flight>>

Restart(p) ==
  /\ faults < MaxFaults /\ faults' = faults + 1
  /\ loaded' = [loaded EXCEPT ![p] = Nothing] /\ checked' = [checked EXCEPT ![p] = FALSE]
  /\ flight' = [flight EXCEPT ![p] = Idle]
  /\ UNCHANGED <<clock, version, since, snapshot, state, selection>>

Lose ==
  /\ faults < MaxFaults /\ faults' = faults + 1
  /\ \E file \in Losable :
       /\ state' = IF file = "state" THEN Nothing ELSE state
       /\ snapshot' = IF file = "snapshot" THEN Nothing ELSE snapshot
  /\ UNCHANGED <<clock, version, since, loaded, checked, selection, flight>>

Advance ==
  \/ Tick \/ Publish \/ Lose
  \/ \E p \in Process :
       \/ \E s \in Selections : Select(p, s)
       \/ \E force, allow \in BOOLEAN : Call(p, force, allow)
       \/ Decide(p) \/ NotModified(p) \/ Modified(p) \/ AskFails(p)
       \/ WriteSnapshot(p) \/ Reselect(p) \/ SaveState(p) \/ Lookup(p) \/ Restart(p)

\* A process that has asked for the list, and has not yet saved what came of it.
Refreshing(p) == flight[p].step \notin {"idle", "state"}

\* History: what the promise about the stamps depends on.
Noted ==
  undisturbed' = /\ undisturbed
                 /\ snapshot # Nothing => snapshot' # Nothing
                 /\ \A p, q \in Process : p # q => ~(Refreshing(p)' /\ Refreshing(q)')

PricingNext == Advance /\ Noted
PricingSpec == PricingInit /\ [][PricingNext]_pricingVars

------------------------------------------------------------------------------
(* Property.                                                                *)

\* Prices that are stamped with a time are no older than the list of that time,
\* whichever of the processes refresh them, and through write failures, crashes and
\* missing state files, until two refreshes overlap or the snapshot file is lost: an
\* etag is never kept for prices that were not stored, so that a 304 cannot renew
\* outdated ones (fetchModelsDevSnapshot, maybeRefreshPricingSnapshot).
StampIsTrue ==
  undisturbed =>
    \A s \in {snapshot} \cup {loaded[p] : p \in Process} :
      s \notin {Nothing, Empty, Bundled} => \A v \in 1..version : since[v] < s.at => v <= s.of
==============================================================================
