------------------------------ MODULE StoreProofs ------------------------------
(***************************************************************************)
(* Proofs about the stores of Stores.tla, part by part: all processes that *)
(* have a key that tells accounts apart have the published one; no prices  *)
(* are older than their stamp; the helper carries out in its turn, once,   *)
(* what the client believes it did; what was saved of an API key is in the *)
(* file; alerts are about the rules in their file; and settings are loaded *)
(* as the files say, of which the setup loses none.  The parts share       *)
(* nothing, so the invariant of each is kept by its own steps and by no    *)
(* other's.                                                                *)
(***************************************************************************)
EXTENDS Stores, FiniteSetTheorems, WellFoundedInduction, TLAPS

------------------------------------------------------------------------------
(* The key that tells accounts apart: any number of processes, reads, faults. *)

\* What is about to be written or linked is a whole key: the check of the temporary
\* file is what keeps a damaged one from being published.
WholeLinks ==
  \A p \in Process :
    /\ pc[p] = "linking" => temporary[p] \in Key
    /\ pc[p] = "writing" => generated[p] \in Key
    /\ pc[p] = "waiting" => reads[p] > 0

IdentityInv == IdentityTypeOK /\ OneKey /\ PublishedWhole /\ WholeLinks

LEMMA InitIdentity == IdentityInit => IdentityInv
BY ReadsAssumption, KeyAssumption
   DEF IdentityInit, IdentityInv, IdentityTypeOK, OneKey, PublishedWhole, WholeLinks, PCs

\* What a read returns is null or, where nothing damaged the file, the published key.
LEMMA ReadsPublished ==
  ASSUME PublishedWhole
  PROVE  KeyIn(file) \in {None, published} /\ KeyIn(file) \in Key \cup {None}
BY KeyAssumption DEF PublishedWhole, KeyIn

\* A step of one process keeps the invariant: only the settling steps touch a memo,
\* and only Link the file.
LEMMA StepKeepsIdentity ==
  ASSUME IdentityInv, NEW p \in Process, Step(p)
  PROVE  IdentityInv'
<1>1. CASE Need(p)
  BY <1>1, KeyAssumption DEF Need, Goes, IdentityInv, IdentityTypeOK, OneKey, PublishedWhole, WholeLinks, PCs
<1>2. CASE ReadExisting(p)
  <2> DEFINE k == KeyIn(file)
  <2>1. k \in {None, published} /\ k \in Key \cup {None}
    BY ReadsPublished DEF IdentityInv
  <2> HIDE DEF k
  <2>2. CASE k # None
    BY <1>2, <2>1, <2>2, KeyAssumption
       DEF ReadExisting, Settle, Goes, IdentityInv, IdentityTypeOK, OneKey, PublishedWhole, WholeLinks, PCs, k
  <2>3. CASE k = None
    BY <1>2, <2>3, KeyAssumption
       DEF ReadExisting, Goes, IdentityInv, IdentityTypeOK, OneKey, PublishedWhole, WholeLinks, PCs, k
  <2> QED BY <2>2, <2>3
<1>3. CASE WriteTemporary(p)
  <2>1. generated[p] \in Key
    BY <1>3 DEF WriteTemporary, Goes, IdentityInv, WholeLinks
  <2> QED BY <1>3, <2>1, KeyAssumption
       DEF WriteTemporary, Goes, IdentityInv, IdentityTypeOK, OneKey, PublishedWhole, WholeLinks, PCs
<1>4. CASE CheckTemporary(p)
  BY <1>4, KeyAssumption
     DEF CheckTemporary, Settle, KeyIn, Goes, IdentityInv, IdentityTypeOK, OneKey, PublishedWhole, WholeLinks, PCs
<1>5. CASE Link(p)
  <2>1. temporary[p] \in Key
    BY <1>5 DEF Link, Goes, IdentityInv, WholeLinks
  <2>2. CASE file = Absent
    <3>1. \A q \in Process : memo[q] = None
      BY <2>2, KeyAssumption DEF IdentityInv, OneKey, PublishedWhole
    <3> QED BY <1>5, <2>1, <2>2, <3>1, KeyAssumption
         DEF Link, Goes, IdentityInv, IdentityTypeOK, OneKey, PublishedWhole, WholeLinks, PCs
  <2>3. CASE file # Absent
    BY <1>5, <2>3, KeyAssumption, ReadsAssumption
       DEF Link, Goes, IdentityInv, IdentityTypeOK, OneKey, PublishedWhole, WholeLinks, PCs
  <2> QED BY <2>2, <2>3
<1>6. CASE Confirm(p)
  <2>1. KeyIn(file) \in {None, published} /\ KeyIn(file) \in Key \cup {None}
    BY ReadsPublished DEF IdentityInv
  <2> QED BY <1>6, <2>1, KeyAssumption
       DEF Confirm, Settle, Goes, IdentityInv, IdentityTypeOK, OneKey, PublishedWhole, WholeLinks, PCs
<1>7. CASE ReadWinner(p)
  <2> DEFINE k == KeyIn(file)
  <2>1. k \in {None, published} /\ k \in Key \cup {None}
    BY ReadsPublished DEF IdentityInv
  <2> HIDE DEF k
  <2>2. reads' \in [Process -> 0..MaxReads]
    <3>1. reads \in [Process -> 0..MaxReads] /\ reads' = [reads EXCEPT ![p] = @ - 1]
      BY <1>7 DEF ReadWinner, IdentityInv, IdentityTypeOK
    <3>2. reads[p] > 0
      BY <1>7 DEF ReadWinner, IdentityInv, WholeLinks
    <3> QED BY <3>1, <3>2, ReadsAssumption
  <2>3. CASE k = None /\ reads[p] > 1
    BY <1>7, <2>2, <2>3, KeyAssumption
       DEF ReadWinner, IdentityInv, IdentityTypeOK, OneKey, PublishedWhole, WholeLinks, PCs, k
  <2>4. CASE ~(k = None /\ reads[p] > 1)
    BY <1>7, <2>1, <2>2, <2>4, KeyAssumption
       DEF ReadWinner, Settle, Goes, IdentityInv, IdentityTypeOK, OneKey, PublishedWhole, WholeLinks, PCs, k
  <2> QED BY <2>3, <2>4
<1>8. CASE RemoveTemporary(p)
  BY <1>8, KeyAssumption
     DEF RemoveTemporary, Goes, IdentityInv, IdentityTypeOK, OneKey, PublishedWhole, WholeLinks, PCs
<1> QED BY <1>1, <1>2, <1>3, <1>4, <1>5, <1>6, <1>7, <1>8 DEF Step

\* Faults keep it too: they forget keys and damage the file, and publish nothing.
LEMMA FaultKeepsIdentity ==
  ASSUME IdentityInv, Disturb \/ \E p \in Process : WriteFails(p) \/ Refused(p) \/ Restart(p)
  PROVE  IdentityInv'
<1>1. CASE Disturb
  <2>1. /\ file' = file \/ (file \in Key /\ file' = Damaged)
        /\ UNCHANGED <<pc, generated, temporary, reads, memo, published>>
    BY <1>1 DEF Disturb
  <2>2. protected' \in BOOLEAN /\ faults' \in Nat
    <3>1. protected' = FALSE \/ protected' = protected
      BY <1>1, Zenon DEF Disturb
    <3>2. faults' = faults + 1
      BY <1>1 DEF Disturb
    <3>3. protected \in BOOLEAN /\ faults \in Nat
      BY DEF IdentityInv, IdentityTypeOK
    <3>4. protected' \in BOOLEAN
      BY <3>1, <3>3, Zenon
    <3>5. faults' \in Nat
      BY <3>2, <3>3
    <3> QED BY <3>4, <3>5
  <2>3. file' \in Key \cup {Absent, Damaged} /\ PublishedWhole'
    BY <2>1, KeyAssumption DEF IdentityInv, IdentityTypeOK, PublishedWhole
  <2>4. IdentityTypeOK'
    BY <2>1, <2>2, <2>3 DEF IdentityInv, IdentityTypeOK
  <2>5. OneKey' /\ WholeLinks'
    BY <2>1 DEF IdentityInv, OneKey, WholeLinks
  <2> QED BY <2>3, <2>4, <2>5 DEF IdentityInv
<1>2. ASSUME NEW p \in Process, WriteFails(p) PROVE IdentityInv'
  BY <1>2, KeyAssumption
     DEF WriteFails, Goes, IdentityInv, IdentityTypeOK, OneKey, PublishedWhole, WholeLinks, PCs
<1>3. ASSUME NEW p \in Process, Restart(p) PROVE IdentityInv'
  BY <1>3, KeyAssumption, ReadsAssumption
     DEF Restart, IdentityInv, IdentityTypeOK, OneKey, PublishedWhole, WholeLinks, PCs
<1>4. ASSUME NEW p \in Process, Refused(p) PROVE IdentityInv'
  <2>1. faults \in Nat /\ faults' = faults + 1 /\ UNCHANGED <<file, protected, temporary, published>>
    BY <1>4 DEF Refused, IdentityInv, IdentityTypeOK
  <2>2. CASE /\ pc[p] = "reading" /\ Goes(p, "writing") /\ UNCHANGED <<memo, reads>>
             /\ \E key \in Key : generated' = [generated EXCEPT ![p] = key]
    BY <2>1, <2>2, KeyAssumption
       DEF Goes, IdentityInv, IdentityTypeOK, OneKey, PublishedWhole, WholeLinks, PCs
  <2>3. CASE /\ pc[p] \in {"reading", "checking", "linking", "confirming"} /\ Settle(p, None)
             /\ UNCHANGED <<generated, reads>>
    BY <2>1, <2>3, KeyAssumption
       DEF Settle, Goes, IdentityInv, IdentityTypeOK, OneKey, PublishedWhole, WholeLinks, PCs
  <2>4. CASE /\ pc[p] = "waiting" /\ reads' = [reads EXCEPT ![p] = @ - 1] /\ UNCHANGED generated
             /\ IF reads[p] > 1 THEN UNCHANGED <<pc, memo>> ELSE Settle(p, None)
    <3>1. reads \in [Process -> 0..MaxReads] /\ reads[p] > 0 /\ reads' \in [Process -> 0..MaxReads]
      BY <2>4, ReadsAssumption DEF IdentityInv, IdentityTypeOK, WholeLinks
    <3>2. CASE reads[p] > 1
      BY <2>1, <2>4, <3>1, <3>2, KeyAssumption DEF IdentityInv, IdentityTypeOK, OneKey, PublishedWhole, WholeLinks, PCs
    <3>3. CASE ~(reads[p] > 1)
      BY <2>1, <2>4, <3>1, <3>3, KeyAssumption
         DEF Settle, Goes, IdentityInv, IdentityTypeOK, OneKey, PublishedWhole, WholeLinks, PCs
    <3> QED BY <3>2, <3>3
  <2> QED BY <1>4, <2>2, <2>3, <2>4 DEF Refused
<1> QED BY <1>1, <1>2, <1>3, <1>4

LEMMA NextKeepsIdentity == IdentityInv /\ [IdentityNext]_identityVars => IdentityInv'
<1> SUFFICES ASSUME IdentityInv, [IdentityNext]_identityVars PROVE IdentityInv' OBVIOUS
<1>1. CASE UNCHANGED identityVars
  BY <1>1 DEF identityVars, IdentityInv, IdentityTypeOK, OneKey, PublishedWhole, WholeLinks
<1>2. CASE IdentityNext
  BY <1>2, StepKeepsIdentity, FaultKeepsIdentity DEF IdentityNext
<1> QED BY <1>1, <1>2

------------------------------------------------------------------------------
(* Prices: refreshes by any number of processes, until two of them overlap. *)

States == [attempt : Int, etag : Int, result : {"none", "failed", "success", "not_modified"}]

Calls ==
  [step : {"idle"}]
  \cup [step : {"state"}, now : Nat, force : BOOLEAN, allowBundled : BOOLEAN, select : Selections]
  \cup [step : {"asking"}, now : Nat, select : Selections, before : P!Snapshots \cup {Nothing}, next : States]
  \cup [step : {"snapshot"}, select : Selections, content : P!Snapshots, next : States, failed : States]
  \cup [step : {"reselect"}, select : Selections, next : States]
  \cup [step : {"save"}, next : States]

PricingTypeOK ==
  /\ clock \in Nat /\ version \in Nat \ {0} /\ since \in [1..version -> Nat]
  /\ snapshot \in P!Snapshots \cup {Nothing}
  /\ state \in States \cup {Nothing}
  /\ prices \in [PricingProcess -> P!Snapshots \cup {Nothing, Bundled}]
  /\ selection \in [PricingProcess -> Selections]
  /\ flight \in [PricingProcess -> Calls]
  /\ undisturbed \in BOOLEAN

\* No list is newer than the clock.
SinceIsPast == \A v \in 1..version : since[v] <= clock

\* A snapshot's stamp is not newer than the clock, nor than its prices.
Dated(s) == s.at <= clock /\ \A v \in 1..version : since[v] < s.at => v <= s.of

\* An etag stands for prices at least as new in the snapshot s.
Backed(etag, s) == etag = P!Never \/ (etag \in 1..version /\ s \in P!Snapshots /\ etag <= s.of)

FilesAreTrue ==
  /\ snapshot # Nothing => Dated(snapshot)
  /\ state # Nothing => Backed(state.etag, snapshot)

LoadedIsTrue == \A p \in PricingProcess : prices[p] \notin {Nothing, Bundled} => Dated(prices[p])

\* What a refresh holds of the files is still so, and what it is about to write is true.
Held(r) ==
  /\ r.step \in {"state", "asking"} => r.now <= clock
  /\ r.step = "asking" => r.before = snapshot /\ Backed(r.next.etag, snapshot)
  /\ r.step = "snapshot" => /\ Dated(r.content) /\ Backed(r.next.etag, r.content)
                            /\ Backed(r.failed.etag, snapshot)
                            /\ state # Nothing => Backed(state.etag, r.content)
  /\ r.step \in {"reselect", "save"} => Backed(r.next.etag, snapshot)

FlightIsTrue == \A p \in PricingProcess : Held(flight[p])

\* While nothing has disturbed the refreshes, one process at most has asked for the
\* list; the others have read no more than the state file, and hold on to nothing.
OneRefreshes == \A p, q \in PricingProcess : P!Refreshing(p) /\ P!Refreshing(q) => p = q

AllTrue == FilesAreTrue /\ LoadedIsTrue /\ FlightIsTrue

PricingInv == PricingTypeOK /\ SinceIsPast /\ (undisturbed => AllTrue /\ OneRefreshes)

LEMMA InitPricing == P!PricingInit => PricingInv
BY DEF P!PricingInit, PricingInv, PricingTypeOK, SinceIsPast, AllTrue, FilesAreTrue, LoadedIsTrue, FlightIsTrue,
       OneRefreshes, P!Refreshing, Held, P!Idle, Calls

\* What the history says of a step: it is not undone, and no second refresh has begun.
LEMMA NotedTells ==
  ASSUME PricingInv, P!Noted
  PROVE  /\ undisturbed' \in BOOLEAN
         /\ undisturbed' => undisturbed /\ AllTrue /\ OneRefreshes /\ OneRefreshes'
                            /\ (snapshot # Nothing => snapshot' # Nothing)
BY DEF PricingInv, P!Noted, OneRefreshes, P!Refreshing

\* So the invariant holds again where types do, and where what was true still is.
LEMMA KeptIf ==
  ASSUME PricingInv, P!Noted, undisturbed' \in BOOLEAN => PricingTypeOK', SinceIsPast',
         undisturbed /\ undisturbed' => AllTrue'
  PROVE  PricingInv'
BY NotedTells DEF PricingInv

\* What is chosen is the package's prices or those of the file.
LEMMA Chosen ==
  ASSUME NEW select
  PROVE  P!Choose(select) = Bundled \/ (P!Choose(select) = snapshot /\ snapshot # Nothing)
BY DEF P!Choose

\* What a refresh holds on to, by its step.
LEMMA CallFields ==
  ASSUME NEW r \in Calls
  PROVE  /\ r.step \in {"state", "asking"} => r.now \in Nat /\ r.select \in Selections
         /\ r.step = "asking" => r.before \in P!Snapshots \cup {Nothing} /\ r.next \in States
         /\ r.step = "snapshot" => /\ r.select \in Selections /\ r.content \in P!Snapshots
                                   /\ r.next \in States /\ r.failed \in States
         /\ r.step \in {"reselect", "save"} => r.next \in States
<1>1. CASE r.step \in {"state", "asking"}
  BY <1>1 DEF Calls
<1>2. CASE r.step = "snapshot"
  BY <1>2 DEF Calls
<1>3. CASE r.step \in {"reselect", "save"}
  BY <1>3 DEF Calls
<1> QED BY <1>1, <1>2, <1>3

------------------------------------------------------------------------------
(* The world: time, new lists, faults.                                      *)

LEMMA TickKeeps == ASSUME PricingInv, P!Noted, P!Tick PROVE PricingInv'
<1>1. \A s \in P!Snapshots : Dated(s) => Dated(s)'
  BY DEF P!Tick, Dated, PricingInv, PricingTypeOK, P!Snapshots
<1>2. \A e, s : Backed(e, s)' <=> Backed(e, s)
  BY DEF P!Tick, Backed
<1>3. (undisturbed' \in BOOLEAN => PricingTypeOK') /\ SinceIsPast'
  BY DEF P!Tick, PricingInv, PricingTypeOK, SinceIsPast
<1>4. ASSUME AllTrue PROVE FilesAreTrue' /\ LoadedIsTrue'
  BY <1>1, <1>2, <1>4 DEF P!Tick, PricingInv, PricingTypeOK, AllTrue, FilesAreTrue, LoadedIsTrue
<1>5. ASSUME AllTrue PROVE FlightIsTrue'
  <2>1. clock <= clock' /\ clock' \in Nat /\ clock \in Nat /\ UNCHANGED <<snapshot, state, flight>>
    BY DEF P!Tick, PricingInv, PricingTypeOK
  <2>2. \A p \in PricingProcess : flight[p] \in Calls
    BY DEF PricingInv, PricingTypeOK
  <2>3. \A r \in Calls : Held(r) => Held(r)'
    <3> SUFFICES ASSUME NEW r \in Calls, Held(r) PROVE Held(r)'
      OBVIOUS
    <3>1. r.step \in {"state", "asking"} => r.now <= clock'
      BY <2>1, CallFields DEF Held
    <3>2. r.step = "snapshot" => r.content \in P!Snapshots
      BY CallFields
    <3> QED BY <1>1, <1>2, <2>1, <3>1, <3>2 DEF Held
  <2> QED BY <1>5, <2>1, <2>2, <2>3 DEF AllTrue, FlightIsTrue
<1> QED BY <1>3, <1>4, <1>5, KeptIf DEF PricingInv, AllTrue

\* A new list dates from now, so no stamp there is can be after it.
LEMMA PublishKeeps == ASSUME PricingInv, P!Noted, P!Publish PROVE PricingInv'
<1>0. /\ version' = version + 1 /\ UNCHANGED <<clock, snapshot, state, prices, selection, flight>>
      /\ since' = [v \in 1..version' |-> IF v = version' THEN clock ELSE since[v]]
  BY DEF P!Publish
<1>1. \A s \in P!Snapshots : Dated(s) => Dated(s)'
  BY <1>0 DEF Dated, PricingInv, PricingTypeOK, P!Snapshots
<1>2. \A e, s : Backed(e, s) => Backed(e, s)'
  BY <1>0 DEF Backed, PricingInv, PricingTypeOK
<1>3. (undisturbed' \in BOOLEAN => PricingTypeOK') /\ SinceIsPast'
  BY <1>0 DEF PricingInv, PricingTypeOK, SinceIsPast
<1>4. ASSUME AllTrue PROVE FilesAreTrue' /\ LoadedIsTrue'
  BY <1>0, <1>1, <1>2, <1>4 DEF PricingInv, PricingTypeOK, AllTrue, FilesAreTrue, LoadedIsTrue
<1>5. ASSUME AllTrue PROVE FlightIsTrue'
  <2>1. \A p \in PricingProcess : flight[p] \in Calls
    BY DEF PricingInv, PricingTypeOK
  <2>2. \A r \in Calls : Held(r) => Held(r)'
    <3> SUFFICES ASSUME NEW r \in Calls, Held(r) PROVE Held(r)'
      OBVIOUS
    <3>1. r.step = "snapshot" => r.content \in P!Snapshots
      BY CallFields
    <3> QED BY <1>0, <1>1, <1>2, <3>1 DEF Held
  <2> QED BY <1>0, <1>5, <2>1, <2>2 DEF AllTrue, FlightIsTrue
<1> QED BY <1>3, <1>4, <1>5, KeptIf DEF PricingInv, AllTrue

\* Without a state file a refresh asks without an etag; a snapshot that is lost is noted.
LEMMA LoseKeeps == ASSUME PricingInv, P!Noted, P!Lose PROVE PricingInv'
<1>1. /\ state' \in {Nothing, state} /\ snapshot' \in {Nothing, snapshot}
      /\ UNCHANGED <<clock, version, since, prices, selection, flight>>
  BY DEF P!Lose
<1>2. \A e, s : (Backed(e, s)' <=> Backed(e, s)) /\ (Dated(s)' <=> Dated(s))
  BY <1>1 DEF Backed, Dated
<1>3. (undisturbed' \in BOOLEAN => PricingTypeOK') /\ SinceIsPast'
  BY <1>1 DEF PricingInv, PricingTypeOK, SinceIsPast
<1>4. ASSUME undisturbed' PROVE AllTrue'
  <2>1. AllTrue /\ snapshot' = snapshot
    BY <1>1, <1>4, NotedTells
  <2> QED BY <1>1, <1>2, <2>1 DEF AllTrue, FilesAreTrue, LoadedIsTrue, FlightIsTrue, Held
<1> QED BY <1>3, <1>4, KeptIf

------------------------------------------------------------------------------
(* The steps of a process that leave the files alone.                       *)

\* What is said of the files and of the other processes is kept by a step that leaves
\* the files alone; what it loads is the package's prices, the file's or none.
LEMMA LeavesFiles ==
  ASSUME PricingInv, P!Noted, NEW p \in PricingProcess, NEW req \in Calls, NEW held,
         flight' = [flight EXCEPT ![p] = req], prices' = [prices EXCEPT ![p] = held],
         selection' \in [PricingProcess -> Selections],
         UNCHANGED <<clock, version, since, snapshot, state>>,
         AllTrue => Held(req),
         held \in {Nothing, Bundled, prices[p]} \/ (held = snapshot /\ snapshot # Nothing)
  PROVE  PricingInv'
<1>1. \A e, s : (Backed(e, s)' <=> Backed(e, s)) /\ (Dated(s)' <=> Dated(s))
  BY DEF Backed, Dated
<1>2. (undisturbed' \in BOOLEAN => PricingTypeOK') /\ SinceIsPast'
  <2>1. held \in P!Snapshots \cup {Nothing, Bundled}
    BY DEF PricingInv, PricingTypeOK
  <2> QED BY <2>1 DEF PricingInv, PricingTypeOK, SinceIsPast
<1>3. \A r : Held(r) => Held(r)'
  BY <1>1 DEF Held
<1>4. ASSUME AllTrue PROVE AllTrue'
  <2>1. FilesAreTrue'
    BY <1>1, <1>4 DEF AllTrue, FilesAreTrue
  <2>2. LoadedIsTrue'
    BY <1>1, <1>4 DEF AllTrue, FilesAreTrue, LoadedIsTrue, PricingInv, PricingTypeOK
  <2>3. FlightIsTrue'
    <3>1. \A q \in PricingProcess : flight'[q] = IF q = p THEN req ELSE flight[q]
      BY DEF PricingInv, PricingTypeOK
    <3> QED BY <1>3, <1>4, <3>1 DEF AllTrue, FlightIsTrue
  <2> QED BY <2>1, <2>2, <2>3 DEF AllTrue
<1> QED BY <1>2, <1>4, KeptIf DEF PricingInv

\* A step that leaves the prices in memory alone, too.
LEMMA OnlyFlight ==
  ASSUME PricingInv, P!Noted, NEW p \in PricingProcess, NEW req \in Calls, flight' = [flight EXCEPT ![p] = req],
         UNCHANGED <<clock, version, since, snapshot, state, prices, selection>>,
         AllTrue => Held(req)
  PROVE  PricingInv'
<1>1. prices' = [prices EXCEPT ![p] = prices[p]] /\ selection' \in [PricingProcess -> Selections]
  BY DEF PricingInv, PricingTypeOK
<1> DEFINE held == prices[p]
<1>2. prices' = [prices EXCEPT ![p] = held] /\ held \in {Nothing, Bundled, prices[p]}
  BY <1>1
<1> HIDE DEF held
<1> QED BY <1>1, <1>2, LeavesFiles

\* Lookups, and choosing another source.
LEMMA ChoiceKeeps ==
  ASSUME PricingInv, P!Noted, NEW p \in PricingProcess, P!Lookup(p) \/ \E s \in Selections : P!Select(p, s)
  PROVE  PricingInv'
<1> DEFINE req == flight[p]
<1>1. /\ selection' \in [PricingProcess -> Selections]
      /\ UNCHANGED <<clock, version, since, snapshot, state>>
      /\ flight' = [flight EXCEPT ![p] = req] /\ req \in Calls /\ (AllTrue => Held(req))
  BY DEF P!Lookup, P!Select, PricingInv, PricingTypeOK, AllTrue, FlightIsTrue
<1>2. PICK held \in P!Snapshots \cup {Nothing, Bundled} :
        /\ prices' = [prices EXCEPT ![p] = held]
        /\ held \in {Nothing, Bundled} \/ (held = snapshot /\ snapshot # Nothing)
  <2>1. CASE P!Lookup(p)
    BY <2>1, Chosen DEF P!Lookup, PricingInv, PricingTypeOK
  <2>2. CASE \E s \in Selections : P!Select(p, s)
    BY <2>2 DEF P!Select
  <2> QED BY <2>1, <2>2
<1> HIDE DEF req
<1> QED BY <1>1, <1>2, LeavesFiles

\* A process that ends leaves files that are true.
LEMMA RestartKeeps == ASSUME PricingInv, P!Noted, NEW p \in PricingProcess, P!Restart(p) PROVE PricingInv'
<1>1. /\ prices' = [prices EXCEPT ![p] = Nothing] /\ flight' = [flight EXCEPT ![p] = P!Idle]
      /\ UNCHANGED <<clock, version, since, snapshot, state>> /\ selection' \in [PricingProcess -> Selections]
  BY DEF P!Restart, PricingInv, PricingTypeOK
<1>2. P!Idle \in Calls /\ Held(P!Idle)
  BY DEF P!Idle, Calls, Held
<1> QED BY <1>1, <1>2, LeavesFiles

LEMMA CallKeeps ==
  ASSUME PricingInv, P!Noted, NEW p \in PricingProcess, NEW force \in BOOLEAN, NEW allow \in BOOLEAN,
         P!Call(p, force, allow)
  PROVE  PricingInv'
<1> DEFINE req == [step |-> "state", now |-> clock, force |-> force, allowBundled |-> allow,
                    select |-> selection[p]]
<1>1. req \in Calls /\ req.step = "state" /\ req.now <= clock
  BY DEF PricingInv, PricingTypeOK, Calls
<1>2. /\ flight' = [flight EXCEPT ![p] = req]
      /\ UNCHANGED <<clock, version, since, snapshot, state, prices, selection>>
  BY DEF P!Call
<1> HIDE DEF req
<1>3. Held(req)
  BY <1>1 DEF Held
<1> QED BY <1>1, <1>2, <1>3, OnlyFlight

------------------------------------------------------------------------------
(* A refresh.                                                               *)

\* Without a state file no etag is sent.
LEMMA NoEtag == P!FirstState \in States /\ P!FirstState.etag = P!Never
BY DEF P!FirstState, States, P!Never

\* The etag that is sent is that of the state file: the snapshot beside it backs it.
LEMMA DecideKeeps == ASSUME PricingInv, P!Noted, NEW p \in PricingProcess, P!Decide(p) PROVE PricingInv'
<1> DEFINE req == flight[p]
           previous == IF state = Nothing THEN P!FirstState ELSE state
           next == [previous EXCEPT !.attempt = req.now]
           asking == [step |-> "asking", now |-> req.now, select |-> req.select, before |-> snapshot,
                      next |-> next]
<1>1. req \in Calls /\ req.step = "state"
  BY DEF P!Decide, PricingInv, PricingTypeOK
<1>2. req.now \in Nat /\ req.select \in Selections
  BY <1>1, CallFields
<1>3. previous \in States /\ (AllTrue => Backed(previous.etag, snapshot))
  <2> HIDE DEF req, next, asking
  <2>1. CASE state = Nothing
    BY <2>1, NoEtag DEF Backed
  <2>2. CASE state # Nothing
    BY <2>2 DEF PricingInv, PricingTypeOK, AllTrue, FilesAreTrue
  <2> QED BY <2>1, <2>2
<1>4. next \in States /\ next.etag = previous.etag
  BY <1>2, <1>3 DEF States
<1> HIDE DEF previous, next
<1>5. asking \in Calls
  BY <1>2, <1>4 DEF Calls, PricingInv, PricingTypeOK
<1>6. AllTrue => req.now <= clock
  BY <1>1 DEF AllTrue, FlightIsTrue, Held
<1>7. AllTrue => Held(asking)
  BY <1>3, <1>4, <1>6 DEF Held
<1>8. PICK new \in {P!Idle, asking} : flight' = [flight EXCEPT ![p] = new]
  BY DEF P!Decide, req, previous, next
<1>9. new \in Calls /\ (AllTrue => Held(new))
  <2> HIDE DEF asking
  <2>1. P!Idle \in Calls /\ Held(P!Idle)
    BY DEF P!Idle, Calls, Held
  <2> QED BY <1>5, <1>7, <1>8, <2>1
<1> DEFINE held == P!Choose(req.select)
<1>10. /\ prices' = [prices EXCEPT ![p] = held]
       /\ UNCHANGED <<clock, version, since, snapshot, state>> /\ selection' \in [PricingProcess -> Selections]
  BY DEF P!Decide, req, PricingInv, PricingTypeOK
<1>11. held = Bundled \/ (held = snapshot /\ snapshot # Nothing)
  BY Chosen
<1> HIDE DEF held, asking, req
<1> QED BY <1>8, <1>9, <1>10, <1>11, LeavesFiles

\* The prices that a 304 stamps anew are a snapshot, if not of the file.
LEMMA BaseIsSome ==
  ASSUME PricingInv, NEW p \in PricingProcess, NEW held \in P!Snapshots \cup {Nothing}, NEW base,
         base = IF held # Nothing THEN held ELSE IF prices[p] # Nothing THEN prices[p] ELSE P!Choose(selection[p])
  PROVE  base \in P!Snapshots \cup {Empty}
<1>1. snapshot \in P!Snapshots \cup {Nothing} /\ prices[p] \in P!Snapshots \cup {Nothing, Bundled}
  BY DEF PricingInv, PricingTypeOK
<1>2. CASE held # Nothing
  BY <1>2
<1>3. CASE held = Nothing /\ prices[p] # Nothing
  BY <1>1, <1>3, PricesAssumption
<1>4. CASE held = Nothing /\ prices[p] = Nothing
  BY <1>1, <1>4, PricesAssumption, Chosen
<1> QED BY <1>2, <1>3, <1>4

\* With an etag of the list that is served, the prices in the file are of that list:
\* they may be stamped with a time at which it was served.
LEMMA NotModifiedKeeps == ASSUME PricingInv, P!Noted, NEW p \in PricingProcess, P!NotModified(p) PROVE PricingInv'
<1> DEFINE req == flight[p]
           base == IF req.before # Nothing THEN req.before
                   ELSE IF prices[p] # Nothing THEN prices[p] ELSE P!Choose(selection[p])
           content == [of |-> IF base = Empty THEN 0 ELSE base.of, at |-> req.now]
           next == [req.next EXCEPT !.result = "not_modified"]
           failed == [req.next EXCEPT !.result = "failed"]
           new == [step |-> "snapshot", select |-> req.select, content |-> content, next |-> next, failed |-> failed]
<1>1. req \in Calls /\ req.step = "asking" /\ req.next.etag = version
  BY DEF P!NotModified, PricingInv, PricingTypeOK
<1>2. /\ req.now \in Nat /\ req.select \in Selections /\ req.next \in States
      /\ req.before \in P!Snapshots \cup {Nothing}
  BY <1>1, CallFields
<1>3. base \in P!Snapshots \cup {Empty}
  <2> HIDE DEF req
  <2> QED BY <1>2, BaseIsSome
<1>4. content \in P!Snapshots
  <2> HIDE DEF req, base
  <2> QED BY <1>2, <1>3 DEF P!Snapshots
<1>5. next \in States /\ next.etag = version /\ failed \in States /\ failed.etag = version
  BY <1>1, <1>2 DEF States
<1>6. /\ flight' = [flight EXCEPT ![p] = new]
      /\ UNCHANGED <<clock, version, since, snapshot, state, prices, selection>>
  BY DEF P!NotModified, P!Writes
<1>7. new \in Calls
  <2> HIDE DEF req, content, next, failed
  <2> QED BY <1>2, <1>4, <1>5 DEF Calls
<1>8. ASSUME AllTrue PROVE Held(new)
  <2>1. req.now <= clock /\ req.before = snapshot /\ Backed(version, snapshot)
    BY <1>1, <1>8 DEF AllTrue, FlightIsTrue, Held
  <2>2. version \in Nat \ {0} /\ snapshot \in P!Snapshots /\ snapshot.of >= version /\ snapshot.of \in Nat
    BY <2>1 DEF Backed, P!Never, P!Snapshots, PricingInv, PricingTypeOK
  <2>3. base = snapshot /\ base # Empty
    BY <2>1, <2>2, PricesAssumption
  <2>4. content.of = snapshot.of /\ content.at = req.now
    BY <2>3
  <2> HIDE DEF req, base, content, next, failed
  <2>5. Dated(content)
    BY <2>1, <2>2, <2>4 DEF Dated, PricingInv, PricingTypeOK
  <2>6. Backed(version, content) /\ (state # Nothing => Backed(state.etag, content))
    BY <1>4, <1>8, <2>2, <2>4 DEF Backed, P!Snapshots, PricingInv, PricingTypeOK, AllTrue, FilesAreTrue
  <2>7. /\ new.step = "snapshot" /\ new.content = content /\ new.next.etag = version /\ new.failed.etag = version
    BY <1>5
  <2> HIDE DEF new
  <2> QED BY <2>1, <2>5, <2>6, <2>7 DEF Held
<1> HIDE DEF new
<1> QED BY <1>6, <1>7, <1>8, OnlyFlight

\* New prices are of the newest list, whose etag or that of an earlier one is kept.
LEMMA ModifiedKeeps == ASSUME PricingInv, P!Noted, NEW p \in PricingProcess, P!Modified(p) PROVE PricingInv'
<1> DEFINE req == flight[p]
           content == [of |-> version, at |-> req.now]
           failed == [req.next EXCEPT !.result = "failed"]
<1>1. req \in Calls /\ req.step = "asking"
  BY DEF P!Modified, PricingInv, PricingTypeOK
<1>2. /\ req.now \in Nat /\ req.select \in Selections /\ req.next \in States
      /\ AllTrue => req.now <= clock /\ Backed(req.next.etag, snapshot)
  BY <1>1, CallFields DEF AllTrue, FlightIsTrue, Held
<1>3. version \in Nat \ {0}
  BY DEF PricingInv, PricingTypeOK
<1>4. content \in P!Snapshots /\ content.of = version /\ (AllTrue => Dated(content))
  BY <1>2, <1>3 DEF P!Snapshots, Dated
<1>5. failed \in States /\ failed.etag = req.next.etag
  BY <1>2 DEF States
<1>6. PICK etag \in {version, req.next.etag} :
        flight' = [flight EXCEPT ![p] =
          [step |-> "snapshot", select |-> req.select, content |-> content,
           next |-> [req.next EXCEPT !.result = "success", !.etag = etag], failed |-> failed]]
  BY DEF P!Modified, P!Writes
<1> DEFINE next == [req.next EXCEPT !.result = "success", !.etag = etag]
           new == [step |-> "snapshot", select |-> req.select, content |-> content, next |-> next, failed |-> failed]
<1>7. UNCHANGED <<clock, version, since, snapshot, state, prices, selection>>
  BY DEF P!Modified
<1>8. next \in States /\ next.etag = etag
  <2> HIDE DEF req
  <2>1. req.next.etag \in Int /\ version \in Int
    BY <1>2, <1>3 DEF States
  <2>2. etag \in Int
    BY <2>1
  <2> QED BY <1>2, <2>2 DEF States
<1> HIDE DEF req, content, failed, next
<1>9. AllTrue => Backed(etag, content) /\ (state # Nothing => Backed(state.etag, content))
  BY <1>2, <1>3, <1>4, <1>6 DEF Backed, PricingInv, AllTrue, FilesAreTrue
<1>10. new \in Calls
  BY <1>2, <1>4, <1>5, <1>8 DEF Calls
<1>11. AllTrue => /\ new.step = "snapshot" /\ Dated(new.content) /\ Backed(new.next.etag, new.content)
                  /\ Backed(new.failed.etag, snapshot) /\ (state # Nothing => Backed(state.etag, new.content))
  BY <1>2, <1>4, <1>5, <1>8, <1>9
<1>12. flight' = [flight EXCEPT ![p] = new]
  BY <1>6 DEF req, next, failed, content
<1> HIDE DEF new
<1>13. AllTrue => Held(new)
  BY <1>11 DEF Held
<1> QED BY <1>7, <1>10, <1>12, <1>13, OnlyFlight

LEMMA AskFailsKeeps == ASSUME PricingInv, P!Noted, NEW p \in PricingProcess, P!AskFails(p) PROVE PricingInv'
<1> DEFINE req == flight[p]
           next == [req.next EXCEPT !.result = "failed"]
           new == [step |-> "save", next |-> next]
<1>1. req \in Calls /\ req.step = "asking"
  BY DEF P!AskFails, PricingInv, PricingTypeOK
<1>2. req.next \in States /\ (AllTrue => Backed(req.next.etag, snapshot))
  BY <1>1, CallFields DEF AllTrue, FlightIsTrue, Held
<1>3. next \in States /\ next.etag = req.next.etag
  BY <1>2 DEF States
<1>4. /\ flight' = [flight EXCEPT ![p] = new]
      /\ UNCHANGED <<clock, version, since, snapshot, state, prices, selection>>
  BY DEF P!AskFails, P!Fails
<1> HIDE DEF req, next
<1>5. new \in Calls /\ new.step = "save" /\ (AllTrue => Backed(new.next.etag, snapshot))
  BY <1>2, <1>3 DEF Calls
<1> HIDE DEF new
<1>6. AllTrue => Held(new)
  BY <1>5 DEF Held
<1> QED BY <1>4, <1>5, <1>6, OnlyFlight

\* What is read again is the file, whoever wrote it.
LEMMA ReselectKeeps == ASSUME PricingInv, P!Noted, NEW p \in PricingProcess, P!Reselect(p) PROVE PricingInv'
<1> DEFINE req == flight[p]
           new == [step |-> "save", next |-> req.next]
           held == P!Choose(req.select)
<1>1. req \in Calls /\ req.step = "reselect"
  BY DEF P!Reselect, PricingInv, PricingTypeOK
<1>2. req.next \in States /\ (AllTrue => Backed(req.next.etag, snapshot))
  BY <1>1, CallFields DEF AllTrue, FlightIsTrue, Held
<1>3. new \in Calls /\ new.step = "save" /\ new.next = req.next
  BY <1>2 DEF Calls
<1>4. /\ prices' = [prices EXCEPT ![p] = held]
      /\ flight' = [flight EXCEPT ![p] = new]
      /\ UNCHANGED <<clock, version, since, snapshot, state>> /\ selection' \in [PricingProcess -> Selections]
  BY DEF P!Reselect, PricingInv, PricingTypeOK
<1>5. held = Bundled \/ (held = snapshot /\ snapshot # Nothing)
  BY Chosen
<1> HIDE DEF req, new, held
<1>6. AllTrue => Held(new)
  BY <1>2, <1>3 DEF Held
<1> QED BY <1>3, <1>4, <1>5, <1>6, LeavesFiles

\* While one refreshes, the others hold on to nothing that the files could belie.
LEMMA OthersAreFree ==
  ASSUME PricingInv, OneRefreshes, NEW p \in PricingProcess, NEW req \in Calls, P!Refreshing(p),
         flight' = [flight EXCEPT ![p] = req], UNCHANGED clock, FlightIsTrue, Held(req)'
  PROVE  FlightIsTrue'
<1> SUFFICES ASSUME NEW q \in PricingProcess PROVE Held(flight[q])'
  BY DEF FlightIsTrue
<1>1. CASE q = p
  BY <1>1 DEF PricingInv, PricingTypeOK
<1>2. CASE q # p
  <2>1. flight'[q] = flight[q] /\ flight[q].step \in {"idle", "state"} /\ Held(flight[q])
    BY <1>2 DEF PricingInv, PricingTypeOK, OneRefreshes, P!Refreshing, FlightIsTrue
  <2> QED BY <2>1 DEF Held
<1> QED BY <1>1, <1>2

\* The file is replaced as a whole, by prices that are true and back the etag to come.
LEMMA WriteSnapshotKeeps == ASSUME PricingInv, P!Noted, NEW p \in PricingProcess, P!WriteSnapshot(p) PROVE PricingInv'
<1> DEFINE req == flight[p]
           done == [step |-> "reselect", select |-> req.select, next |-> req.next]
           undone == [step |-> "save", next |-> req.failed]
<1>1. req \in Calls /\ req.step = "snapshot" /\ P!Refreshing(p)
  BY DEF P!WriteSnapshot, P!Refreshing, PricingInv, PricingTypeOK
<1>2. /\ req.select \in Selections /\ req.content \in P!Snapshots /\ req.next \in States /\ req.failed \in States
      /\ AllTrue => /\ Dated(req.content) /\ Backed(req.next.etag, req.content) /\ Backed(req.failed.etag, snapshot)
                    /\ state # Nothing => Backed(state.etag, req.content)
  <2>1. AllTrue => Held(req)
    BY DEF AllTrue, FlightIsTrue
  <2> HIDE DEF req
  <2> QED BY <1>1, <2>1, CallFields DEF Held
<1>3. /\ done \in Calls /\ done.step = "reselect" /\ done.next = req.next
      /\ undone \in Calls /\ undone.step = "save" /\ undone.next = req.failed
  BY <1>2 DEF Calls
<1>4. UNCHANGED <<clock, version, since, state, prices, selection>>
  BY DEF P!WriteSnapshot
<1>5. \A e, s : (Backed(e, s)' <=> Backed(e, s)) /\ (Dated(s)' <=> Dated(s))
  BY <1>4 DEF Backed, Dated
<1>6. CASE snapshot' = req.content /\ flight' = [flight EXCEPT ![p] = done]
  <2> HIDE DEF req, done, undone
  <2>1. (undisturbed' \in BOOLEAN => PricingTypeOK') /\ SinceIsPast'
    BY <1>2, <1>3, <1>4, <1>6 DEF PricingInv, PricingTypeOK, SinceIsPast
  <2>2. ASSUME undisturbed' PROVE AllTrue'
    <3>1. AllTrue /\ OneRefreshes
      BY <2>2, NotedTells
    <3>2. FilesAreTrue' /\ LoadedIsTrue'
      BY <1>2, <1>4, <1>5, <1>6, <3>1 DEF AllTrue, FilesAreTrue, LoadedIsTrue
    <3>3. PICK new \in Calls : new = done
      BY <1>3
    <3>4. Held(new)'
      BY <1>2, <1>3, <1>5, <1>6, <3>1, <3>3 DEF Held
    <3>5. FlightIsTrue'
      BY <1>1, <1>4, <1>6, <3>1, <3>3, <3>4, OthersAreFree DEF AllTrue
    <3> QED BY <3>2, <3>5 DEF AllTrue
  <2> QED BY <2>1, <2>2, KeptIf
<1>7. CASE flight' = [flight EXCEPT ![p] = undone] /\ snapshot' = snapshot
  <2> HIDE DEF req, done, undone
  <2>1. AllTrue => Held(undone)
    BY <1>2, <1>3 DEF Held
  <2> QED BY <1>3, <1>4, <1>7, <2>1, OnlyFlight
<1>8. CASE flight' = [flight EXCEPT ![p] = undone] /\ snapshot' = Nothing /\ snapshot # Nothing
  <2> HIDE DEF req, done, undone
  <2>1. (undisturbed' \in BOOLEAN => PricingTypeOK') /\ SinceIsPast'
    BY <1>3, <1>4, <1>8 DEF PricingInv, PricingTypeOK, SinceIsPast
  <2>2. ~undisturbed'
    BY <1>8, NotedTells
  <2> QED BY <2>1, <2>2, KeptIf
<1> QED BY <1>6, <1>7, <1>8 DEF P!WriteSnapshot

\* The etag that is kept is that of prices in the file, or the one from before.
LEMMA SaveStateKeeps == ASSUME PricingInv, P!Noted, NEW p \in PricingProcess, P!SaveState(p) PROVE PricingInv'
<1> DEFINE req == flight[p]
<1>1. req \in Calls /\ req.step = "save" /\ P!Refreshing(p)
  BY DEF P!SaveState, P!Refreshing, PricingInv, PricingTypeOK
<1>2. req.next \in States /\ (AllTrue => Backed(req.next.etag, snapshot))
  BY <1>1, CallFields DEF AllTrue, FlightIsTrue, Held
<1>3. /\ state' \in {state, req.next, Nothing}
      /\ flight' = [flight EXCEPT ![p] = P!Idle]
      /\ UNCHANGED <<clock, version, since, snapshot, prices, selection>>
  BY DEF P!SaveState
<1> HIDE DEF req
<1>4. \A e, s : (Backed(e, s)' <=> Backed(e, s)) /\ (Dated(s)' <=> Dated(s))
  BY <1>3 DEF Backed, Dated
<1>5. P!Idle \in Calls /\ Held(P!Idle)'
  BY DEF P!Idle, Calls, Held
<1>6. (undisturbed' \in BOOLEAN => PricingTypeOK') /\ SinceIsPast'
  BY <1>2, <1>3, <1>5 DEF PricingInv, PricingTypeOK, SinceIsPast
<1>7. ASSUME undisturbed' PROVE AllTrue'
  <2>1. AllTrue /\ OneRefreshes
    BY <1>7, NotedTells
  <2>2. FilesAreTrue' /\ LoadedIsTrue'
    BY <1>2, <1>3, <1>4, <2>1 DEF AllTrue, FilesAreTrue, LoadedIsTrue
  <2>3. FlightIsTrue'
    BY <1>1, <1>3, <1>5, <2>1, OthersAreFree DEF AllTrue
  <2> QED BY <2>2, <2>3 DEF AllTrue
<1> QED BY <1>6, <1>7, KeptIf

------------------------------------------------------------------------------
(* The theorems.                                                            *)

LEMMA PricingStep == ASSUME PricingInv, [P!PricingNext]_pricingVars PROVE PricingInv'
<1>1. CASE P!Tick /\ P!Noted
  BY <1>1, TickKeeps
<1>2. CASE P!Publish /\ P!Noted
  BY <1>2, PublishKeeps
<1>3. CASE P!Lose /\ P!Noted
  BY <1>3, LoseKeeps
<1>4. ASSUME P!Noted, NEW p \in PricingProcess,
             \/ \E s \in Selections : P!Select(p, s)
             \/ \E force, allow \in BOOLEAN : P!Call(p, force, allow)
             \/ P!Decide(p) \/ P!NotModified(p) \/ P!Modified(p) \/ P!AskFails(p)
             \/ P!WriteSnapshot(p) \/ P!Reselect(p) \/ P!SaveState(p) \/ P!Lookup(p) \/ P!Restart(p)
      PROVE  PricingInv'
  BY <1>4, ChoiceKeeps, CallKeeps, DecideKeeps, NotModifiedKeeps, ModifiedKeeps, AskFailsKeeps,
     WriteSnapshotKeeps, ReselectKeeps, SaveStateKeeps, RestartKeeps
<1>5. CASE UNCHANGED pricingVars
  <2>1. \A e, s : (Backed(e, s)' <=> Backed(e, s)) /\ (Dated(s)' <=> Dated(s))
    BY <1>5 DEF pricingVars, Backed, Dated
  <2>2. AllTrue' <=> AllTrue
    BY <1>5, <2>1 DEF pricingVars, AllTrue, FilesAreTrue, LoadedIsTrue, FlightIsTrue, Held
  <2> QED
    BY <1>5, <2>2 DEF pricingVars, PricingInv, PricingTypeOK, SinceIsPast, OneRefreshes, P!Refreshing
<1> QED BY <1>1, <1>2, <1>3, <1>4, <1>5 DEF P!PricingNext, P!Advance

------------------------------------------------------------------------------
(* The helper and its client: any number of requests, crashes and timeouts. *)

Replies == [of : Nat, ok : BOOLEAN]
HelperChild == [alive : BOOLEAN, killed : BOOLEAN, connected : BOOLEAN, inbox : Seq(Nat),
                doing : Replies \cup {None}, answers : Seq(Replies)]

HelperTypeOK ==
  /\ asked \in Nat
  /\ outcome \in [1..asked -> {"pending", "resolved", "failed", "refused"}]
  /\ running \in [of : 1..asked, on : DOMAIN child] \cup {None}
  /\ current \in DOMAIN child \cup {None}
  /\ helperDisposed \in BOOLEAN
  /\ DOMAIN child \subseteq 1..asked /\ child \in [DOMAIN child -> HelperChild]
  /\ carried \in Seq(1..asked)

\* What a child has of the one request it deals with: nothing, the request, or the reply.
Quiet(ch) == ch.inbox = <<>> /\ ch.doing = None /\ ch.answers = <<>>
Got(ch, r) == ch.inbox = <<r>> /\ ch.doing = None /\ ch.answers = <<>>
Did(ch, a) == ch.inbox = <<>> /\ ch.answers = <<>> /\ ch.doing = a
Answered(ch, a) == ch.inbox = <<>> /\ ch.answers = <<a>> /\ ch.doing = None

\* A request that was sent to a child; what runs has not been settled, and runs on the
\* current child.
Sent(r) == outcome[r] \in {"resolved", "failed"} \/ (running # None /\ running.of = r)
Executed(r) == \E i \in DOMAIN carried : carried[i] = r

\* A child has one request at a time, that was sent to no other child, and is not
\* settled as resolved; while it is not executed, it is not in the database.
Taken(ch, r) == Got(ch, r) \/ \E ok \in BOOLEAN : LET a == [of |-> r, ok |-> ok] IN Did(ch, a) \/ Answered(ch, a)
OneOf(c) ==
  /\ Sent(c)
  /\ ~child[c].connected => ~child[c].alive
  /\ Quiet(child[c]) \/ \E r \in 1..asked : Taken(child[c], r)
  /\ \A r \in 1..asked : Taken(child[c], r) =>
       /\ Sent(r) /\ outcome[r] # "resolved"
       /\ \A d \in DOMAIN child : Taken(child[d], r) => d = c
       /\ Got(child[c], r) => ~Executed(r)
       /\ LET a == [of |-> r, ok |-> TRUE] IN Did(child[c], a) \/ Answered(child[c], a) => Executed(r)
OneEach == \A c \in DOMAIN child : OneOf(c)

\* Requests are sent in the order in which they were made, one at a time.
InTurn ==
  /\ running # None => outcome[running.of] = "pending" /\ running.on = current
  /\ \A q, r \in 1..asked : Sent(q) /\ outcome[r] = "pending" /\ ~Sent(r) => q < r
  /\ running # None => \A q \in 1..asked : outcome[q] \in {"resolved", "failed"} => q < running.of

\* What was carried out was sent, and before what is resolved nothing is still running.
Settled ==
  /\ \A i \in DOMAIN carried : Sent(carried[i])
  /\ \A i, j \in DOMAIN carried : i < j /\ outcome[carried[j]] = "resolved" => outcome[carried[i]] # "pending"

HelperInv == HelperTypeOK /\ OneEach /\ InTurn /\ Settled /\ H!CarriedOnce /\ H!Recovers

\* What the instance of HistoryClient calls the cardinality of a set is just that.
LEMMA HelperCardinality == \A A1 : H!Cardinality(A1) = Cardinality(A1)
BY DEF H!Cardinality, Cardinality

LEMMA OneElement == \A x : Append(<<>>, x) = <<x>> /\ Head(<<x>>) = x /\ Tail(<<x>>) = <<>> /\ <<x>> # <<>>
OBVIOUS

\* A child is in one of its phases, with one request.
LEMMA Phases ==
  ASSUME NEW ch, NEW q \in Nat, NEW r \in Nat
  PROVE  /\ Quiet(ch) => ~Taken(ch, r)
         /\ Taken(ch, q) /\ Taken(ch, r) => q = r
         /\ Got(ch, r) => ch.inbox # <<>> /\ Head(ch.inbox) = r /\ Tail(ch.inbox) = <<>>
         /\ Taken(ch, r) /\ ch.inbox # <<>> => Got(ch, r)
         /\ Taken(ch, r) /\ ch.doing # None => \E ok \in BOOLEAN : Did(ch, [of |-> r, ok |-> ok])
         /\ Taken(ch, r) /\ ch.answers # <<>> => \E ok \in BOOLEAN : Answered(ch, [of |-> r, ok |-> ok])
<1>1. \A ok \in BOOLEAN : [of |-> r, ok |-> ok] # None
  BY ClientAssumption
<1>2. \A x : <<x>> # <<>> /\ Head(<<x>>) = x /\ Tail(<<x>>) = <<>>
  BY OneElement
<1>3. \A x, y : <<x>> = <<y>> => x = y
  OBVIOUS
<1>4. \A a, b \in BOOLEAN : [of |-> q, ok |-> a] = [of |-> r, ok |-> b] => q = r
  OBVIOUS
<1>5. Quiet(ch) => ~Taken(ch, r)
  BY <1>1, <1>2 DEF Quiet, Taken, Got, Did, Answered
<1>6. Taken(ch, q) /\ Taken(ch, r) => q = r
  <2>1. \A ok \in BOOLEAN : [of |-> q, ok |-> ok] # None
    BY ClientAssumption
  <2> QED BY <1>1, <1>2, <1>3, <1>4, <2>1 DEF Taken, Got, Did, Answered
<1>7. /\ Got(ch, r) => ch.inbox # <<>> /\ Head(ch.inbox) = r /\ Tail(ch.inbox) = <<>>
      /\ Taken(ch, r) /\ ch.inbox # <<>> => Got(ch, r)
      /\ Taken(ch, r) /\ ch.doing # None => \E ok \in BOOLEAN : Did(ch, [of |-> r, ok |-> ok])
      /\ Taken(ch, r) /\ ch.answers # <<>> => \E ok \in BOOLEAN : Answered(ch, [of |-> r, ok |-> ok])
  BY <1>2 DEF Taken, Got, Did, Answered
<1> QED BY <1>5, <1>6, <1>7

\* How many requests are pending, before and after one of them is settled.
Pendings == {r \in 1..asked : outcome[r] = "pending"}

LEMMA PendingsFinite == HelperTypeOK => IsFiniteSet(Pendings)
<1> SUFFICES ASSUME HelperTypeOK PROVE IsFiniteSet(Pendings)
  OBVIOUS
<1>1. asked \in Int /\ 1 \in Int
  BY DEF HelperTypeOK
<1>2. IsFiniteSet(1..asked)
  BY <1>1, FS_Interval
<1>3. Pendings \subseteq 1..asked
  BY DEF Pendings
<1> QED BY <1>2, <1>3, FS_Subset

LEMMA SettleCounts ==
  ASSUME HelperTypeOK, H!Recovers, NEW r \in 1..asked, outcome[r] = "pending",
         NEW how \in {"resolved", "failed", "refused"}, H!Settle(r, how), UNCHANGED asked
  PROVE  pending' = Cardinality({q \in 1..asked' : outcome'[q] = "pending"})
<1>1. {q \in 1..asked' : outcome'[q] = "pending"} = Pendings \ {r}
  BY DEF HelperTypeOK, H!Settle, Pendings
<1>2. r \in Pendings /\ pending = Cardinality(Pendings)
  <2>1. pending = Cardinality({q \in 1..asked : outcome[q] = "pending"})
    BY HelperCardinality DEF H!Recovers
  <2>2. r \in Pendings
    BY DEF Pendings
  <2> QED BY <2>1, <2>2 DEF Pendings
<1>3. IsFiniteSet(Pendings)
  BY PendingsFinite
<1>4. Cardinality(Pendings \ {r}) = Cardinality(Pendings) - 1
  BY <1>2, <1>3, FS_RemoveElement
<1> QED BY <1>1, <1>2, <1>4 DEF H!Settle

LEMMA InitHelper == H!ClientInit => HelperInv
<1> SUFFICES ASSUME H!ClientInit PROVE HelperInv
  OBVIOUS
<1>1. HelperTypeOK
  <2>1. asked = 0 /\ 1..asked = {} /\ DOMAIN child = {} /\ DOMAIN outcome = {}
    BY DEF H!ClientInit
  <2>2. child \in [DOMAIN child -> HelperChild] /\ outcome \in [1..asked -> {"pending", "resolved", "failed", "refused"}]
    BY <2>1 DEF H!ClientInit
  <2>3. running = None /\ current = None /\ helperDisposed = FALSE /\ carried \in Seq(1..asked)
    BY DEF H!ClientInit
  <2> HIDE DEF HelperChild
  <2> QED BY <2>1, <2>2, <2>3 DEF HelperTypeOK
<1>2. OneEach /\ InTurn /\ Settled /\ H!CarriedOnce
  BY DEF H!ClientInit, OneEach, InTurn, Settled, H!CarriedOnce, Sent
<1>3. H!Recovers
  <2>1. {r \in 1..asked : outcome[r] = "pending"} = {}
    BY DEF H!ClientInit
  <2>2. pending = Cardinality({r \in 1..asked : outcome[r] = "pending"})
    BY <2>1, FS_EmptySet DEF H!ClientInit
  <2>3. current = None /\ H!Children = {}
    BY DEF H!ClientInit, H!Children
  <2> QED BY <2>2, <2>3, HelperCardinality DEF H!Recovers
<1> QED BY <1>1, <1>2, <1>3 DEF HelperInv

\* What was sent was not refused.
LEMMA SentIsNotRefused == ASSUME InTurn, NEW r, Sent(r) PROVE outcome[r] # "refused"
BY DEF InTurn, Sent

------------------------------------------------------------------------------
\* A step of one child, that loses what it has, or goes on with it and may leave it in
\* the database.
LEMMA ChildKeeps ==
  ASSUME HelperInv, NEW c \in DOMAIN child, NEW ch \in HelperChild, child' = [child EXCEPT ![c] = ch],
         UNCHANGED <<asked, outcome, pending, running, current, helperDisposed>>,
         ch.connected = child[c].connected, ch.killed = child[c].killed, ch.alive => child[c].alive,
         Quiet(child[c]) => Quiet(ch),
         \/ Quiet(ch) /\ carried' = carried
         \/ \E r \in 1..asked :
              /\ Taken(child[c], r) /\ Taken(ch, r)
              /\ \/ carried' = carried
                 \/ Got(child[c], r) /\ ~Got(ch, r) /\ carried' = Append(carried, r)
              /\ Got(ch, r) => Got(child[c], r)
              /\ LET a == [of |-> r, ok |-> TRUE] IN Did(ch, a) \/ Answered(ch, a) => Executed(r)'
  PROVE  HelperInv'
<1>1. /\ DOMAIN child' = DOMAIN child /\ child'[c] = ch
      /\ \A d \in DOMAIN child : d # c => child'[d] = child[d]
  BY DEF HelperInv, HelperTypeOK
<1>2. \A q : Sent(q)' <=> Sent(q)
  BY DEF Sent
<1>3. asked \in Nat /\ \A q \in 1..asked : q \in Nat
  BY DEF HelperInv, HelperTypeOK
<1>4. ASSUME NEW q \in 1..asked, Taken(ch, q)
      PROVE  /\ Taken(child[c], q)
             /\ \/ carried' = carried
                \/ Got(child[c], q) /\ ~Got(ch, q) /\ carried' = Append(carried, q)
             /\ Got(ch, q) => Got(child[c], q)
             /\ LET a == [of |-> q, ok |-> TRUE] IN Did(ch, a) \/ Answered(ch, a) => Executed(q)'
  <2>1. ~Quiet(ch)
    BY <1>3, <1>4, Phases
  <2>2. PICK r \in 1..asked :
              /\ Taken(child[c], r) /\ Taken(ch, r)
              /\ \/ carried' = carried
                 \/ Got(child[c], r) /\ ~Got(ch, r) /\ carried' = Append(carried, r)
              /\ Got(ch, r) => Got(child[c], r)
              /\ LET a == [of |-> r, ok |-> TRUE] IN Did(ch, a) \/ Answered(ch, a) => Executed(r)'
    BY <2>1
  <2>3. r = q
    BY <1>3, <1>4, <2>2, Phases
  <2> QED BY <2>2, <2>3
<1>5. \/ carried' = carried
      \/ \E r \in 1..asked : Taken(ch, r) /\ Got(child[c], r) /\ ~Got(ch, r) /\ carried' = Append(carried, r)
  OBVIOUS
<1>6. carried \in Seq(1..asked)
  BY DEF HelperInv, HelperTypeOK
<1>7. \A q \in 1..asked : /\ Executed(q) => Executed(q)'
                          /\ Executed(q)' => Executed(q) \/ (Got(child[c], q) /\ ~Got(ch, q))
  <2>1. CASE carried' = carried
    BY <2>1 DEF Executed
  <2>2. CASE \E r \in 1..asked : Taken(ch, r) /\ Got(child[c], r) /\ ~Got(ch, r) /\ carried' = Append(carried, r)
    <3>1. PICK r \in 1..asked : Got(child[c], r) /\ ~Got(ch, r) /\ carried' = Append(carried, r)
      BY <2>2
    <3>2. /\ DOMAIN carried' = 1..(Len(carried) + 1) /\ DOMAIN carried = 1..Len(carried) /\ Len(carried) \in Nat
          /\ \A i \in DOMAIN carried : carried'[i] = carried[i]
          /\ carried'[Len(carried) + 1] = r
      BY <1>6, <3>1
    <3>3. \A q : (\E i \in DOMAIN carried' : carried'[i] = q) => q = r \/ \E i \in DOMAIN carried : carried[i] = q
      <4>1. \A i \in DOMAIN carried' : i \in DOMAIN carried \/ i = Len(carried) + 1
        BY <3>2
      <4> QED BY <3>2, <4>1
    <3>4. \A i \in DOMAIN carried : i \in DOMAIN carried' /\ carried'[i] = carried[i]
      BY <3>2
    <3> QED BY <3>1, <3>3, <3>4 DEF Executed
  <2> QED BY <1>5, <2>1, <2>2
<1>8. HelperTypeOK'
  <2>1. child' \in [DOMAIN child' -> HelperChild]
    BY <1>1 DEF HelperInv, HelperTypeOK
  <2>2. carried' \in Seq(1..asked')
    <3>1. \A r \in 1..asked : Append(carried, r) \in Seq(1..asked)
      BY <1>6
    <3> QED BY <1>5, <1>6, <3>1
  <2> QED BY <1>1, <2>1, <2>2 DEF HelperInv, HelperTypeOK
<1>9. OneEach'
  <2> SUFFICES ASSUME NEW d \in DOMAIN child PROVE OneOf(d)'
    BY <1>1 DEF OneEach
  <2>1. OneEach
    BY DEF HelperInv
  <2>2. Sent(d)' /\ (~child'[d].connected => ~child'[d].alive)
    BY <1>1, <1>2, <2>1 DEF OneEach, OneOf
  <2>3. Quiet(child'[d]) \/ \E r \in 1..asked : Taken(child'[d], r)
    BY <1>1, <2>1 DEF OneEach, OneOf
  <2>4. \A e \in DOMAIN child, r \in 1..asked : Taken(child'[e], r) => Taken(child[e], r)
    BY <1>1, <1>4
  <2>5. ASSUME NEW r \in 1..asked, Taken(child'[d], r)
        PROVE  /\ Sent(r)' /\ outcome'[r] # "resolved"
               /\ \A e \in DOMAIN child : Taken(child'[e], r) => e = d
               /\ Got(child'[d], r) => ~Executed(r)'
               /\ LET a == [of |-> r, ok |-> TRUE]
                  IN Did(child'[d], a) \/ Answered(child'[d], a) => Executed(r)'
    <3>1. Taken(child[d], r)
      BY <2>4, <2>5
    <3>2. Sent(r)' /\ outcome'[r] # "resolved" /\ \A e \in DOMAIN child : Taken(child'[e], r) => e = d
      BY <1>2, <2>1, <2>4, <3>1 DEF OneEach, OneOf
    <3>3. Got(child'[d], r) => ~Executed(r)'
      <4>1. CASE d = c
        BY <1>1, <1>4, <1>7, <2>1, <2>5, <3>1, <4>1 DEF OneEach, OneOf
      <4>2. CASE d # c
        <5>1. ~Got(child[c], r)
          BY <2>1, <3>1, <4>2 DEF OneEach, OneOf, Taken
        <5>2. Got(child[d], r) => ~Executed(r)
          BY <2>1, <3>1 DEF OneEach, OneOf
        <5> QED BY <1>1, <1>7, <4>2, <5>1, <5>2
      <4> QED BY <4>1, <4>2
    <3>4. LET a == [of |-> r, ok |-> TRUE] IN Did(child'[d], a) \/ Answered(child'[d], a) => Executed(r)'
      <4>1. CASE d = c
        BY <1>1, <1>4, <2>5, <4>1
      <4>2. CASE d # c
        BY <1>1, <1>7, <2>1, <3>1, <4>2 DEF OneEach, OneOf
      <4> QED BY <4>1, <4>2
    <3> QED BY <3>2, <3>3, <3>4
  <2> QED BY <1>1, <2>2, <2>3, <2>5 DEF OneOf, Taken
<1>10. InTurn'
  BY <1>2 DEF HelperInv, InTurn
<1>11. Settled' /\ H!CarriedOnce'
  <2>1. CASE carried' = carried
    BY <1>2, <2>1 DEF HelperInv, Settled, H!CarriedOnce
  <2>2. CASE \E r \in 1..asked : Taken(ch, r) /\ Got(child[c], r) /\ ~Got(ch, r) /\ carried' = Append(carried, r)
    <3>1. PICK r \in 1..asked : Taken(ch, r) /\ Got(child[c], r) /\ carried' = Append(carried, r)
      BY <2>2
    <3>2. /\ DOMAIN carried' = 1..(Len(carried) + 1) /\ DOMAIN carried = 1..Len(carried) /\ Len(carried) \in Nat
          /\ \A i \in DOMAIN carried : carried'[i] = carried[i]
          /\ carried'[Len(carried) + 1] = r
      BY <1>6, <3>1
    <3>3. Taken(child[c], r)
      BY <1>4, <3>1
    <3>4. Sent(r) /\ outcome[r] # "resolved" /\ \A i \in DOMAIN carried : carried[i] # r
      BY <3>1, <3>3 DEF HelperInv, OneEach, OneOf, Executed
    <3>5. outcome[r] # "refused"
      BY <3>4, SentIsNotRefused DEF HelperInv
    <3>6. Settled'
      <4>1. \A i \in DOMAIN carried' : i \in DOMAIN carried \/ i = Len(carried) + 1
        BY <3>2
      <4>2. Settled
        BY DEF HelperInv
      <4>3. \A i \in DOMAIN carried' : Sent(carried[i])'
        BY <3>2, <3>4, <4>1, <4>2 DEF Settled, Sent
      <4>4. \A i, j \in DOMAIN carried' :
              i < j /\ outcome'[carried'[j]] = "resolved" => outcome'[carried'[i]] # "pending"
        BY <3>2, <3>4, <4>1, <4>2 DEF Settled
      <4> QED BY <4>3, <4>4 DEF Settled
    <3>7. H!CarriedOnce'
      <4>1. \A i \in DOMAIN carried' : i \in DOMAIN carried \/ i = Len(carried) + 1
        BY <3>2
      <4>2. H!CarriedOnce
        BY DEF HelperInv
      <4>3. \A i, j \in DOMAIN carried' : carried'[i] = carried'[j] => i = j
        BY <3>2, <3>4, <4>1, <4>2 DEF H!CarriedOnce
      <4>4. \A i, j \in DOMAIN carried' :
              i < j /\ outcome'[carried'[i]] = "resolved" /\ outcome'[carried'[j]] = "resolved"
              => carried'[i] < carried'[j]
        BY <3>2, <3>4, <4>1, <4>2 DEF H!CarriedOnce
      <4>5. \A q \in 1..asked' : /\ outcome'[q] = "resolved" => \E i \in DOMAIN carried' : carried'[i] = q
                                 /\ outcome'[q] = "refused" => \A i \in DOMAIN carried' : carried'[i] # q
        BY <3>2, <3>5, <4>1, <4>2 DEF H!CarriedOnce
      <4> QED BY <4>3, <4>4, <4>5 DEF H!CarriedOnce
    <3> QED BY <3>6, <3>7
  <2> QED BY <1>5, <2>1, <2>2
<1>12. H!Recovers'
  <2>1. H!Recovers
    BY DEF HelperInv
  <2>2. pending' = H!Cardinality({r \in 1..asked' : outcome'[r] = "pending"})
    BY <2>1 DEF H!Recovers
  <2>3. current' # None =>
          /\ ~child'[current'].killed /\ ~helperDisposed'
          /\ running' = None => /\ child'[current'].inbox = <<>> /\ child'[current'].doing = None
                                /\ child'[current'].answers = <<>>
    <3> SUFFICES ASSUME current # None
                 PROVE  /\ ~child'[current].killed /\ ~helperDisposed
                        /\ running = None => Quiet(child'[current])
      BY DEF Quiet
    <3>1. current \in DOMAIN child
      BY DEF HelperInv, HelperTypeOK
    <3>2. ~child[current].killed /\ ~helperDisposed /\ (running = None => Quiet(child[current]))
      BY <2>1 DEF H!Recovers, Quiet
    <3> QED BY <1>1, <3>1, <3>2
  <2>4. \A d \in H!Children' : ~child'[d].killed /\ child'[d].alive => d = current'
    BY <1>1, <2>1 DEF H!Recovers, H!Children
  <2> QED BY <2>2, <2>3, <2>4 DEF H!Recovers
<1> QED BY <1>8, <1>9, <1>10, <1>11, <1>12 DEF HelperInv

LEMMA EmptyParts == <<>> \in Seq(Nat) /\ <<>> \in Seq(Replies) /\ None \in Replies \cup {None}
OBVIOUS

\* What a child does, or its end.
LEMMA HelperSteps ==
  ASSUME HelperInv, NEW c \in H!Children, H!Execute(c) \/ H!Reply(c) \/ H!Die(c)
  PROVE  HelperInv'
<1>0. /\ c \in DOMAIN child /\ child \in [DOMAIN child -> HelperChild] /\ child[c] \in HelperChild
      /\ asked \in Nat /\ \A r \in 1..asked : r \in Nat
  BY DEF HelperInv, HelperTypeOK, H!Children
<1>1. CASE H!Execute(c)
  <2>1. child[c].alive /\ child[c].doing = None /\ child[c].inbox # <<>>
    BY <1>1 DEF H!Execute
  <2>2. PICK r \in 1..asked : Taken(child[c], r)
    BY <1>0, <2>1 DEF HelperInv, OneEach, OneOf, Quiet
  <2>3. Got(child[c], r) /\ Head(child[c].inbox) = r /\ Tail(child[c].inbox) = <<>>
    BY <1>0, <2>1, <2>2, Phases
  <2>4. PICK ok \in BOOLEAN, effect \in BOOLEAN :
          /\ ok => effect
          /\ carried' = IF effect THEN Append(carried, r) ELSE carried
          /\ child' = [child EXCEPT ![c].doing = [of |-> r, ok |-> ok], ![c].inbox = <<>>]
    BY <1>1, <2>3 DEF H!Execute
  <2>5. PICK ch : ch = [child[c] EXCEPT !.doing = [of |-> r, ok |-> ok], !.inbox = <<>>]
    OBVIOUS
  <2>6. /\ ch \in HelperChild /\ ch.connected = child[c].connected /\ ch.killed = child[c].killed
        /\ ch.alive = child[c].alive /\ Did(ch, [of |-> r, ok |-> ok])
    <3>1. [of |-> r, ok |-> ok] \in Replies
      BY <1>0 DEF Replies
    <3>2. ch \in HelperChild
      BY <1>0, <2>5, <3>1, EmptyParts DEF HelperChild
    <3> QED BY <1>0, <2>3, <2>5, <3>2 DEF HelperChild, Did, Got
  <2>7. child' = [child EXCEPT ![c] = ch]
    BY <1>0, <2>4, <2>5
  <2>8. Taken(ch, r) /\ ~Got(ch, r) /\ ~Quiet(child[c])
    BY <1>0, <2>2, <2>6, Phases, OneElement DEF Taken, Got, Did
  <2>9. \A b \in BOOLEAN : Did(ch, [of |-> r, ok |-> b]) \/ Answered(ch, [of |-> r, ok |-> b]) => b = ok
    BY <2>6, OneElement DEF Did, Answered
  <2>10. ok => Executed(r)'
    <3>1. carried \in Seq(1..asked)
      BY DEF HelperInv, HelperTypeOK
    <3>2. Len(Append(carried, r)) \in DOMAIN Append(carried, r) /\ Append(carried, r)[Len(Append(carried, r))] = r
      BY <3>1
    <3> QED BY <2>4, <3>2 DEF Executed
  <2>11. UNCHANGED <<asked, outcome, pending, running, current, helperDisposed>>
    BY <1>1 DEF H!Execute
  <2>12. carried' = carried \/ carried' = Append(carried, r)
    BY <2>4
  <2> QED
    BY <1>0, <2>2, <2>3, <2>6, <2>7, <2>8, <2>9, <2>10, <2>11, <2>12, ChildKeeps
<1>2. CASE H!Reply(c)
  <2>1. child[c].doing # None
    BY <1>2 DEF H!Reply
  <2>2. PICK r \in 1..asked : Taken(child[c], r)
    BY <1>0, <2>1 DEF HelperInv, OneEach, OneOf, Quiet
  <2>3. PICK ok \in BOOLEAN : Did(child[c], [of |-> r, ok |-> ok])
    BY <1>0, <2>1, <2>2, Phases
  <2>4. PICK ch : ch = [child[c] EXCEPT !.answers = <<[of |-> r, ok |-> ok]>>, !.doing = None]
    OBVIOUS
  <2>5. child' = [child EXCEPT ![c] = ch]
    BY <1>0, <1>2, <2>3, <2>4, OneElement DEF H!Reply, Did
  <2>6. /\ ch \in HelperChild /\ ch.connected = child[c].connected /\ ch.killed = child[c].killed
        /\ ch.alive = child[c].alive /\ Answered(ch, [of |-> r, ok |-> ok])
    <3>1. [of |-> r, ok |-> ok] \in Replies
      BY <1>0 DEF Replies
    <3>2. <<[of |-> r, ok |-> ok]>> \in Seq(Replies)
      BY <3>1
    <3>3. ch \in HelperChild
      BY <1>0, <2>4, <3>2, EmptyParts DEF HelperChild
    <3> QED BY <1>0, <2>3, <2>4, <3>3 DEF HelperChild, Did, Answered
  <2>7. Taken(ch, r) /\ ~Got(ch, r) /\ ~Quiet(child[c])
    BY <1>0, <2>2, <2>6, Phases, OneElement DEF Taken, Got, Answered
  <2>8. \A b \in BOOLEAN : Did(ch, [of |-> r, ok |-> b]) \/ Answered(ch, [of |-> r, ok |-> b]) => b = ok
    BY <2>6, OneElement DEF Did, Answered
  <2>9. ok => Executed(r)'
    <3>1. UNCHANGED carried
      BY <1>2 DEF H!Reply
    <3> QED BY <1>0, <2>2, <2>3, <3>1 DEF HelperInv, OneEach, OneOf, Executed
  <2>10. UNCHANGED <<asked, outcome, pending, running, current, helperDisposed, carried>>
    BY <1>2 DEF H!Reply
  <2> QED
    BY <1>0, <2>2, <2>5, <2>6, <2>7, <2>8, <2>9, <2>10, ChildKeeps
<1>3. CASE H!Die(c)
  <2>1. PICK ch : ch = [child[c] EXCEPT !.alive = FALSE, !.inbox = <<>>, !.doing = None]
    OBVIOUS
  <2>2. child' = [child EXCEPT ![c] = ch]
    BY <1>0, <1>3, <2>1 DEF H!Die
  <2>3. /\ ch \in HelperChild /\ ch.connected = child[c].connected /\ ch.killed = child[c].killed
        /\ ch.alive = FALSE /\ ch.inbox = <<>> /\ ch.doing = None /\ ch.answers = child[c].answers
    <3>1. ch \in HelperChild
      BY <1>0, <2>1, EmptyParts DEF HelperChild
    <3> QED BY <1>0, <2>1, <3>1 DEF HelperChild
  <2>4. UNCHANGED <<asked, outcome, pending, running, current, helperDisposed, carried>>
    BY <1>3 DEF H!Die
  <2>5. CASE Quiet(ch)
    BY <1>0, <2>2, <2>3, <2>4, <2>5, ChildKeeps
  <2>6. CASE ~Quiet(ch)
    <3>1. child[c].answers # <<>>
      BY <2>3, <2>6 DEF Quiet
    <3>2. PICK r \in 1..asked : Taken(child[c], r)
      BY <1>0, <3>1 DEF HelperInv, OneEach, OneOf, Quiet
    <3>3. PICK ok \in BOOLEAN : Answered(child[c], [of |-> r, ok |-> ok])
      BY <1>0, <3>1, <3>2, Phases
    <3>4. Answered(ch, [of |-> r, ok |-> ok]) /\ ~Got(ch, r) /\ ~Quiet(child[c]) /\ Taken(ch, r)
      BY <2>3, <3>1, <3>3, OneElement DEF Answered, Got, Quiet, Taken
    <3>5. \A b \in BOOLEAN : Did(ch, [of |-> r, ok |-> b]) \/ Answered(ch, [of |-> r, ok |-> b]) => b = ok
      BY <3>4, OneElement DEF Did, Answered
    <3>6. ok => Executed(r)'
      BY <1>0, <2>4, <3>2, <3>3 DEF HelperInv, OneEach, OneOf, Executed
    <3> QED BY <1>0, <2>2, <2>3, <2>4, <3>2, <3>4, <3>5, <3>6, ChildKeeps
  <2> QED BY <2>5, <2>6
<1> QED BY <1>1, <1>2, <1>3

\* What runs is settled, and leaves the queue as it was.
LEMMA SettleKeeps ==
  ASSUME HelperInv, running # None, NEW how \in {"resolved", "failed"}, H!Settle(running.of, how),
         running' = None, UNCHANGED <<asked, carried>>, helperDisposed' \in BOOLEAN,
         DOMAIN child' = DOMAIN child, child' \in [DOMAIN child -> HelperChild],
         current' \in DOMAIN child \cup {None},
         \A c \in DOMAIN child : ~child'[c].connected => ~child'[c].alive,
         \A c \in DOMAIN child :
           \/ UNCHANGED <<child[c].inbox, child[c].doing, child[c].answers>> /\ (how = "resolved" => c # running.on)
           \/ Quiet(child'[c]),
         how = "resolved" => Answered(child[running.on], [of |-> running.of, ok |-> TRUE]),
         current' # None => ~child'[current'].killed /\ ~helperDisposed' /\ Quiet(child'[current']),
         \A c \in DOMAIN child : ~child'[c].killed /\ child'[c].alive => c = current'
  PROVE  HelperInv'
<1>1. PICK r : r = running.of
  OBVIOUS
<1>2. /\ running \in [of : 1..asked, on : DOMAIN child] /\ r \in 1..asked /\ running.on \in DOMAIN child
      /\ outcome[r] = "pending" /\ asked \in Nat
  BY <1>1 DEF HelperInv, HelperTypeOK, InTurn
<1>3. /\ outcome' \in [1..asked -> {"pending", "resolved", "failed", "refused"}] /\ outcome'[r] = how
      /\ \A q \in 1..asked : q # r => outcome'[q] = outcome[q]
  BY <1>1, <1>2 DEF H!Settle, HelperInv, HelperTypeOK
<1>4. \A q \in 1..asked : Sent(q)' <=> Sent(q)
  BY <1>1, <1>2, <1>3 DEF Sent
<1>5. \A q \in 1..asked : Executed(q)' <=> Executed(q)
  BY DEF Executed
<1>6. ASSUME NEW c \in DOMAIN child, NEW q \in 1..asked, Taken(child'[c], q)
      PROVE  /\ UNCHANGED <<child[c].inbox, child[c].doing, child[c].answers>>
             /\ how = "resolved" => c # running.on
             /\ Taken(child[c], q)
  <2>1. ~Quiet(child'[c])
    BY <1>2, <1>6, Phases
  <2> QED BY <1>6, <2>1 DEF Taken, Got, Did, Answered
<1>7. HelperTypeOK'
  BY <1>2, <1>3 DEF HelperInv, HelperTypeOK
<1>8. OneEach'
  <2> SUFFICES ASSUME NEW c \in DOMAIN child PROVE OneOf(c)'
    BY DEF OneEach
  <2>1. OneEach /\ DOMAIN child \subseteq 1..asked
    BY DEF HelperInv, HelperTypeOK
  <2>2. Sent(c)'
    BY <1>4, <2>1 DEF OneEach, OneOf
  <2>3. Quiet(child'[c]) \/ \E q \in 1..asked : Taken(child'[c], q)
    <3>1. CASE Quiet(child[c])
      BY <3>1 DEF Quiet
    <3>2. CASE \E q \in 1..asked : Taken(child[c], q)
      <4>1. PICK q \in 1..asked : Taken(child[c], q)
        BY <3>2
      <4> QED BY <4>1 DEF Taken, Got, Did, Answered
    <3> QED BY <2>1, <3>1, <3>2 DEF OneEach, OneOf
  <2>4. ASSUME NEW q \in 1..asked, Taken(child'[c], q)
        PROVE  /\ Sent(q)' /\ outcome'[q] # "resolved"
               /\ \A d \in DOMAIN child : Taken(child'[d], q) => d = c
               /\ Got(child'[c], q) => ~Executed(q)'
               /\ LET a == [of |-> q, ok |-> TRUE]
                  IN Did(child'[c], a) \/ Answered(child'[c], a) => Executed(q)'
    <3>1. Taken(child[c], q) /\ UNCHANGED <<child[c].inbox, child[c].doing, child[c].answers>>
      BY <1>6, <2>4
    <3>2. Sent(q)' /\ outcome[q] # "resolved" /\ \A d \in DOMAIN child : Taken(child'[d], q) => d = c
      BY <1>4, <1>6, <2>1, <3>1 DEF OneEach, OneOf
    <3>3. outcome'[q] # "resolved"
      <4>1. CASE q = r /\ how = "resolved"
        <5>1. Taken(child[running.on], q)
          BY <1>1, <4>1 DEF Taken
        <5> QED BY <1>2, <1>6, <2>1, <2>4, <3>1, <4>1, <5>1 DEF OneEach, OneOf
      <4>2. CASE q # r \/ how = "failed"
        BY <1>3, <3>2, <4>2
      <4> QED BY <4>1, <4>2
    <3>4. Got(child'[c], q) => ~Executed(q)'
      BY <1>5, <2>1, <3>1 DEF OneEach, OneOf, Got
    <3>5. LET a == [of |-> q, ok |-> TRUE] IN Did(child'[c], a) \/ Answered(child'[c], a) => Executed(q)'
      BY <1>5, <2>1, <3>1 DEF OneEach, OneOf, Did, Answered
    <3> QED BY <3>2, <3>3, <3>4, <3>5
  <2> QED BY <2>2, <2>3, <2>4 DEF OneOf, Taken
<1>9. InTurn'
  BY <1>3, <1>4 DEF HelperInv, InTurn
<1>10. carried \in Seq(1..asked) /\ \A i \in DOMAIN carried : carried[i] \in 1..asked
  BY DEF HelperInv, HelperTypeOK
<1>11. Settled'
  <2>1. Settled /\ H!CarriedOnce
    BY DEF HelperInv
  <2>2. \A i \in DOMAIN carried : Sent(carried[i])'
    BY <1>4, <1>10, <2>1 DEF Settled
  <2>3. \A i, j \in DOMAIN carried : i < j /\ outcome'[carried[j]] = "resolved" => outcome'[carried[i]] # "pending"
    <3> SUFFICES ASSUME NEW i \in DOMAIN carried, NEW j \in DOMAIN carried, i < j, outcome'[carried[j]] = "resolved",
                        carried[i] # r
                 PROVE  outcome[carried[i]] # "pending"
      BY <1>3, <1>10
    <3>1. CASE carried[j] = r
      BY <1>1, <2>1, <3>1 DEF Settled, Sent
    <3>2. CASE carried[j] # r
      BY <1>3, <1>10, <2>1, <3>2 DEF Settled
    <3> QED BY <3>1, <3>2
  <2> QED BY <2>2, <2>3 DEF Settled
<1>12. H!CarriedOnce'
  <2>1. Settled /\ H!CarriedOnce
    BY DEF HelperInv
  <2>2. \A i, j \in DOMAIN carried : carried[i] = carried[j] => i = j
    BY <2>1 DEF H!CarriedOnce
  <2>3. ASSUME NEW i \in DOMAIN carried, NEW j \in DOMAIN carried, i < j,
               outcome'[carried[i]] = "resolved", outcome'[carried[j]] = "resolved"
        PROVE  carried[i] < carried[j]
    <3>1. CASE carried[i] = r
      <4>1. carried[j] # r
        BY <1>10, <2>2, <2>3, <3>1
      <4> QED BY <1>2, <1>3, <1>10, <2>1, <2>3, <3>1, <4>1 DEF Settled
    <3>2. CASE carried[i] # r /\ carried[j] = r
      BY <1>1, <1>3, <1>10, <2>3, <3>2 DEF HelperInv, InTurn
    <3>3. CASE carried[i] # r /\ carried[j] # r
      BY <1>3, <1>10, <2>1, <2>3, <3>3 DEF H!CarriedOnce
    <3> QED BY <3>1, <3>2, <3>3
  <2>4. ASSUME NEW q \in 1..asked
        PROVE  /\ outcome'[q] = "resolved" => \E i \in DOMAIN carried : carried[i] = q
               /\ outcome'[q] = "refused" => \A i \in DOMAIN carried : carried[i] # q
    <3>1. CASE q = r
      <4>1. how = "resolved" => Taken(child[running.on], r)
        BY <1>1 DEF Taken
      <4> QED BY <1>1, <1>2, <1>3, <3>1, <4>1 DEF HelperInv, OneEach, OneOf, Executed
    <3>2. CASE q # r
      BY <1>3, <2>1, <3>2 DEF H!CarriedOnce
    <3> QED BY <3>1, <3>2
  <2> QED BY <2>2, <2>3, <2>4 DEF H!CarriedOnce
<1>13. H!Recovers'
  <2>1. pending' = H!Cardinality({q \in 1..asked' : outcome'[q] = "pending"})
    BY <1>1, <1>2, SettleCounts, HelperCardinality DEF HelperInv
  <2>2. H!Children' = DOMAIN child
    BY DEF H!Children
  <2> QED BY <2>1, <2>2 DEF H!Recovers, Quiet
<1> QED BY <1>7, <1>8, <1>9, <1>11, <1>12, <1>13 DEF HelperInv

\* A child that is replaced, for the better or the worse, in what the client knows of it.
LEMMA ChildTypes ==
  ASSUME HelperInv
  PROVE  /\ child \in [DOMAIN child -> HelperChild] /\ \A c \in DOMAIN child : child[c] \in HelperChild
         /\ \A ch \in HelperChild : [ch EXCEPT !.killed = TRUE] \in HelperChild
         /\ \A ch \in HelperChild : [ch EXCEPT !.connected = FALSE] \in HelperChild
         /\ OneEach /\ InTurn /\ H!Recovers
         /\ running # None => running.on \in DOMAIN child /\ running.on = current /\ running.of \in 1..asked
         /\ helperDisposed \in BOOLEAN /\ current \in DOMAIN child \cup {None} /\ None \notin DOMAIN child
<1>1. /\ child \in [DOMAIN child -> HelperChild] /\ \A c \in DOMAIN child : child[c] \in HelperChild
      /\ running # None => running.on \in DOMAIN child /\ running.of \in 1..asked
      /\ helperDisposed \in BOOLEAN /\ current \in DOMAIN child \cup {None}
      /\ OneEach /\ InTurn /\ H!Recovers
  BY DEF HelperInv, HelperTypeOK
<1>2. /\ \A ch \in HelperChild : [ch EXCEPT !.killed = TRUE] \in HelperChild
      /\ \A ch \in HelperChild : [ch EXCEPT !.connected = FALSE] \in HelperChild
  BY DEF HelperChild
<1>3. running # None => running.on = current
  BY DEF HelperInv, InTurn
<1>4. None \notin DOMAIN child
  BY ClientAssumption DEF HelperInv, HelperTypeOK
<1> QED BY <1>1, <1>2, <1>3, <1>4

\* A request fails, and its child is killed.
LEMMA FailKeeps == ASSUME HelperInv, H!Fail, UNCHANGED <<asked, helperDisposed, carried>> PROVE HelperInv'
<1>1. /\ running # None /\ H!Settle(running.of, "failed") /\ running' = None /\ current' = None
      /\ child' = [child EXCEPT ![running.on].killed = TRUE]
  BY ChildTypes DEF H!Fail
<1>2. PICK ch : ch = [child[running.on] EXCEPT !.killed = TRUE]
  OBVIOUS
<1>3. child' = [child EXCEPT ![running.on] = ch] /\ ch \in HelperChild
  BY <1>1, <1>2, ChildTypes
<1>4. /\ ch.alive = child[running.on].alive /\ ch.connected = child[running.on].connected /\ ch.killed
      /\ ch.inbox = child[running.on].inbox /\ ch.doing = child[running.on].doing
      /\ ch.answers = child[running.on].answers
  BY <1>1, <1>2, ChildTypes DEF HelperChild
<1>5. /\ DOMAIN child' = DOMAIN child /\ child' \in [DOMAIN child -> HelperChild] /\ child'[running.on] = ch
      /\ \A c \in DOMAIN child : c # running.on => child'[c] = child[c]
  BY <1>1, <1>3, ChildTypes
<1>6. \A c \in DOMAIN child :
        /\ ~child'[c].connected => ~child'[c].alive
        /\ UNCHANGED <<child[c].inbox, child[c].doing, child[c].answers>>
  BY <1>1, <1>4, <1>5, ChildTypes DEF OneEach, OneOf
<1>7. \A c \in DOMAIN child : child'[c].killed \/ ~child'[c].alive
  BY <1>1, <1>4, <1>5, ChildTypes DEF H!Recovers, H!Children
<1> QED BY <1>1, <1>5, <1>6, <1>7, ChildTypes, SettleKeeps

\* An answer comes to the request that waits for it.
LEMMA MessageKeeps == ASSUME HelperInv, NEW c \in H!Children, H!Message(c) PROVE HelperInv'
<1>1. CASE H!Fail
  BY <1>1, FailKeeps DEF H!Message
<1>2. CASE ~H!Fail
  <2>1. /\ child[c].answers # <<>> /\ running = [of |-> Head(child[c].answers).of, on |-> c]
        /\ Head(child[c].answers).ok /\ H!Settle(Head(child[c].answers).of, "resolved") /\ running' = None
        /\ child' = [child EXCEPT ![c].answers = Tail(@)] /\ UNCHANGED <<asked, helperDisposed, carried, current>>
    BY <1>2 DEF H!Message
  <2>2. c \in DOMAIN child /\ child[c] \in HelperChild /\ asked \in Nat /\ \A r \in 1..asked : r \in Nat
    BY ChildTypes DEF H!Children, HelperInv, HelperTypeOK
  <2>3. PICK r \in 1..asked : Taken(child[c], r)
    BY <2>1, <2>2, ChildTypes DEF OneEach, OneOf, Quiet
  <2>4. PICK ok \in BOOLEAN : Answered(child[c], [of |-> r, ok |-> ok])
    BY <2>1, <2>2, <2>3, Phases
  <2>5. /\ Head(child[c].answers) = [of |-> r, ok |-> ok] /\ Tail(child[c].answers) = <<>>
        /\ child[c].inbox = <<>> /\ child[c].doing = None
    BY <2>4, OneElement DEF Answered
  <2>6. running # None /\ running.of = r /\ running.on = c /\ ok = TRUE /\ H!Settle(running.of, "resolved")
    <3>1. running = [of |-> r, on |-> c] /\ c \in Nat /\ r \in Nat
      BY <2>1, <2>2, <2>5 DEF HelperInv, HelperTypeOK
    <3>2. running # None /\ running.of = r /\ running.on = c
      BY <3>1, ClientAssumption
    <3>3. Head(child[c].answers).of = r /\ Head(child[c].answers).ok = ok
      BY <2>5
    <3>4. H!Settle(running.of, "resolved")
      BY <2>1, <3>2, <3>3
    <3>5. ok
      BY <2>1, <3>3
    <3> QED BY <3>2, <3>4, <3>5
  <2>7. PICK ch : ch = [child[c] EXCEPT !.answers = <<>>]
    OBVIOUS
  <2>8. child' = [child EXCEPT ![c] = ch] /\ ch \in HelperChild
    BY <2>1, <2>2, <2>5, <2>7, EmptyParts DEF HelperChild
  <2>9. /\ Quiet(ch) /\ ch.alive = child[c].alive /\ ch.connected = child[c].connected
        /\ ch.killed = child[c].killed
    BY <2>2, <2>5, <2>7 DEF HelperChild, Quiet
  <2>10. /\ DOMAIN child' = DOMAIN child /\ child' \in [DOMAIN child -> HelperChild] /\ child'[c] = ch
         /\ \A d \in DOMAIN child : d # c => child'[d] = child[d]
    BY <2>2, <2>8, ChildTypes
  <2>11. /\ \A d \in DOMAIN child : ~child'[d].connected => ~child'[d].alive
         /\ \A d \in DOMAIN child : ~child'[d].killed /\ child'[d].alive => d = current'
    BY <2>1, <2>2, <2>9, <2>10, ChildTypes DEF OneEach, OneOf, H!Recovers, H!Children
  <2>12. \A d \in DOMAIN child :
           \/ UNCHANGED <<child[d].inbox, child[d].doing, child[d].answers>> /\ d # running.on
           \/ Quiet(child'[d])
    BY <2>6, <2>9, <2>10
  <2>13. current' # None => ~child'[current'].killed /\ ~helperDisposed' /\ Quiet(child'[current'])
    BY <2>1, <2>6, <2>9, <2>10, ChildTypes DEF H!Recovers
  <2> QED
    BY <2>1, <2>4, <2>6, <2>10, <2>11, <2>12, <2>13, ChildTypes, SettleKeeps
<1> QED BY <1>1, <1>2

\* What changes of the children is only what the client knows of them.
LEMMA KnownKeeps ==
  ASSUME HelperInv, UNCHANGED <<asked, outcome, pending, running, carried>>, helperDisposed' \in BOOLEAN,
         DOMAIN child' = DOMAIN child, child' \in [DOMAIN child -> HelperChild],
         current' \in DOMAIN child \cup {None},
         running # None => running.on = current',
         \A c \in DOMAIN child :
           /\ UNCHANGED <<child[c].inbox, child[c].doing, child[c].answers>>
           /\ ~child'[c].connected => ~child'[c].alive
           /\ ~child'[c].killed /\ child'[c].alive => c = current',
         current' # None => ~child'[current'].killed /\ ~helperDisposed' /\ (running = None => Quiet(child'[current']))
  PROVE  HelperInv'
<1>1. HelperTypeOK'
  BY DEF HelperInv, HelperTypeOK
<1>2. \A d \in DOMAIN child : \A q : Taken(child'[d], q) <=> Taken(child[d], q)
  BY DEF Taken, Got, Did, Answered
<1>3. OneEach'
  <2> SUFFICES ASSUME NEW d \in DOMAIN child PROVE OneOf(d)'
    BY DEF OneEach
  <2>1. OneOf(d)
    BY ChildTypes DEF OneEach
  <2>2. \A q \in 1..asked : (Sent(q)' <=> Sent(q)) /\ (Executed(q)' <=> Executed(q))
    BY DEF Sent, Executed
  <2>3. Sent(d)' <=> Sent(d)
    BY DEF Sent
  <2>4. Quiet(child'[d]) <=> Quiet(child[d])
    BY DEF Quiet
  <2>5. \A q : (Got(child'[d], q) <=> Got(child[d], q)) /\ (Did(child'[d], q) <=> Did(child[d], q))
                /\ (Answered(child'[d], q) <=> Answered(child[d], q))
    BY DEF Got, Did, Answered
  <2>6. ASSUME NEW q \in 1..asked, Taken(child'[d], q)
        PROVE  /\ Sent(q)' /\ outcome'[q] # "resolved"
               /\ \A e \in DOMAIN child : Taken(child'[e], q) => e = d
               /\ Got(child'[d], q) => ~Executed(q)'
               /\ LET a == [of |-> q, ok |-> TRUE]
                  IN Did(child'[d], a) \/ Answered(child'[d], a) => Executed(q)'
    BY <1>2, <2>1, <2>2, <2>5, <2>6 DEF OneOf
  <2>7. Quiet(child'[d]) \/ \E q \in 1..asked : Taken(child'[d], q)
    BY <1>2, <2>1, <2>4 DEF OneOf
  <2> QED BY <2>1, <2>3, <2>6, <2>7 DEF OneOf, Taken
<1>4. InTurn' /\ Settled' /\ H!CarriedOnce'
  BY DEF HelperInv, InTurn, Settled, H!CarriedOnce, Sent
<1>5. H!Recovers'
  <2>1. pending' = H!Cardinality({r \in 1..asked' : outcome'[r] = "pending"})
    BY ChildTypes DEF H!Recovers
  <2>2. current' # None =>
          /\ ~child'[current'].killed /\ ~helperDisposed'
          /\ running' = None => /\ child'[current'].inbox = <<>> /\ child'[current'].doing = None
                                /\ child'[current'].answers = <<>>
    BY ChildTypes DEF H!Recovers, Quiet
  <2>3. \A d \in H!Children' : ~child'[d].killed /\ child'[d].alive => d = current'
    BY ChildTypes DEF H!Recovers, H!Children
  <2> QED BY <2>1, <2>2, <2>3 DEF H!Recovers
<1> QED BY <1>1, <1>3, <1>4, <1>5 DEF HelperInv


\* The client learns of the end of a child.
LEMMA ExitKeeps == ASSUME HelperInv, NEW c \in H!Children, H!Exit(c) PROVE HelperInv'
<1>1. /\ c \in DOMAIN child /\ child[c] \in HelperChild /\ ~child[c].alive
      /\ child' = [child EXCEPT ![c].connected = FALSE] /\ UNCHANGED <<asked, helperDisposed, carried>>
  BY ChildTypes DEF H!Exit, H!Children
<1>2. PICK ch : ch = [child[c] EXCEPT !.connected = FALSE]
  OBVIOUS
<1>3. child' = [child EXCEPT ![c] = ch] /\ ch \in HelperChild
  BY <1>1, <1>2, ChildTypes
<1>4. /\ ch.alive = child[c].alive /\ ~ch.connected /\ ch.killed = child[c].killed
      /\ ch.inbox = child[c].inbox /\ ch.doing = child[c].doing /\ ch.answers = child[c].answers
  BY <1>1, <1>2 DEF HelperChild
<1>5. /\ DOMAIN child' = DOMAIN child /\ child' \in [DOMAIN child -> HelperChild] /\ child'[c] = ch
      /\ \A d \in DOMAIN child : d # c => child'[d] = child[d]
  BY <1>1, <1>3, ChildTypes
<1>6. \A d \in DOMAIN child :
        /\ ~child'[d].connected => ~child'[d].alive
        /\ UNCHANGED <<child[d].inbox, child[d].doing, child[d].answers>>
        /\ child'[d].alive = child[d].alive /\ child'[d].killed = child[d].killed
  BY <1>1, <1>4, <1>5, ChildTypes DEF OneEach, OneOf
<1>7. CASE running # None /\ running.on = c
  <2>1. H!Settle(running.of, "failed") /\ running' = None /\ current' = None
    BY <1>7, ChildTypes DEF H!Exit
  <2>2. \A d \in DOMAIN child : ~(~child'[d].killed /\ child'[d].alive)
    BY <1>1, <1>6, <1>7, ChildTypes DEF H!Recovers, H!Children
  <2> QED BY <1>1, <1>5, <1>6, <1>7, <2>1, <2>2, ChildTypes, SettleKeeps
<1>8. CASE ~(running # None /\ running.on = c)
  <2>1. UNCHANGED <<outcome, pending, running, current>>
    BY <1>8 DEF H!Exit
  <2> QED BY <1>1, <1>5, <1>6, <1>8, <2>1, ChildTypes, KnownKeeps DEF H!Recovers, H!Children, Quiet
<1> QED BY <1>7, <1>8

\* The client is disposed: what runs fails, and the current child is killed.
LEMMA DisposeKeeps == ASSUME HelperInv, H!Dispose PROVE HelperInv'
<1>1. /\ helperDisposed' = TRUE /\ current' = None /\ UNCHANGED <<asked, carried>>
      /\ child' = [c \in DOMAIN child |->
                     [child[c] EXCEPT !.killed = @ \/ c = current \/ (running # None /\ running.on = c)]]
  BY DEF H!Dispose, H!Children
<1>2. DOMAIN child' = DOMAIN child
  BY <1>1
<1>3. ASSUME NEW c \in DOMAIN child
      PROVE  /\ child'[c] \in HelperChild /\ UNCHANGED <<child[c].inbox, child[c].doing, child[c].answers>>
             /\ ~child'[c].connected => ~child'[c].alive
             /\ child'[c].killed \/ ~child'[c].alive
  <2>1. PICK killed \in BOOLEAN : /\ child'[c] = [child[c] EXCEPT !.killed = killed]
                                  /\ killed <=> child[c].killed \/ c = current \/ (running # None /\ running.on = c)
    <3>1. child[c].killed \in BOOLEAN
      BY ChildTypes DEF HelperChild
    <3> QED BY <1>1, <3>1
  <2>2. child[c] \in HelperChild
    BY ChildTypes
  <2>3. /\ child'[c] \in HelperChild /\ UNCHANGED <<child[c].inbox, child[c].doing, child[c].answers>>
        /\ child'[c].alive = child[c].alive /\ child'[c].connected = child[c].connected /\ child'[c].killed = killed
    BY <2>1, <2>2 DEF HelperChild
  <2>4. (~child[c].connected => ~child[c].alive) /\ (~child[c].killed /\ child[c].alive => c = current)
    BY ChildTypes DEF OneEach, OneOf, H!Recovers, H!Children
  <2> QED BY <2>1, <2>3, <2>4
<1>4. child' \in [DOMAIN child -> HelperChild]
  BY <1>1, <1>3
<1>5. CASE running # None
  <2>1. H!Settle(running.of, "failed") /\ running' = None
    BY <1>5 DEF H!Dispose
  <2> QED BY <1>1, <1>2, <1>3, <1>4, <1>5, <2>1, ChildTypes, SettleKeeps
<1>6. CASE running = None
  <2>1. UNCHANGED <<outcome, pending, running>>
    BY <1>6 DEF H!Dispose
  <2> QED BY <1>1, <1>2, <1>3, <1>4, <1>6, <2>1, ChildTypes, KnownKeeps
<1> QED BY <1>5, <1>6

\* What waits, and when it gets its turn.
LEMMA TurnFacts ==
  ASSUME HelperInv, NEW r, H!Turn(r)
  PROVE  /\ running = None /\ r \in 1..asked /\ outcome[r] = "pending" /\ ~Sent(r) /\ asked \in Nat
         /\ \A q \in 1..asked : outcome[q] = "pending" => r <= q
         /\ \A q \in 1..asked : Sent(q) => q < r
         /\ \A c \in DOMAIN child : c # r /\ ~Taken(child[c], r)
         /\ ~Executed(r)
<1>1. running = None /\ H!Waiting = {q \in 1..asked : outcome[q] = "pending"}
  BY DEF H!Turn, H!Waiting
<1>2. /\ r \in 1..asked /\ outcome[r] = "pending" /\ ~Sent(r) /\ asked \in Nat
      /\ \A q \in 1..asked : outcome[q] = "pending" => r <= q
  BY <1>1 DEF H!Turn, Sent, HelperInv, HelperTypeOK
<1>3. \A q \in 1..asked : Sent(q) => q < r
  BY <1>2 DEF HelperInv, InTurn
<1>4. \A c \in DOMAIN child : c # r /\ ~Taken(child[c], r)
  BY <1>2, ChildTypes DEF OneEach, OneOf
<1>5. ~Executed(r)
  BY <1>2 DEF HelperInv, Settled, Executed
<1> QED BY <1>1, <1>2, <1>3, <1>4, <1>5

\* A request is sent to the current child, which is idle, or to a new one.
LEMMA SendKeeps ==
  ASSUME HelperInv, NEW r, H!Turn(r), NEW c, NEW ch \in HelperChild, Got(ch, r), ~ch.killed, ch.connected \/ ~ch.alive,
         child' = [d \in DOMAIN child \cup {c} |-> IF d = c THEN ch ELSE child[d]],
         (c \in DOMAIN child /\ Quiet(child[c])) \/ c = r,
         \A d \in DOMAIN child : d # c => child[d].killed \/ ~child[d].alive,
         current' = c, running' = [of |-> r, on |-> c], ~helperDisposed,
         UNCHANGED <<asked, outcome, pending, helperDisposed, carried>>
  PROVE  HelperInv'
<1>1. /\ running = None /\ r \in 1..asked /\ outcome[r] = "pending" /\ ~Sent(r) /\ asked \in Nat
      /\ \A q \in 1..asked : outcome[q] = "pending" => r <= q
      /\ \A q \in 1..asked : Sent(q) => q < r
      /\ \A d \in DOMAIN child : d # r /\ ~Taken(child[d], r)
      /\ ~Executed(r)
  BY TurnFacts
<1>2. /\ DOMAIN child' = DOMAIN child \cup {c} /\ child'[c] = ch
      /\ \A d \in DOMAIN child : d # c => child'[d] = child[d]
      /\ c \in 1..asked /\ DOMAIN child \subseteq 1..asked /\ c \in Nat /\ r \in Nat
  BY <1>1 DEF HelperInv, HelperTypeOK
<1>3. running' # None /\ running'.of = r /\ running'.on = c
  BY <1>2, ClientAssumption
<1>4. \A q : Sent(q)' <=> (Sent(q) \/ q = r)
  BY <1>1, <1>3 DEF Sent
<1>5. \A q : Executed(q)' <=> Executed(q)
  BY DEF Executed
<1>6. HelperTypeOK'
  <2>1. child' \in [DOMAIN child' -> HelperChild]
    BY <1>2, ChildTypes
  <2>2. running' \in [of : 1..asked', on : DOMAIN child']
    BY <1>1, <1>2
  <2> QED BY <1>2, <2>1, <2>2 DEF HelperInv, HelperTypeOK
<1>7. OneEach'
  <2> SUFFICES ASSUME NEW d \in DOMAIN child' PROVE OneOf(d)'
    BY DEF OneEach
  <2>1. Taken(ch, r) /\ (\A q \in 1..asked : Taken(ch, q) => q = r) /\ c \in DOMAIN child'
    <3>1. Taken(ch, r)
      BY DEF Taken
    <3>2. \A q \in 1..asked : q \in Nat
      BY <1>1
    <3>3. \A q \in 1..asked : Taken(ch, q) => q = r
      BY <1>2, <3>1, <3>2, Phases
    <3> QED BY <1>2, <3>1, <3>3
  <2>2. \A ok \in BOOLEAN : ~Did(ch, [of |-> r, ok |-> ok]) /\ ~Answered(ch, [of |-> r, ok |-> ok])
    BY OneElement DEF Got, Did, Answered
  <2>3. CASE d = c
    <3>1. Sent(c)'
      BY <1>2, <1>4, ChildTypes DEF OneEach, OneOf
    <3>2. ASSUME NEW q \in 1..asked, Taken(ch, q)
          PROVE  /\ Sent(q)' /\ outcome'[q] # "resolved"
                 /\ \A e \in DOMAIN child' : Taken(child'[e], q) => e = c
                 /\ Got(ch, q) => ~Executed(q)'
                 /\ LET a == [of |-> q, ok |-> TRUE] IN Did(ch, a) \/ Answered(ch, a) => Executed(q)'
      <4>1. q = r
        BY <2>1, <3>2
      <4>2. \A e \in DOMAIN child' : Taken(child'[e], r) => e = c
        BY <1>1, <1>2
      <4> QED BY <1>1, <1>4, <1>5, <2>2, <4>1, <4>2
    <3>3. Quiet(ch) \/ \E q \in 1..asked : Taken(ch, q)
      BY <1>1, <2>1
    <3> QED BY <1>2, <2>3, <3>1, <3>2, <3>3 DEF OneOf, Taken
  <2>4. CASE d # c
    <3>1. d \in DOMAIN child /\ child'[d] = child[d] /\ OneOf(d)
      BY <1>2, <2>4, ChildTypes DEF OneEach
    <3>2. Sent(d)' /\ (~child'[d].connected => ~child'[d].alive)
      BY <1>4, <3>1 DEF OneOf
    <3>3. Quiet(child'[d]) \/ \E q \in 1..asked : Taken(child'[d], q)
      BY <3>1 DEF OneOf
    <3>4. ASSUME NEW q \in 1..asked, Taken(child[d], q)
          PROVE  /\ Sent(q)' /\ outcome'[q] # "resolved"
                 /\ \A e \in DOMAIN child' : Taken(child'[e], q) => e = d
                 /\ Got(child'[d], q) => ~Executed(q)'
                 /\ LET a == [of |-> q, ok |-> TRUE] IN Did(child'[d], a) \/ Answered(child'[d], a) => Executed(q)'
      <4>1. q # r
        BY <1>1, <3>1, <3>4
      <4>2. ~Taken(ch, q)
        BY <2>1, <4>1
      <4>3. \A e \in DOMAIN child' : Taken(child'[e], q) => e = d
        BY <1>2, <3>1, <3>4, <4>2 DEF OneOf
      <4> QED BY <1>4, <1>5, <3>1, <3>4, <4>3 DEF OneOf
    <3> QED BY <3>1, <3>2, <3>3, <3>4 DEF OneOf, Taken
  <2> QED BY <2>3, <2>4
<1>8. InTurn'
  <2>1. outcome'[r] = "pending" /\ running'.on = current'
    BY <1>1, <1>3
  <2>2. \A p, q \in 1..asked' : Sent(p)' /\ outcome'[q] = "pending" /\ ~Sent(q)' => p < q
    <3> SUFFICES ASSUME NEW p \in 1..asked, NEW q \in 1..asked, Sent(p)', outcome[q] = "pending", ~Sent(q)'
                 PROVE  p < q
      OBVIOUS
    <3>1. (Sent(p) \/ p = r) /\ ~Sent(q) /\ q # r
      BY <1>4
    <3>2. CASE p = r
      BY <1>1, <3>1, <3>2
    <3>3. CASE Sent(p)
      BY <3>1, <3>3, ChildTypes DEF InTurn
    <3> QED BY <3>1, <3>2, <3>3
  <2>3. \A q \in 1..asked' : outcome'[q] \in {"resolved", "failed"} => q < running'.of
    BY <1>1, <1>3 DEF Sent
  <2> QED BY <1>3, <2>1, <2>2, <2>3 DEF InTurn
<1>9. Settled' /\ H!CarriedOnce'
  <2>1. Settled /\ H!CarriedOnce
    BY DEF HelperInv
  <2>2. \A i \in DOMAIN carried : Sent(carried[i])'
    BY <1>4, <2>1 DEF Settled
  <2> QED BY <2>1, <2>2 DEF Settled, H!CarriedOnce
<1>10. H!Recovers'
  <2>1. pending' = H!Cardinality({q \in 1..asked' : outcome'[q] = "pending"})
    BY ChildTypes DEF H!Recovers
  <2>2. \A d \in DOMAIN child' : ~child'[d].killed /\ child'[d].alive => d = c
    BY <1>2
  <2> QED BY <1>2, <1>3, <2>1, <2>2 DEF H!Recovers, H!Children
<1> QED BY <1>6, <1>7, <1>8, <1>9, <1>10 DEF HelperInv

\* The turn of a request has come.
LEMMA RunKeeps == ASSUME HelperInv, NEW r, H!Run(r) PROVE HelperInv'
<1>1. H!Turn(r) /\ UNCHANGED <<asked, helperDisposed, carried>>
  BY DEF H!Run
<1>2. /\ running = None /\ r \in 1..asked /\ outcome[r] = "pending" /\ ~Sent(r) /\ asked \in Nat
      /\ \A q \in 1..asked : outcome[q] = "pending" => r <= q
      /\ \A q \in 1..asked : Sent(q) => q < r
      /\ \A d \in DOMAIN child : d # r /\ ~Taken(child[d], r)
      /\ ~Executed(r)
  BY <1>1, TurnFacts
<1>3. r \in Nat /\ <<r>> \in Seq(Nat)
  BY <1>2
<1>4. CASE /\ ~helperDisposed /\ H!Reusable /\ child' = [child EXCEPT ![current] = H!Send(@, r)]
           /\ running' = [of |-> r, on |-> current] /\ UNCHANGED <<outcome, pending, current>>
  <2>1. /\ current \in DOMAIN child /\ child[current] \in HelperChild /\ Quiet(child[current])
        /\ ~child[current].killed /\ child[current].connected
    BY <1>2, <1>4, ChildTypes DEF H!Reusable, H!Recovers, Quiet
  <2>2. PICK ch : ch = [child[current] EXCEPT !.inbox = <<r>>]
    OBVIOUS
  <2>3. H!Send(child[current], r) = ch
    BY <2>1, <2>2, OneElement DEF H!Send, Quiet
  <2>4. child' = [d \in DOMAIN child \cup {current} |-> IF d = current THEN ch ELSE child[d]]
    BY <1>4, <2>1, <2>3, ChildTypes
  <2>5. ch \in HelperChild
    BY <1>3, <2>1, <2>2 DEF HelperChild
  <2>6. Got(ch, r) /\ ~ch.killed /\ ch.connected
    BY <2>1, <2>2 DEF HelperChild, Got, Quiet
  <2>7. \A d \in DOMAIN child : d # current => child[d].killed \/ ~child[d].alive
    BY ChildTypes DEF H!Recovers, H!Children
  <2> QED BY <1>1, <1>4, <2>1, <2>4, <2>5, <2>6, <2>7, SendKeeps
<1>5. CASE /\ ~helperDisposed /\ ~H!Reusable
           /\ child' = [c \in H!Children \cup {r} |-> IF c = r THEN H!Send(H!NewChild, r) ELSE child[c]]
           /\ current' = r /\ running' = [of |-> r, on |-> r] /\ UNCHANGED <<outcome, pending>>
  <2>1. PICK ch : ch = H!Send(H!NewChild, r)
    OBVIOUS
  <2>2. ch = [alive |-> TRUE, killed |-> FALSE, connected |-> TRUE, inbox |-> <<r>>, doing |-> None, answers |-> <<>>]
    BY <2>1, OneElement DEF H!Send, H!NewChild
  <2>3. ch \in HelperChild /\ Got(ch, r) /\ ~ch.killed /\ ch.connected
    BY <1>3, <2>2, EmptyParts DEF HelperChild, Got
  <2>4. child' = [d \in DOMAIN child \cup {r} |-> IF d = r THEN ch ELSE child[d]]
    BY <1>5, <2>1 DEF H!Children
  <2>5. \A d \in DOMAIN child : d # r => child[d].killed \/ ~child[d].alive
    BY <1>5, ChildTypes DEF H!Reusable, H!Recovers, H!Children, OneEach, OneOf
  <2> QED BY <1>1, <1>5, <2>3, <2>4, <2>5, SendKeeps
<1>6. CASE H!Settle(r, "refused") /\ UNCHANGED <<running, current, child>>
  <2>1. /\ outcome' \in [1..asked -> {"pending", "resolved", "failed", "refused"}] /\ outcome'[r] = "refused"
        /\ \A q \in 1..asked : q # r => outcome'[q] = outcome[q]
    BY <1>2, <1>6 DEF H!Settle, HelperInv, HelperTypeOK
  <2>2. \A q \in 1..asked : Sent(q)' <=> Sent(q)
    BY <1>2, <1>6, <2>1 DEF Sent
  <2>3. \A q \in 1..asked : Executed(q)' <=> Executed(q)
    BY <1>1 DEF Executed
  <2>4. HelperTypeOK'
    BY <1>1, <1>6, <2>1 DEF HelperInv, HelperTypeOK
  <2>5. OneEach'
    <3> SUFFICES ASSUME NEW c \in DOMAIN child PROVE OneOf(c)'
      BY <1>6 DEF OneEach
    <3>1. OneOf(c) /\ c \in 1..asked
      BY ChildTypes DEF OneEach, HelperInv, HelperTypeOK
    <3>2. \A q \in 1..asked : outcome'[q] = "resolved" => outcome[q] = "resolved"
      BY <2>1
    <3> QED BY <1>1, <1>6, <2>2, <2>3, <3>1, <3>2 DEF OneOf, Taken
  <2>6. InTurn'
    BY <1>1, <1>2, <1>6, <2>1, <2>2 DEF HelperInv, InTurn
  <2>7. carried \in Seq(1..asked) /\ \A i \in DOMAIN carried : carried[i] \in 1..asked /\ carried[i] # r
    BY <1>2 DEF HelperInv, HelperTypeOK, Executed
  <2>8. Settled' /\ H!CarriedOnce'
    <3>1. Settled /\ H!CarriedOnce
      BY DEF HelperInv
    <3>2. \A i \in DOMAIN carried : Sent(carried[i])'
      BY <1>1, <1>6, <2>2, <2>7, <3>1 DEF Settled, Sent
    <3>3. \A i \in DOMAIN carried : outcome'[carried[i]] = outcome[carried[i]]
      BY <2>1, <2>7
    <3>4. ASSUME NEW q \in 1..asked
          PROVE  /\ outcome'[q] = "resolved" => \E i \in DOMAIN carried : carried[i] = q
                 /\ outcome'[q] = "refused" => \A i \in DOMAIN carried : carried[i] # q
      <4>1. CASE q = r
        BY <2>1, <2>7, <4>1
      <4>2. CASE q # r
        BY <2>1, <3>1, <4>2 DEF H!CarriedOnce
      <4> QED BY <4>1, <4>2
    <3> QED BY <1>1, <3>1, <3>2, <3>3, <3>4 DEF Settled, H!CarriedOnce
  <2>9. H!Recovers'
    <3>1. pending' = H!Cardinality({q \in 1..asked' : outcome'[q] = "pending"})
      BY <1>1, <1>2, <1>6, SettleCounts, HelperCardinality DEF HelperInv
    <3> QED BY <1>1, <1>6, <3>1, ChildTypes DEF H!Recovers, H!Children
  <2> QED BY <2>4, <2>5, <2>6, <2>8, <2>9 DEF HelperInv
<1> QED BY <1>4, <1>5, <1>6 DEF H!Run

LEMMA SeqGrows == ASSUME NEW A1, NEW A2, A1 \subseteq A2, NEW s \in Seq(A1) PROVE s \in Seq(A2)
OBVIOUS

\* A request is made, and accepted or refused at once.
LEMMA AskKeeps == ASSUME HelperInv, H!Ask PROVE HelperInv'
<1>0. PICK n : n = asked'
  OBVIOUS
<1>1. /\ asked' = asked + 1 /\ UNCHANGED <<running, current, helperDisposed, child, carried>>
      /\ outcome' = [r \in 1..asked' |-> IF r < asked' THEN outcome[r]
                       ELSE IF ~helperDisposed /\ pending < Limit THEN "pending" ELSE "refused"]
      /\ pending' = IF ~helperDisposed /\ pending < Limit THEN pending + 1 ELSE pending
  BY DEF H!Ask
<1>2. /\ asked \in Nat /\ n \in Nat /\ n \notin 1..asked /\ 1..asked' = 1..asked \cup {n}
      /\ \A q \in 1..asked : outcome'[q] = outcome[q] /\ q < n
      /\ outcome'[n] \in {"pending", "refused"}
  BY <1>0, <1>1 DEF HelperInv, HelperTypeOK
<1>3. \A q \in 1..asked : (Sent(q)' <=> Sent(q)) /\ (Executed(q)' <=> Executed(q))
  BY <1>1, <1>2 DEF Sent, Executed
<1>4. /\ carried \in Seq(1..asked) /\ DOMAIN child \subseteq 1..asked
      /\ running # None => running.of \in 1..asked /\ running.on \in DOMAIN child
      /\ \A i \in DOMAIN carried : carried[i] \in 1..asked
  BY DEF HelperInv, HelperTypeOK
<1>5. ~Sent(n)' /\ ~Executed(n)'
  <2>1. ~Sent(n)'
    BY <1>1, <1>2, <1>4 DEF Sent
  <2>2. ~Executed(n)'
    BY <1>1, <1>2, <1>4 DEF Executed
  <2> QED BY <2>1, <2>2
<1>6. HelperTypeOK'
  <2>1. outcome' \in [1..asked' -> {"pending", "resolved", "failed", "refused"}]
    BY <1>1, <1>2 DEF HelperInv, HelperTypeOK
  <2>2. carried \in Seq(1..asked')
    BY <1>2, <1>4, SeqGrows
  <2>3. running \in [of : 1..asked', on : DOMAIN child] \cup {None}
    BY <1>2 DEF HelperInv, HelperTypeOK
  <2> QED BY <1>1, <1>2, <1>4, <2>1, <2>2, <2>3 DEF HelperInv, HelperTypeOK
<1>7. OneEach'
  <2> SUFFICES ASSUME NEW c \in DOMAIN child PROVE OneOf(c)'
    BY <1>1 DEF OneEach
  <2>1. OneOf(c) /\ c \in 1..asked
    BY <1>4, ChildTypes DEF OneEach
  <2>2. ~Taken(child[c], n)
    <3>1. \A q \in 1..asked : q \in Nat /\ q # n
      BY <1>2
    <3> QED BY <1>2, <2>1, <3>1, Phases DEF OneOf
  <2>3. \A d \in DOMAIN child : UNCHANGED child[d]
    BY <1>1
  <2>4. Sent(c)'
    BY <1>3, <2>1 DEF OneOf
  <2>5. Quiet(child[c]) \/ \E q \in 1..asked' : Taken(child[c], q)
    BY <1>2, <2>1 DEF OneOf
  <2>6. ASSUME NEW q \in 1..asked', Taken(child[c], q)
        PROVE  /\ Sent(q)' /\ outcome'[q] # "resolved"
               /\ \A d \in DOMAIN child : Taken(child[d], q) => d = c
               /\ Got(child[c], q) => ~Executed(q)'
               /\ LET a == [of |-> q, ok |-> TRUE] IN Did(child[c], a) \/ Answered(child[c], a) => Executed(q)'
    <3>1. q \in 1..asked
      BY <1>2, <2>2, <2>6
    <3> QED BY <1>2, <1>3, <2>1, <2>6, <3>1 DEF OneOf
  <2> QED BY <1>1, <2>1, <2>4, <2>5, <2>6 DEF OneOf, Taken
<1>8. InTurn'
  <2>1. \A q, r \in 1..asked' : Sent(q)' /\ outcome'[r] = "pending" /\ ~Sent(r)' => q < r
    <3> SUFFICES ASSUME NEW q \in 1..asked', NEW r \in 1..asked', Sent(q)', outcome'[r] = "pending", ~Sent(r)'
                 PROVE  q < r
      OBVIOUS
    <3>1. q \in 1..asked /\ Sent(q)
      BY <1>2, <1>3, <1>5
    <3>2. CASE r \in 1..asked
      BY <1>2, <1>3, <3>1, <3>2, ChildTypes DEF InTurn
    <3>3. CASE r = n
      BY <1>2, <3>1, <3>3
    <3> QED BY <1>2, <3>2, <3>3
  <2>2. running # None => outcome'[running.of] = "pending" /\ running.on = current
    BY <1>2, <1>4, ChildTypes DEF InTurn
  <2>3. running # None => \A q \in 1..asked' : outcome'[q] \in {"resolved", "failed"} => q < running.of
    BY <1>2, <1>4, ChildTypes DEF InTurn
  <2> QED BY <1>1, <2>1, <2>2, <2>3 DEF InTurn
<1>9. Settled' /\ H!CarriedOnce'
  <2>1. Settled /\ H!CarriedOnce
    BY DEF HelperInv
  <2>2. \A i \in DOMAIN carried : Sent(carried[i])' /\ outcome'[carried[i]] = outcome[carried[i]]
    BY <1>1, <1>2, <1>3, <1>4, <2>1 DEF Settled, Sent
  <2>3. \A q \in 1..asked' : /\ outcome'[q] = "resolved" => \E i \in DOMAIN carried : carried[i] = q
                             /\ outcome'[q] = "refused" => \A i \in DOMAIN carried : carried[i] # q
    <3>1. \A i \in DOMAIN carried : carried[i] # n
      BY <1>2, <1>4
    <3> QED BY <1>2, <2>1, <3>1 DEF H!CarriedOnce
  <2>4. Settled'
    <3>1. \A i, j \in DOMAIN carried : i < j /\ outcome'[carried[j]] = "resolved" => outcome'[carried[i]] # "pending"
      BY <2>1, <2>2 DEF Settled
    <3>2. \A i \in DOMAIN carried' : Sent(carried[i])'
      BY <1>1, <2>2 DEF Sent
    <3>3. DOMAIN carried' = DOMAIN carried /\ \A i : carried'[i] = carried[i]
      BY <1>1
    <3> QED BY <3>1, <3>2, <3>3 DEF Settled
  <2>5. H!CarriedOnce'
    BY <1>1, <2>1, <2>2, <2>3 DEF H!CarriedOnce
  <2> QED BY <2>4, <2>5
<1>10. H!Recovers'
  <2>1. pending = Cardinality(Pendings) /\ IsFiniteSet(Pendings) /\ n \notin Pendings
    <3>1. pending = Cardinality({q \in 1..asked : outcome[q] = "pending"})
      BY HelperCardinality, ChildTypes DEF H!Recovers
    <3> QED BY <1>2, <3>1, PendingsFinite DEF Pendings, HelperInv
  <2>2. pending' = Cardinality({q \in 1..asked' : outcome'[q] = "pending"})
    <3>1. CASE ~helperDisposed /\ pending < Limit
      <4>1. {q \in 1..asked' : outcome'[q] = "pending"} = Pendings \cup {n}
        BY <1>0, <1>1, <1>2, <3>1 DEF Pendings
      <4> QED BY <1>1, <2>1, <3>1, <4>1, FS_AddElement
    <3>2. CASE ~(~helperDisposed /\ pending < Limit)
      <4>1. {q \in 1..asked' : outcome'[q] = "pending"} = Pendings
        <5>1. outcome'[n] # "pending"
          BY <1>0, <1>1, <1>2, <3>2
        <5> QED BY <1>2, <5>1 DEF Pendings
      <4> QED BY <1>1, <2>1, <3>2, <4>1
    <3> QED BY <3>1, <3>2
  <2> QED BY <1>1, <2>2, HelperCardinality, ChildTypes DEF H!Recovers, H!Children
<1> QED BY <1>6, <1>7, <1>8, <1>9, <1>10 DEF HelperInv

LEMMA HelperStep == ASSUME HelperInv, [H!ClientNext]_clientVars PROVE HelperInv'
<1>1. CASE UNCHANGED clientVars
  <2>1. UNCHANGED <<asked, outcome, pending, running, current, helperDisposed, child, carried>>
    BY <1>1 DEF clientVars
  <2>2. HelperTypeOK' /\ InTurn' /\ Settled' /\ H!CarriedOnce'
    BY <2>1 DEF HelperInv, HelperTypeOK, InTurn, Settled, H!CarriedOnce, Sent
  <2>3. OneEach'
    <3>1. \A c, q : (Taken(child[c], q)' <=> Taken(child[c], q)) /\ (Sent(q)' <=> Sent(q))
                    /\ (Executed(q)' <=> Executed(q))
      BY <2>1 DEF Taken, Sent, Executed
    <3>2. \A c \in DOMAIN child : OneOf(c) => OneOf(c)'
      BY <2>1, <3>1 DEF OneOf
    <3> QED BY <2>1, <3>2 DEF HelperInv, OneEach
  <2>4. H!Recovers'
    BY <2>1 DEF HelperInv, H!Recovers, H!Children
  <2> QED BY <2>2, <2>3, <2>4 DEF HelperInv
<1>2. CASE H!Ask
  BY <1>2, AskKeeps
<1>3. CASE H!Timeout
  BY <1>3, FailKeeps DEF H!Timeout
<1>4. CASE H!Dispose
  BY <1>4, DisposeKeeps
<1>5. ASSUME NEW r \in H!Request, H!Run(r) PROVE HelperInv'
  BY <1>5, RunKeeps
<1>6. ASSUME NEW c \in H!Children, H!Message(c) \/ H!Exit(c) \/ H!Execute(c) \/ H!Reply(c) \/ H!Die(c) PROVE HelperInv'
  BY <1>6, MessageKeeps, ExitKeeps, HelperSteps
<1> QED BY <1>1, <1>2, <1>3, <1>4, <1>5, <1>6 DEF H!ClientNext

------------------------------------------------------------------------------
(* The helper implements HistoryService.                                    *)

\* What HistoryService is told, in the terms of the helper.
Foremost(r) == r \in Pendings /\ \A q \in Pendings : r <= q

LEMMA ServiceCardinality == \A A1 : V!Cardinality(A1) = Cardinality(A1)
BY DEF V!Cardinality, Cardinality

LEMMA ServiceSteps ==
  ASSUME part = "helper", part' = "helper"
  PROVE  /\ \A r : Foremost(r) /\ ~helperDisposed /\ Executed(r) /\ outcome' = [outcome EXCEPT ![r] = "resolved"]
                    /\ UNCHANGED <<asked, helperDisposed, carried>> => V!Answer(r)
         /\ \A r : Foremost(r) /\ ~helperDisposed /\ outcome' = [outcome EXCEPT ![r] = "failed"]
                    /\ UNCHANGED <<asked, helperDisposed, carried>> => V!Fail(r)
         /\ \A r : Foremost(r) /\ ~Executed(r) /\ outcome' = [outcome EXCEPT ![r] = "refused"]
                    /\ UNCHANGED <<asked, helperDisposed, carried>> => V!Refuse(r)
         /\ /\ ~helperDisposed /\ helperDisposed' = TRUE /\ UNCHANGED <<asked, carried>>
            /\ UNCHANGED outcome \/ \E r \in Pendings : Foremost(r) /\ outcome' = [outcome EXCEPT ![r] = "failed"]
            => V!Close
         /\ /\ asked' = asked + 1 /\ UNCHANGED <<helperDisposed, carried>>
            /\ outcome' = [r \in 1..asked' |-> IF r \in 1..asked THEN outcome[r]
                              ELSE IF ~helperDisposed /\ Cardinality(Pendings) < Limit THEN "pending" ELSE "refused"]
            => V!Ask
         /\ UNCHANGED <<asked, outcome, helperDisposed, carried>> => UNCHANGED V!vars
<1>1. /\ V!Pending = Pendings /\ \A r : (V!First(r) <=> Foremost(r)) /\ (V!Done(r) <=> Executed(r))
      /\ \A r, how : V!Settle(r, how) <=> outcome' = [outcome EXCEPT ![r] = how]
  BY DEF V!Pending, V!First, V!Done, V!Settle, Pendings, Foremost, Executed
<1>2. /\ \A r : Foremost(r) /\ ~helperDisposed /\ Executed(r) /\ outcome' = [outcome EXCEPT ![r] = "resolved"]
                    /\ UNCHANGED <<asked, helperDisposed, carried>> => V!Answer(r)
      /\ \A r : Foremost(r) /\ ~helperDisposed /\ outcome' = [outcome EXCEPT ![r] = "failed"]
                    /\ UNCHANGED <<asked, helperDisposed, carried>> => V!Fail(r)
      /\ \A r : Foremost(r) /\ ~Executed(r) /\ outcome' = [outcome EXCEPT ![r] = "refused"]
                    /\ UNCHANGED <<asked, helperDisposed, carried>> => V!Refuse(r)
  BY <1>1 DEF V!Answer, V!Fail, V!Refuse
<1>3. /\ ~helperDisposed /\ helperDisposed' = TRUE /\ UNCHANGED <<asked, carried>>
      /\ UNCHANGED outcome \/ \E r \in Pendings : Foremost(r) /\ outcome' = [outcome EXCEPT ![r] = "failed"]
      => V!Close
  BY <1>1 DEF V!Close
<1>4. /\ asked' = asked + 1 /\ UNCHANGED <<helperDisposed, carried>>
      /\ outcome' = [r \in 1..asked' |-> IF r \in 1..asked THEN outcome[r]
                              ELSE IF ~helperDisposed /\ Cardinality(Pendings) < Limit THEN "pending" ELSE "refused"]
      => V!Ask
  BY <1>1, ServiceCardinality DEF V!Ask
<1>5. UNCHANGED <<asked, outcome, helperDisposed, carried>> => UNCHANGED V!vars
  BY DEF V!vars
<1> QED BY <1>2, <1>3, <1>4, <1>5

LEMMA ServiceCarries ==
  ASSUME part = "helper", part' = "helper", NEW r, ~Executed(r),
         (Foremost(r) /\ ~helperDisposed) \/ (r \in 1..asked /\ outcome[r] = "failed"),
         carried' = Append(carried, r), UNCHANGED <<asked, outcome, helperDisposed>>
  PROVE  V!Carry(r)
<1>1. (V!First(r) <=> Foremost(r)) /\ (V!Done(r) <=> Executed(r))
  BY DEF V!First, V!Pending, V!Done, Pendings, Foremost, Executed
<1> QED BY <1>1 DEF V!Carry

\* What runs is served, by a helper that is not disposed.
LEMMA RunningIsServed ==
  ASSUME HelperInv, running # None
  PROVE  Foremost(running.of) /\ running.of \in 1..asked /\ outcome[running.of] = "pending" /\ ~helperDisposed
<1>1. /\ running.of \in 1..asked /\ outcome[running.of] = "pending" /\ asked \in Nat
      /\ running.on = current /\ running.on \in DOMAIN child /\ Sent(running.of)
  BY ChildTypes DEF InTurn, HelperInv, HelperTypeOK, Sent
<1>2. ~helperDisposed
  BY <1>1, ChildTypes DEF H!Recovers
<1>3. ASSUME NEW q \in Pendings PROVE running.of <= q
  <2>1. q \in 1..asked /\ outcome[q] = "pending"
    BY <1>3 DEF Pendings
  <2>2. CASE Sent(q)
    BY <1>1, <2>1, <2>2 DEF Sent
  <2>3. CASE ~Sent(q)
    BY <1>1, <2>1, <2>3, ChildTypes DEF InTurn
  <2> QED BY <2>2, <2>3
<1> QED BY <1>1, <1>2, <1>3 DEF Foremost, Pendings

\* Every step of the helper is one of the service, or changes nothing that it shows.
LEMMA HelperServes ==
  ASSUME part = "helper", part' = "helper", HelperInv, H!ClientNext
  PROVE  V!Next \/ UNCHANGED V!vars
<1>0. /\ \A r \in 1..asked : V!Answer(r) \/ V!Fail(r) \/ V!Refuse(r) \/ V!Carry(r) => V!Next
      /\ V!Ask \/ V!Close => V!Next
  BY DEF V!Next
<1>1. CASE H!Ask
  <2>1. pending = Cardinality(Pendings) /\ asked \in Nat
    BY HelperCardinality DEF HelperInv, HelperTypeOK, H!Recovers, Pendings
  <2>2. outcome' = [r \in 1..asked' |-> IF r \in 1..asked THEN outcome[r]
                      ELSE IF ~helperDisposed /\ Cardinality(Pendings) < Limit THEN "pending" ELSE "refused"]
    BY <1>1, <2>1 DEF H!Ask
  <2> QED BY <1>0, <1>1, <2>2, ServiceSteps DEF H!Ask
<1>2. ASSUME H!Fail, UNCHANGED <<asked, helperDisposed, carried>>
      PROVE  V!Next
  <2>1. Foremost(running.of) /\ running.of \in 1..asked /\ ~helperDisposed
        /\ outcome' = [outcome EXCEPT ![running.of] = "failed"]
    BY <1>2, RunningIsServed DEF H!Fail, H!Settle
  <2> QED BY <1>0, <1>2, <2>1, ServiceSteps
<1>3. CASE H!Timeout
  BY <1>2, <1>3 DEF H!Timeout
<1>4. CASE H!Dispose
  <2>1. CASE running # None
    <3>1. Foremost(running.of) /\ running.of \in Pendings /\ outcome' = [outcome EXCEPT ![running.of] = "failed"]
      BY <1>4, <2>1, RunningIsServed DEF H!Dispose, H!Settle, Foremost
    <3> QED BY <1>0, <1>4, <3>1, ServiceSteps DEF H!Dispose
  <2>2. CASE running = None
    BY <1>0, <1>4, <2>2, ServiceSteps DEF H!Dispose
  <2> QED BY <2>1, <2>2
<1>5. ASSUME NEW r \in H!Request, H!Run(r)
      PROVE  V!Next \/ UNCHANGED V!vars
  <2>1. H!Turn(r) /\ UNCHANGED <<asked, helperDisposed, carried>>
    BY <1>5 DEF H!Run
  <2>2. CASE UNCHANGED outcome
    BY <2>1, <2>2, ServiceSteps
  <2>3. CASE H!Settle(r, "refused")
    <3>1. Foremost(r) /\ ~Executed(r) /\ r \in 1..asked
      BY <2>1, TurnFacts DEF Foremost, Pendings
    <3> QED BY <1>0, <2>1, <2>3, <3>1, ServiceSteps DEF H!Settle
  <2> QED BY <1>5, <2>2, <2>3 DEF H!Run
<1>6. ASSUME NEW c \in H!Children, H!Message(c)
      PROVE  V!Next
  <2>1. CASE H!Fail
    BY <1>2, <1>6, <2>1 DEF H!Message
  <2>2. CASE ~H!Fail
    <3>1. /\ child[c].answers # <<>> /\ running = [of |-> Head(child[c].answers).of, on |-> c]
          /\ Head(child[c].answers).ok /\ H!Settle(Head(child[c].answers).of, "resolved")
          /\ UNCHANGED <<asked, helperDisposed, carried>>
      BY <1>6, <2>2 DEF H!Message
    <3>2. c \in DOMAIN child /\ child[c] \in HelperChild /\ asked \in Nat /\ \A r \in 1..asked : r \in Nat
      BY ChildTypes DEF H!Children, HelperInv, HelperTypeOK
    <3>3. PICK r \in 1..asked : Taken(child[c], r)
      BY <3>1, <3>2, ChildTypes DEF OneEach, OneOf, Quiet
    <3>4. PICK ok \in BOOLEAN : Answered(child[c], [of |-> r, ok |-> ok])
      BY <3>1, <3>2, <3>3, Phases
    <3>5. Head(child[c].answers) = [of |-> r, ok |-> ok]
      BY <3>4, OneElement DEF Answered
    <3>6. ok = TRUE /\ running = [of |-> r, on |-> c] /\ H!Settle(r, "resolved")
      BY <3>1, <3>5
    <3>7. running # None /\ running.of = r
      BY <3>2, <3>6, ClientAssumption DEF HelperInv, HelperTypeOK
    <3>8. Executed(r)
      BY <3>2, <3>3, <3>4, <3>6, ChildTypes DEF OneEach, OneOf
    <3>9. Foremost(r) /\ ~helperDisposed
      BY <3>7, RunningIsServed
    <3> QED BY <1>0, <3>1, <3>6, <3>8, <3>9, ServiceSteps DEF H!Settle
  <2> QED BY <2>1, <2>2
<1>7. ASSUME NEW c \in H!Children, H!Exit(c)
      PROVE  V!Next \/ UNCHANGED V!vars
  <2>1. CASE running # None /\ running.on = c
    <3>1. Foremost(running.of) /\ running.of \in 1..asked /\ ~helperDisposed
          /\ outcome' = [outcome EXCEPT ![running.of] = "failed"]
      BY <1>7, <2>1, RunningIsServed DEF H!Exit, H!Settle
    <3> QED BY <1>0, <1>7, <3>1, ServiceSteps DEF H!Exit
  <2>2. CASE ~(running # None /\ running.on = c)
    BY <1>7, <2>2, ServiceSteps DEF H!Exit
  <2> QED BY <2>1, <2>2
<1>8. ASSUME NEW c \in H!Children, H!Execute(c)
      PROVE  V!Next \/ UNCHANGED V!vars
  <2>1. CASE UNCHANGED carried
    BY <1>8, <2>1, ServiceSteps DEF H!Execute
  <2>2. CASE ~UNCHANGED carried
    <3>1. /\ child[c].inbox # <<>> /\ carried' = Append(carried, Head(child[c].inbox))
          /\ UNCHANGED <<asked, outcome, helperDisposed>>
      BY <1>8, <2>2 DEF H!Execute
    <3>2. c \in DOMAIN child /\ child[c] \in HelperChild /\ asked \in Nat /\ \A r \in 1..asked : r \in Nat
      BY ChildTypes DEF H!Children, HelperInv, HelperTypeOK
    <3>3. PICK r \in 1..asked : Taken(child[c], r)
      BY <3>1, <3>2, ChildTypes DEF OneEach, OneOf, Quiet
    <3>4. Got(child[c], r) /\ Head(child[c].inbox) = r
      BY <3>1, <3>2, <3>3, Phases
    <3>5. ~Executed(r) /\ Sent(r) /\ outcome[r] # "resolved"
      <4>1. OneOf(c) /\ Taken(child[c], r) /\ Got(child[c], r)
        BY <3>2, <3>3, <3>4, ChildTypes DEF OneEach
      <4> QED BY <3>3, <4>1 DEF OneOf
    <3>6. (Foremost(r) /\ ~helperDisposed) \/ outcome[r] = "failed"
      BY <3>5, RunningIsServed DEF Sent
    <3>7. V!Carry(r)
      <4>1. carried' = Append(carried, r) /\ UNCHANGED <<asked, outcome, helperDisposed>>
        BY <3>1, <3>4
      <4>2. (Foremost(r) /\ ~helperDisposed) \/ (r \in 1..asked /\ outcome[r] = "failed")
        BY <3>3, <3>6
      <4> QED BY <3>5, <4>1, <4>2, ServiceCarries
    <3> QED BY <1>0, <3>3, <3>7
  <2> QED BY <2>1, <2>2
<1>9. ASSUME NEW c \in H!Children, H!Reply(c) \/ H!Die(c)
      PROVE  UNCHANGED V!vars
  BY <1>9, ServiceSteps DEF H!Reply, H!Die
<1> QED BY <1>1, <1>3, <1>4, <1>5, <1>6, <1>7, <1>8, <1>9 DEF H!ClientNext

------------------------------------------------------------------------------
(* API keys: any number of callers, whose calls overlap at any step. *)

\* The key that everything in the file is encrypted with, and what it holds of a provider.
FileKey == [pass |-> right, salt |-> storeFile.salt]
Plain(store, p) == IF store.entries[p] = None THEN None ELSE store.entries[p].value

UnderKey(store, k) ==
  /\ k.salt = store.salt /\ store.verify \in {None, k}
  /\ \A p \in Provider : store.entries[p] # None => store.entries[p].key = k

\* The providers about which something is promised now.
Firm(p) == p \notin doubt /\ \A c \in Caller : call[c].provider # p
SamePlain(copy) == \A p \in Provider : Firm(p) => Plain(copy, p) = Plain(storeFile, p)
Like(copy) == UnderKey(copy, FileKey) /\ SamePlain(copy)

\* What a call is, at each of its awaits.
InitShape(r) ==
  /\ r.op = "init" /\ r.at \in {"check", "write", "renamed"} /\ r.provider = None /\ r.pass \in Pass
  /\ r.at # "check" => r.key \in A!PassKey
UnlockShape(r) == r.op = "unlock" /\ r.at \in {"read", "derive"} /\ r.provider = None /\ r.pass \in Pass
ChangeShape(r) ==
  /\ r.op = "change" /\ r.at \in {"read", "derive", "verify", "encrypt", "write", "renamed"}
  /\ r.provider = None /\ r.pass \in Pass /\ r.next \in Pass
  /\ r.at \in {"write", "renamed"} => r.key \in A!PassKey
WriteShape(r) ==
  /\ r.op \in {"save", "delete"} /\ r.at \in {"read", "write", "renamed"} /\ r.provider \in Provider
  /\ r.op = "save" => r.value \in ApiValue /\ r.key \in A!PassKey
  /\ r.op = "delete" => r.value = None
Shape(r) ==
  /\ r = A!Idle \/ InitShape(r) \/ UnlockShape(r) \/ ChangeShape(r) \/ WriteShape(r)
  /\ r.at \in {"derive", "write"} => r.copy \in A!Store

\* The entry of a save or a deletion.
NewEntry(r) == IF r.op = "save" THEN [value |-> r.value, key |-> r.key] ELSE None

\* What a call has found out, at each of its awaits; met says that it met another one.
InitSound(r) ==
  /\ r.at = "write" => storeFile = None /\ r.key.pass = r.pass /\ r.copy = A!NewStore(r.key)
  /\ r.at = "renamed" => storeFile = A!NewStore(r.key) /\ r.key = FileKey
ChangeSound(r) ==
  /\ r.at \in {"verify", "encrypt", "write", "renamed"} => storeFile # None
  /\ r.at = "write" => r.key.pass = r.next /\ UnderKey(r.copy, r.key) /\ SamePlain(r.copy)
  /\ r.at = "renamed" => r.key = FileKey
WriteSound(r, met) ==
  /\ storeFile # None
  /\ r.op = "save" => r.key = FileKey
  /\ r.at = "write" => Like(r.copy) /\ (met \/ r.copy.entries[r.provider] = NewEntry(r))
  /\ r.at = "renamed" => met \/ storeFile.entries[r.provider] = NewEntry(r)
Sound(r, met) ==
  /\ r.op = "init" => InitSound(r)
  /\ r.at = "derive" => storeFile # None /\ Like(r.copy)
  /\ r.op = "change" => ChangeSound(r)
  /\ r.op \in {"save", "delete"} => WriteSound(r, met)
CallsAreSound == \A c \in Caller : Sound(call[c], c \in mixed)

FileIsWhole ==
  /\ storeFile = None => saved = A!NoContents
  /\ storeFile # None => right \in Pass /\ UnderKey(storeFile, FileKey)

\* What is in memory is what is in the file, but for the providers of calls.
MemoryIsCurrent ==
  /\ derived # None =>
       storeFile # None /\ (derived = FileKey \/ \E c \in Caller : call[c].op = "change" /\ call[c].at = "renamed")
  /\ keys # None =>
       /\ derived # None
       /\ \A p \in Provider : Firm(p) => keys[p] = Plain(storeFile, p)
       /\ \A c \in Caller : c \notin mixed /\ call[c].provider # None => keys[call[c].provider] = call[c].value

\* A!Acknowledged, in terms of what the file holds.
SavedIsHeld == storeFile # None => \A p \in Provider : Firm(p) => Plain(storeFile, p) = saved[p]

ApiTyped == A!TypeOK /\ (derived # None => salt \in A!Salt) /\ \A c \in Caller : Shape(call[c])
MixedBusy == \A c, d \in Caller : c # d /\ A!Busy(c) /\ A!Busy(d) => c \in mixed
ApiTrue ==
  /\ ~A!Crossed /\ ~A!Untold
  /\ FileIsWhole /\ MemoryIsCurrent /\ CallsAreSound /\ SavedIsHeld

\* Until it is disturbed, as Noted says.
ApiInv == ApiTyped /\ MixedBusy /\ (orderly => ApiTrue)

Calling ==
  [op : Ops \cup {"idle"}, at : A!Stage, provider : Provider \cup {None}, value : ApiValue \cup {None},
   pass : Pass \cup {None}, next : Pass \cup {None}, key : A!PassKey \cup {None}, copy : A!Store \cup {None}]

LEMMA CallTypes ==
  A!TypeOK => /\ call \in [Caller -> Calling] /\ \A c \in Caller : call[c] \in Calling
              /\ storeFile \in A!Store \cup {None}
BY DEF A!TypeOK, Calling

LEMMA CallParts ==
  ASSUME NEW r \in Calling
  PROVE  /\ r.op \in Ops \cup {"idle"} /\ r.at \in A!Stage /\ r.provider \in Provider \cup {None}
         /\ r.value \in ApiValue \cup {None} /\ r.pass \in Pass \cup {None} /\ r.next \in Pass \cup {None}
         /\ r.key \in A!PassKey \cup {None} /\ r.copy \in A!Store \cup {None}
BY DEF Calling

LEMMA IdleType ==
  /\ A!Idle \in Calling /\ A!Idle.op = "idle" /\ A!Idle.at = "idle" /\ A!Idle.provider = None /\ A!Idle.value = None
  /\ A!Idle.pass = None /\ A!Idle.next = None /\ A!Idle.key = None /\ A!Idle.copy = None
BY DEF A!Idle, Calling, A!Stage

LEMMA StoreParts ==
  ASSUME NEW store \in A!Store
  PROVE  /\ store # None /\ store.salt \in A!Salt /\ store.verify \in A!PassKey \cup {None}
         /\ store.entries \in [Provider -> A!Entry \cup {None}]
         /\ \A p \in Provider : store.entries[p] # None =>
              /\ store.entries[p].value \in ApiValue /\ store.entries[p].value # None
              /\ store.entries[p].key \in A!PassKey
<1>1. store # None
  BY StoreAssumption
<1>2. store.salt \in A!Salt /\ store.verify \in A!PassKey \cup {None} /\ store.entries \in [Provider -> A!Entry \cup {None}]
  BY DEF A!Store, A!Contents
<1>3. \A e \in A!Entry : e.value \in ApiValue /\ e.key \in A!PassKey /\ e.value # None
  BY StoreAssumption DEF A!Entry
<1> QED BY <1>1, <1>2, <1>3

LEMMA DecryptedPlain ==
  ASSUME NEW store, NEW k, UnderKey(store, k)
  PROVE  /\ A!Decrypted(store, k) = [p \in Provider |-> Plain(store, p)]
         /\ A!FirstKeys(store) \subseteq {k}
<1>1. \A p \in Provider : (IF store.entries[p] # None /\ store.entries[p].key = k THEN store.entries[p].value ELSE None)
                            = Plain(store, p)
  BY DEF UnderKey, Plain
<1>2. A!Decrypted(store, k) = [p \in Provider |-> Plain(store, p)]
  BY <1>1 DEF A!Decrypted
<1>3. A!FirstKeys(store) \subseteq {k}
  BY DEF A!FirstKeys, UnderKey
<1> QED BY <1>2, <1>3

\* A new store holds nothing, and is under its key.
LEMMA NewStoreIs ==
  ASSUME NEW k \in A!PassKey
  PROVE  /\ A!NewStore(k) \in A!Store /\ A!NewStore(k).salt = k.salt /\ UnderKey(A!NewStore(k), k)
         /\ \A p \in Provider : Plain(A!NewStore(k), p) = None
<1>1. A!NoContents \in A!Contents(A!Entry) /\ \A p \in Provider : A!NoContents[p] = None
  BY DEF A!NoContents, A!Contents
<1>2. /\ A!NewStore(k) = [salt |-> k.salt, verify |-> k, entries |-> A!NoContents]
      /\ A!NewStore(k).salt = k.salt /\ A!NewStore(k).verify = k /\ A!NewStore(k).entries = A!NoContents
  BY DEF A!NewStore
<1>3. k.salt \in A!Salt
  BY DEF A!PassKey
<1>4. A!NewStore(k) \in A!Store
  BY <1>1, <1>2, <1>3 DEF A!Store
<1> QED BY <1>1, <1>2, <1>4 DEF UnderKey, Plain

LEMMA InitApi == A!Init => ApiInv
<1> SUFFICES ASSUME A!Init PROVE ApiInv
  OBVIOUS
<1>1. /\ call = [c \in Caller |-> A!Idle] /\ derived = None /\ keys = None /\ salt = None
      /\ saved = A!NoContents /\ doubt = {} /\ mixed = {} /\ orderly = TRUE
  BY DEF A!Init
<1>2. \A c \in Caller : call[c] = A!Idle
  BY <1>1
<1>3. A!NoContents \in A!Contents(ApiValue) /\ \A p \in Provider : A!NoContents[p] = None
  BY DEF A!NoContents, A!Contents
<1>4. call \in [Caller -> Calling]
  BY <1>1, IdleType
<1>5. CallsAreSound /\ MixedBusy /\ ~A!Crossed /\ ~A!Untold /\ \A c \in Caller : Shape(call[c])
  BY <1>2, IdleType DEF CallsAreSound, Sound, MixedBusy, A!Busy, A!Crossed, A!Untold, Shape
<1>6. CASE storeFile = None /\ right = None /\ salts = 0
  <2>1. A!TypeOK
    BY <1>1, <1>3, <1>4, <1>6, StoreAssumption DEF A!TypeOK, Calling
  <2> QED BY <1>1, <1>5, <1>6, <2>1 DEF ApiInv, ApiTyped, ApiTrue, FileIsWhole, MemoryIsCurrent, SavedIsHeld
<1>7. ASSUME NEW pass \in Pass, storeFile = A!NewStore([pass |-> pass, salt |-> 1]), right = pass, salts = 1
      PROVE  ApiInv
  <2>1. PICK k : k = [pass |-> pass, salt |-> 1]
    OBVIOUS
  <2>2. k \in A!PassKey /\ k.salt = 1
    BY <2>1, StoreAssumption DEF A!PassKey, A!Salt
  <2>3. storeFile = A!NewStore(k)
    BY <1>7, <2>1
  <2>4. /\ storeFile \in A!Store /\ storeFile.salt = 1 /\ UnderKey(storeFile, k) /\ storeFile # None
        /\ \A p \in Provider : Plain(storeFile, p) = None
    BY <2>2, <2>3, NewStoreIs, StoreParts
  <2>5. FileKey = k
    BY <1>7, <2>1, <2>4 DEF FileKey
  <2>6. A!TypeOK
    BY <1>1, <1>3, <1>4, <1>7, <2>4, StoreAssumption DEF A!TypeOK, Calling
  <2> QED BY <1>1, <1>3, <1>5, <1>7, <2>4, <2>5, <2>6
          DEF ApiInv, ApiTyped, ApiTrue, FileIsWhole, MemoryIsCurrent, SavedIsHeld
<1> QED BY <1>6, <1>7 DEF A!Init

\* What the history says of the state after a step.
LEMMA NoteTells ==
  ASSUME ApiInv, A!Noted
  PROVE  /\ mixed' \subseteq Caller /\ orderly' \in BOOLEAN /\ MixedBusy'
         /\ \A d \in Caller : call'[d] # A!Idle /\ d \in mixed => d \in mixed'
         /\ \A c, d \in Caller : c # d /\ call'[c] # A!Idle /\ call'[d] # A!Idle => c \in mixed'
         /\ orderly' => ApiTrue /\ ~A!Crossed' /\ ~A!Untold' /\ (storeFile # None => storeFile' # None)
<1>1. mixed' = {c \in Caller : A!Busy(c)' /\ (c \in mixed \/ \E d \in Caller \ {c} : A!Busy(d)')}
  BY DEF A!Noted
<1>2. orderly' = (orderly /\ ~A!Crossed' /\ ~A!Untold' /\ (storeFile # None => storeFile' # None))
  BY DEF A!Noted
<1>3. \A d \in Caller : A!Busy(d)' <=> call'[d] # A!Idle
  BY DEF A!Busy
<1>4. MixedBusy'
  BY <1>1, <1>3 DEF MixedBusy
<1>5. orderly' \in BOOLEAN
  BY <1>2, Zenon
<1>6. orderly' => ApiTrue /\ ~A!Crossed' /\ ~A!Untold' /\ (storeFile # None => storeFile' # None)
  BY <1>2, Zenon DEF ApiInv
<1> QED BY <1>1, <1>3, <1>4, <1>5, <1>6

\* A call that does not go on stays sound, where what it has found out stays true.
LEMMA SoundKept ==
  ASSUME NEW d \in Caller, Sound(call[d], d \in mixed), call'[d] = call[d], d \in mixed => d \in mixed',
         \/ storeFile' = storeFile /\ right' = right
         \/ /\ call[d].op \notin {"init", "change"} /\ d \in mixed' /\ storeFile' # None /\ FileKey' = FileKey,
         \A p \in Provider : Firm(p)' => Firm(p) /\ Plain(storeFile, p)' = Plain(storeFile, p)
  PROVE  Sound(call[d], d \in mixed)'
<1> DEFINE r == call[d]
<1>1. r' = r
  OBVIOUS
<1>2. FileKey' = FileKey
  BY DEF FileKey
<1>3. ASSUME NEW copy, SamePlain(copy) PROVE SamePlain(copy)'
  BY <1>3 DEF SamePlain, Plain
<1>4. SamePlain(r.copy) => SamePlain(r.copy)'
  <2>1. PICK copy : copy = r.copy
    OBVIOUS
  <2> QED BY <1>1, <1>3, <2>1 DEF SamePlain, Plain
<1>5. Like(r.copy) => Like(r.copy)'
  BY <1>1, <1>2, <1>4 DEF Like, UnderKey
<1>6. r.op = "init" => InitSound(r)'
  BY <1>1, <1>2 DEF Sound, InitSound
<1>7. r.op = "change" => ChangeSound(r)'
  BY <1>1, <1>2, <1>4 DEF Sound, ChangeSound, UnderKey
<1>8. r.at = "derive" => storeFile' # None /\ Like(r.copy)'
  BY <1>5 DEF Sound
<1>9. r.op \in {"save", "delete"} => WriteSound(r, d \in mixed)'
  BY <1>1, <1>2, <1>5 DEF Sound, WriteSound, NewEntry
<1> QED BY <1>1, <1>6, <1>7, <1>8, <1>9 DEF Sound

\* A step of one call: what it takes for the invariant to be kept.
LEMMA CallSteps ==
  ASSUME ApiInv, A!Noted, NEW c \in Caller, NEW r \in Calling, A!Go(c, r), Shape(r),
         storeFile' \in A!Store \cup {None}, right' \in Pass \cup {None},
         derived' \in A!PassKey \cup {None}, salt' \in A!Salt \cup {None}, derived' # None => salt' \in A!Salt,
         keys' \in A!Contents(ApiValue) \cup {None}, salts' \in 0..MaxSalts,
         saved' \in A!Contents(ApiValue), doubt' \subseteq Provider,
         ApiTrue /\ orderly' =>
           /\ \/ \A d \in Caller \ {c} : call[d] = A!Idle
              \/ /\ \A p \in Provider : Firm(p)' => Firm(p) /\ Plain(storeFile, p)' = Plain(storeFile, p)
                 /\ \/ storeFile' = storeFile /\ right' = right
                    \/ r.op \in {"save", "delete"} /\ storeFile' # None /\ FileKey' = FileKey
           /\ FileIsWhole' /\ MemoryIsCurrent' /\ SavedIsHeld' /\ Sound(call[c], c \in mixed)'
  PROVE  ApiInv'
<1>1. call' \in [Caller -> Calling] /\ call'[c] = r /\ \A d \in Caller \ {c} : call'[d] = call[d]
  BY CallTypes DEF A!Go, ApiInv, ApiTyped
<1>2. /\ mixed' \subseteq Caller /\ orderly' \in BOOLEAN /\ MixedBusy'
      /\ \A d \in Caller : call'[d] # A!Idle /\ d \in mixed => d \in mixed'
      /\ \A d \in Caller \ {c} : call'[c] # A!Idle /\ call'[d] # A!Idle => d \in mixed'
      /\ orderly' => ApiTrue /\ ~A!Crossed'
  BY NoteTells
<1>3. A!TypeOK'
  BY <1>1, <1>2 DEF A!TypeOK, Calling
<1>4. \A d \in Caller : Shape(call[d])'
  <2> SUFFICES ASSUME NEW d \in Caller PROVE Shape(call'[d])
    BY DEF Shape, InitShape, UnlockShape, ChangeShape, WriteShape
  <2> QED BY <1>1 DEF ApiInv, ApiTyped
<1>5. ApiTyped'
  BY <1>3, <1>4 DEF ApiTyped
<1>6. ASSUME orderly', NEW d \in Caller \ {c} PROVE Sound(call[d], d \in mixed)'
  <2>1. Sound(call[d], d \in mixed) /\ call'[d] = call[d]
    BY <1>1, <1>2, <1>6 DEF ApiTrue, CallsAreSound
  <2>2. CASE call[d] = A!Idle
    BY <2>1, <2>2, IdleType DEF Sound
  <2>3. CASE call[d] # A!Idle
    <3>1. /\ \A p \in Provider : Firm(p)' => Firm(p) /\ Plain(storeFile, p)' = Plain(storeFile, p)
          /\ \/ storeFile' = storeFile /\ right' = right
             \/ r.op \in {"save", "delete"} /\ storeFile' # None /\ FileKey' = FileKey
      BY <1>2, <1>6, <2>3
    <3>2. d \in mixed => d \in mixed'
      BY <1>2, <2>1, <2>3
    <3>3. CASE storeFile' = storeFile /\ right' = right
      BY <2>1, <3>1, <3>2, <3>3, SoundKept
    <3>4. CASE r.op \in {"save", "delete"} /\ storeFile' # None /\ FileKey' = FileKey
      <4>1. r # A!Idle
        BY <3>4, IdleType
      <4>2. d \in mixed'
        BY <1>1, <1>2, <2>1, <2>3, <4>1
      <4>3. call[d].op \notin {"init", "change"}
        BY <1>1, <1>2, <1>6, <2>1, <4>1 DEF A!Crossed, A!Busy
      <4> QED BY <2>1, <3>1, <3>4, <4>2, <4>3, SoundKept
    <3> QED BY <3>1, <3>3, <3>4
  <2> QED BY <2>2, <2>3
<1>7. ASSUME orderly' PROVE ApiTrue'
  <2>1. ~A!Crossed' /\ ~A!Untold' /\ ApiTrue
    BY <1>7, NoteTells
  <2>2. FileIsWhole' /\ MemoryIsCurrent' /\ SavedIsHeld' /\ Sound(call[c], c \in mixed)'
    BY <1>7, <2>1
  <2>3. \A d \in Caller : Sound(call[d], d \in mixed)'
    BY <1>6, <1>7, <2>2
  <2> QED BY <2>1, <2>2, <2>3 DEF ApiTrue, CallsAreSound
<1> QED BY <1>2, <1>5, <1>7 DEF ApiInv

\* What a step makes of the promises, where it is one of these: the file, the memory and
\* what is acknowledged stay as they are, and no more is promised.
LEMMA PromisesKept ==
  ASSUME ApiInv, A!Noted, orderly', NEW c \in Caller, NEW r, A!Go(c, r), call \in [Caller -> Calling],
         UNCHANGED <<storeFile, derived, keys, right, saved>>, doubt \subseteq doubt',
         call[c].provider \in doubt' \cup {None, r.provider},
         r.provider # None => r.provider = call[c].provider /\ r.value = call[c].value,
         ~(call[c].op = "change" /\ call[c].at = "renamed")
  PROVE  /\ \A p \in Provider : Firm(p)' => Firm(p) /\ Plain(storeFile, p)' = Plain(storeFile, p)
         /\ FileIsWhole' /\ MemoryIsCurrent' /\ SavedIsHeld'
<1>1. call'[c] = r /\ \A d \in Caller \ {c} : call'[d] = call[d]
  BY DEF A!Go
<1>2. ApiTrue /\ \A d \in Caller : call'[d] # A!Idle /\ d \in mixed => d \in mixed'
  BY NoteTells
<1>3. \A p \in Provider : p # None
  BY StoreAssumption
<1>4. \A p \in Provider : Firm(p)' => Firm(p)
  BY <1>1, <1>3 DEF Firm
<1>5. \A p \in Provider : Plain(storeFile, p)' = Plain(storeFile, p)
  BY DEF Plain
<1>6. FileIsWhole'
  BY <1>2 DEF ApiTrue, FileIsWhole, FileKey
<1>7. SavedIsHeld'
  BY <1>2, <1>4, <1>5 DEF ApiTrue, SavedIsHeld
<1>8. MemoryIsCurrent'
  <2>1. derived' # None => storeFile' # None /\ (derived' = FileKey' \/ \E d \in Caller : call'[d].op = "change" /\ call'[d].at = "renamed")
    BY <1>1, <1>2 DEF ApiTrue, MemoryIsCurrent, FileKey
  <2>2. keys' # None => derived' # None /\ \A p \in Provider : Firm(p)' => keys'[p] = Plain(storeFile, p)'
    BY <1>2, <1>4, <1>5 DEF ApiTrue, MemoryIsCurrent
  <2>3. ASSUME keys' # None, NEW d \in Caller, d \notin mixed', call'[d].provider # None
        PROVE  keys'[call'[d].provider] = call'[d].value
    <3>1. call'[d] # A!Idle
      BY <2>3, IdleType
    <3>2. d \notin mixed
      BY <1>2, <2>3, <3>1
    <3>3. call'[d].provider = call[d].provider /\ call'[d].value = call[d].value
      BY <1>1, <2>3
    <3> QED BY <1>2, <2>3, <3>2, <3>3 DEF ApiTrue, MemoryIsCurrent
  <2> QED BY <2>1, <2>2, <2>3 DEF MemoryIsCurrent
<1> QED BY <1>4, <1>5, <1>6, <1>7, <1>8

\* A call goes on, and has left the file and the memory alone.
LEMMA GoKeeps ==
  ASSUME ApiInv, A!Noted, NEW c \in Caller, NEW r \in Calling, A!Go(c, r), Shape(r),
         UNCHANGED <<storeFile, derived, keys, salt, right, saved, doubt>>, salts' \in 0..MaxSalts,
         r.provider = call[c].provider, r.value = call[c].value,
         ~(call[c].op = "change" /\ call[c].at = "renamed"), ApiTrue => Sound(r, c \in mixed)
  PROVE  ApiInv'
<1>1. call \in [Caller -> Calling] /\ call'[c] = r
  BY CallTypes DEF A!Go, ApiInv, ApiTyped
<1>2. /\ storeFile' \in A!Store \cup {None} /\ right' \in Pass \cup {None}
      /\ derived' \in A!PassKey \cup {None} /\ salt' \in A!Salt \cup {None} /\ (derived' # None => salt' \in A!Salt)
      /\ keys' \in A!Contents(ApiValue) \cup {None} /\ saved' \in A!Contents(ApiValue) /\ doubt' \subseteq Provider
  BY DEF ApiInv, ApiTyped, A!TypeOK
<1>3. ASSUME ApiTrue, orderly'
      PROVE  /\ \A p \in Provider : Firm(p)' => Firm(p) /\ Plain(storeFile, p)' = Plain(storeFile, p)
             /\ FileIsWhole' /\ MemoryIsCurrent' /\ SavedIsHeld'
  BY <1>1, <1>3, PromisesKept
<1>4. ASSUME ApiTrue, orderly' PROVE Sound(call[c], c \in mixed)'
  <2>1. Sound(r, c \in mixed) /\ (call'[c] # A!Idle /\ c \in mixed => c \in mixed')
    BY <1>4, NoteTells
  <2>2. CASE r = A!Idle
    BY <1>1, <2>2, IdleType DEF Sound
  <2>3. CASE r # A!Idle
    <3>1. FileKey' = FileKey /\ \A p \in Provider : Firm(p)' => Firm(p) /\ Plain(storeFile, p)' = Plain(storeFile, p)
      BY <1>3, <1>4 DEF FileKey
    <3>2. SamePlain(r.copy) => \A p \in Provider : Firm(p)' => Plain(r.copy, p) = Plain(storeFile, p)'
      BY <3>1 DEF SamePlain
    <3>3. SamePlain(r.copy) => SamePlain(call[c].copy)'
      BY <1>1, <3>2 DEF SamePlain, Plain
    <3>4. Like(r.copy) => Like(call[c].copy)'
      BY <1>1, <3>1, <3>3 DEF Like, UnderKey
    <3>5. r.op = "init" => InitSound(call[c])'
      BY <1>1, <2>1, <3>1 DEF Sound, InitSound
    <3>6. r.op = "change" => ChangeSound(call[c])'
      BY <1>1, <2>1, <3>1, <3>3 DEF Sound, ChangeSound, UnderKey
    <3>7. r.at = "derive" => storeFile' # None /\ Like(call[c].copy)'
      BY <2>1, <3>4 DEF Sound
    <3>8. r.op \in {"save", "delete"} => WriteSound(call[c], c \in mixed)'
      BY <1>1, <2>1, <2>3, <3>1, <3>4 DEF Sound, WriteSound, NewEntry
    <3> QED BY <1>1, <3>5, <3>6, <3>7, <3>8 DEF Sound
  <2> QED BY <2>2, <2>3
<1> QED BY <1>2, <1>3, <1>4, CallSteps

\* A call fails, and leaves its provider in doubt; a write that fails may lose the file.
LEMMA ThrowKeeps ==
  ASSUME ApiInv, A!Noted, NEW c \in Caller, A!Throw(c), storeFile' \in {storeFile, None}, call[c].at # "renamed"
  PROVE  ApiInv'
<1>1. /\ A!Go(c, A!Idle) /\ doubt' = doubt \cup ({call[c].provider} \ {None})
      /\ UNCHANGED <<derived, keys, salt, salts, right, saved>>
  BY DEF A!Throw, A!memory
<1>2. call \in [Caller -> Calling] /\ call'[c] = A!Idle /\ call[c].provider \in Provider \cup {None}
  BY <1>1, CallTypes, CallParts DEF A!Go, ApiInv, ApiTyped
<1>3. /\ storeFile' \in A!Store \cup {None} /\ right' \in Pass \cup {None} /\ salts' \in 0..MaxSalts
      /\ derived' \in A!PassKey \cup {None} /\ salt' \in A!Salt \cup {None} /\ (derived' # None => salt' \in A!Salt)
      /\ keys' \in A!Contents(ApiValue) \cup {None} /\ saved' \in A!Contents(ApiValue) /\ doubt' \subseteq Provider
  BY <1>1, <1>2 DEF ApiInv, ApiTyped, A!TypeOK
<1>4. Shape(A!Idle) /\ Sound(call[c], c \in mixed)'
  BY <1>2, IdleType DEF Shape, Sound
<1>5. ASSUME ApiTrue, orderly'
      PROVE  /\ storeFile' = storeFile /\ right' = right
             /\ \A p \in Provider : Firm(p)' => Firm(p) /\ Plain(storeFile, p)' = Plain(storeFile, p)
             /\ FileIsWhole' /\ MemoryIsCurrent' /\ SavedIsHeld'
  <2>1. storeFile' = storeFile
    BY <1>5, NoteTells
  <2>2. call[c].provider \in doubt' \cup {None} /\ doubt \subseteq doubt'
    BY <1>1, <1>2
  <2> QED BY <1>1, <1>2, <1>5, <2>1, <2>2, PromisesKept, IdleType
<1> QED BY <1>1, <1>3, <1>4, <1>5, CallSteps, IdleType

LEMMA FailKeepsApi ==
  ASSUME ApiInv, A!Noted, NEW c \in Caller, A!Fail(c), call[c].at # "renamed"
  PROVE  ApiInv'
BY ThrowKeeps DEF A!Fail

------------------------------------------------------------------------------
(* API keys, action by action.                                             *)

LEMMA BeginInitKeeps ==
  ASSUME ApiInv, A!Noted, NEW c \in Caller, NEW p \in Pass, A!BeginInit(c, p)
  PROVE  ApiInv'
<1>1. PICK r : r = [A!Call(c, "init", "check") EXCEPT !.pass = p]
  OBVIOUS
<1>2. /\ call[c] = A!Idle /\ A!Go(c, r) /\ "init" \in Ops
      /\ UNCHANGED <<storeFile, derived, keys, salt, salts, right, saved, doubt>>
  BY <1>1 DEF A!BeginInit, A!memory, A!history
<1>3. /\ r \in Calling /\ r.op = "init" /\ r.at = "check" /\ r.provider = None /\ r.value = None /\ r.pass = p
  BY <1>1, <1>2, IdleType DEF A!Call, A!Idle, Calling, A!Stage
<1>4. Shape(r) /\ Sound(r, c \in mixed)
  BY <1>3 DEF Shape, InitShape, Sound, InitSound
<1>5. salts' \in 0..MaxSalts
  BY <1>2 DEF ApiInv, ApiTyped, A!TypeOK
<1> QED BY <1>2, <1>3, <1>4, <1>5, GoKeeps, IdleType

LEMMA CheckInitKeeps ==
  ASSUME ApiInv, A!Noted, NEW c \in Caller, A!CheckInit(c)
  PROVE  ApiInv'
<1>1. call[c].op = "init" /\ call[c].at = "check" /\ call[c] \in Calling
  BY CallTypes DEF A!CheckInit, A!At, ApiInv, ApiTyped
<1>2. call[c].provider = None /\ call[c].pass \in Pass
  BY <1>1, IdleType DEF ApiInv, ApiTyped, Shape, InitShape, UnlockShape, ChangeShape, WriteShape
<1>3. CASE storeFile # None
  BY <1>1, <1>3, FailKeepsApi DEF A!CheckInit
<1>4. CASE storeFile = None
  <2>1. PICK k : k = [pass |-> call[c].pass, salt |-> salts + 1]
    OBVIOUS
  <2>2. PICK r : r = [call[c] EXCEPT !.at = "write", !.key = k, !.copy = A!NewStore(k)]
    OBVIOUS
  <2>3. /\ A!Go(c, r) /\ salts < MaxSalts /\ salts' = salts + 1
        /\ UNCHANGED <<storeFile, derived, keys, salt, right, saved, doubt>>
    BY <1>4, <2>1, <2>2 DEF A!CheckInit, A!memory, A!history
  <2>4. salts' \in 0..MaxSalts /\ k.salt \in A!Salt /\ k.salt = salts + 1 /\ k.pass = call[c].pass
    BY <2>1, <2>3, StoreAssumption DEF ApiInv, ApiTyped, A!TypeOK, A!Salt
  <2>5. k \in A!PassKey
    BY <1>2, <2>1, <2>4 DEF A!PassKey
  <2>6. A!NewStore(k) \in A!Store
    BY <2>5, NewStoreIs
  <2>7. /\ r \in Calling /\ r.op = "init" /\ r.at = "write" /\ r.provider = None /\ r.value = call[c].value
        /\ r.pass = call[c].pass /\ r.key = k /\ r.copy = A!NewStore(k)
    BY <1>1, <1>2, <2>2, <2>5, <2>6 DEF Calling, A!Stage
  <2>8. Shape(r) /\ Sound(r, c \in mixed)
    BY <1>2, <1>4, <2>4, <2>5, <2>6, <2>7 DEF Shape, InitShape, Sound, InitSound
  <2> QED BY <1>1, <1>2, <2>3, <2>4, <2>7, <2>8, GoKeeps
<1> QED BY <1>3, <1>4

LEMMA BeginUnlockKeeps ==
  ASSUME ApiInv, A!Noted, NEW c \in Caller, NEW p \in Pass, A!BeginUnlock(c, p)
  PROVE  ApiInv'
<1>1. PICK r : r = [A!Call(c, "unlock", "read") EXCEPT !.pass = p]
  OBVIOUS
<1>2. /\ call[c] = A!Idle /\ A!Go(c, r) /\ "unlock" \in Ops
      /\ UNCHANGED <<storeFile, derived, keys, salt, salts, right, saved, doubt>>
  BY <1>1 DEF A!BeginUnlock, A!memory, A!history
<1>3. /\ r \in Calling /\ r.op = "unlock" /\ r.at = "read" /\ r.provider = None /\ r.value = None /\ r.pass = p
  BY <1>1, <1>2, IdleType DEF A!Call, A!Idle, Calling, A!Stage
<1>4. Shape(r) /\ Sound(r, c \in mixed)
  BY <1>3 DEF Shape, UnlockShape, Sound
<1>5. salts' \in 0..MaxSalts
  BY <1>2 DEF ApiInv, ApiTyped, A!TypeOK
<1> QED BY <1>2, <1>3, <1>4, <1>5, GoKeeps, IdleType

\* What an unlocking or changing call is before it has opened the store.
LEMMA OpeningShape ==
  ASSUME ApiInv, NEW c \in Caller, call[c].op \in {"unlock", "change"}
  PROVE  /\ call[c].provider = None /\ call[c].pass \in Pass /\ (call[c].op = "change" => call[c].next \in Pass)
         /\ call[c].at \in {"derive", "write"} => call[c].copy \in A!Store
BY IdleType DEF ApiInv, ApiTyped, Shape, InitShape, UnlockShape, ChangeShape, WriteShape

LEMMA ReadToUnlockKeeps ==
  ASSUME ApiInv, A!Noted, NEW c \in Caller, A!ReadToUnlock(c)
  PROVE  ApiInv'
<1>1. call[c].op \in {"unlock", "change"} /\ call[c].at = "read" /\ call[c] \in Calling
  BY CallTypes DEF A!ReadToUnlock, A!At, ApiInv, ApiTyped
<1>2. call[c].provider = None /\ call[c].pass \in Pass /\ (call[c].op = "change" => call[c].next \in Pass)
  BY <1>1, OpeningShape
<1>3. CASE storeFile = None
  BY <1>1, <1>3, FailKeepsApi DEF A!ReadToUnlock
<1>4. CASE storeFile # None
  <2>1. PICK r : r = [call[c] EXCEPT !.at = "derive", !.copy = storeFile]
    OBVIOUS
  <2>2. A!Go(c, r) /\ UNCHANGED <<storeFile, derived, keys, salt, salts, right, saved, doubt>>
    BY <1>4, <2>1 DEF A!ReadToUnlock, A!memory, A!history
  <2>3. storeFile \in A!Store
    BY <1>4, CallTypes DEF ApiInv, ApiTyped
  <2>4. /\ r \in Calling /\ r.op = call[c].op /\ r.at = "derive" /\ r.provider = None /\ r.value = call[c].value
        /\ r.pass = call[c].pass /\ r.next = call[c].next /\ r.copy = storeFile
    BY <1>1, <1>2, <2>1, <2>3 DEF Calling, A!Stage
  <2>5. Shape(r)
    BY <1>1, <1>2, <2>3, <2>4 DEF Shape, UnlockShape, ChangeShape
  <2>6. ApiTrue => Sound(r, c \in mixed)
    BY <1>1, <1>4, <2>4 DEF ApiTrue, FileIsWhole, Sound, Like, SamePlain, ChangeSound
  <2>7. salts' \in 0..MaxSalts
    BY <2>2 DEF ApiInv, ApiTyped, A!TypeOK
  <2> QED BY <1>1, <1>2, <2>2, <2>4, <2>5, <2>6, <2>7, GoKeeps
<1> QED BY <1>3, <1>4

LEMMA DoUnlockKeeps ==
  ASSUME ApiInv, A!Noted, NEW c \in Caller, A!DoUnlock(c)
  PROVE  ApiInv'
<1>1. call[c].op \in {"unlock", "change"} /\ call[c].at = "derive" /\ call[c] \in Calling /\ call \in [Caller -> Calling]
  BY CallTypes DEF A!DoUnlock, A!At, ApiInv, ApiTyped
<1>2. PICK copy : copy = call[c].copy
  OBVIOUS
<1>3. /\ call[c].provider = None /\ call[c].pass \in Pass /\ (call[c].op = "change" => call[c].next \in Pass)
      /\ copy \in A!Store
  BY <1>1, <1>2, OpeningShape
<1>4. PICK k : k = [pass |-> call[c].pass, salt |-> copy.salt]
  OBVIOUS
<1>5. \/ A!Fail(c)
      \/ /\ A!FirstKeys(copy) = {} \/ k \in A!FirstKeys(copy)
         /\ derived' = k /\ keys' = A!Decrypted(copy, k) /\ salt' = copy.salt
         /\ IF call[c].op = "unlock" THEN A!Go(c, A!Idle)
            ELSE A!Go(c, [call[c] EXCEPT !.at = "verify", !.copy = None, !.key = k])
         /\ UNCHANGED <<storeFile, salts, right, saved, doubt>>
  BY <1>2, <1>4 DEF A!DoUnlock, A!history
<1>6. CASE A!Fail(c)
  BY <1>1, <1>6, FailKeepsApi
<1>7. ASSUME A!FirstKeys(copy) = {} \/ k \in A!FirstKeys(copy),
             derived' = k, keys' = A!Decrypted(copy, k), salt' = copy.salt,
             IF call[c].op = "unlock" THEN A!Go(c, A!Idle)
             ELSE A!Go(c, [call[c] EXCEPT !.at = "verify", !.copy = None, !.key = k]),
             UNCHANGED <<storeFile, salts, right, saved, doubt>>
      PROVE  ApiInv'
  <2>1. k \in A!PassKey /\ k # None /\ copy.salt \in A!Salt /\ k.salt = copy.salt
    BY <1>3, <1>4, StoreParts, StoreAssumption DEF A!PassKey
  <2>2. keys' \in A!Contents(ApiValue) /\ keys' # None
    <3>1. keys' = [p \in Provider |-> IF copy.entries[p] # None /\ copy.entries[p].key = k
                                      THEN copy.entries[p].value ELSE None]
      BY <1>7 DEF A!Decrypted
    <3>2. \A p \in Provider : (IF copy.entries[p] # None /\ copy.entries[p].key = k
                               THEN copy.entries[p].value ELSE None) \in ApiValue \cup {None}
      BY <1>3, StoreParts
    <3>3. keys' \in A!Contents(ApiValue)
      BY <3>1, <3>2 DEF A!Contents
    <3> QED BY <3>3, StoreAssumption
  <2>3. PICK r : r = IF call[c].op = "unlock" THEN A!Idle
                     ELSE [call[c] EXCEPT !.at = "verify", !.copy = None, !.key = k]
    OBVIOUS
  <2>4. A!Go(c, r) /\ call'[c] = r /\ \A d \in Caller \ {c} : call'[d] = call[d]
    BY <1>1, <1>7, <2>3 DEF A!Go
  <2>5. /\ r \in Calling /\ r.provider = None /\ Shape(r) /\ r.at # "derive"
        /\ r = A!Idle \/ (r.op = "change" /\ r.at = "verify")
    <3>1. CASE call[c].op = "unlock"
      BY <2>3, <3>1, IdleType DEF Shape
    <3>2. CASE call[c].op = "change"
      <4>1. /\ r \in Calling /\ r.op = "change" /\ r.at = "verify" /\ r.provider = None /\ r.next = call[c].next
            /\ r.pass = call[c].pass
        BY <1>1, <1>3, <2>1, <2>3, <3>2 DEF Calling, A!Stage
      <4> QED BY <1>3, <3>2, <4>1 DEF Shape, ChangeShape
    <3> QED BY <1>1, <3>1, <3>2
  <2>6. /\ storeFile' \in A!Store \cup {None} /\ right' \in Pass \cup {None} /\ salts' \in 0..MaxSalts
        /\ saved' \in A!Contents(ApiValue) /\ doubt' \subseteq Provider
    BY <1>7 DEF ApiInv, ApiTyped, A!TypeOK
  <2>7. ASSUME ApiTrue, orderly'
        PROVE  /\ \A p \in Provider : Firm(p)' => Firm(p) /\ Plain(storeFile, p)' = Plain(storeFile, p)
               /\ FileIsWhole' /\ MemoryIsCurrent' /\ SavedIsHeld' /\ Sound(call[c], c \in mixed)'
    <3>1. storeFile # None /\ UnderKey(copy, FileKey) /\ SamePlain(copy)
      BY <1>1, <1>2, <2>7 DEF ApiTrue, CallsAreSound, Sound, Like
    <3>2. call[c].pass = right \/ A!FirstKeys(copy) # {}
      BY <1>1, <1>2, <2>7 DEF ApiTrue, A!Untold
    <3>3. k = FileKey
      <4>1. A!FirstKeys(copy) \subseteq {FileKey} /\ FileKey.salt = copy.salt
        BY <3>1, DecryptedPlain DEF UnderKey
      <4> QED BY <1>4, <1>7, <3>2, <4>1 DEF FileKey
    <3>4. keys' = [p \in Provider |-> Plain(copy, p)]
      BY <1>7, <3>1, <3>3, DecryptedPlain
    <3>5. \A p \in Provider : Firm(p)' => Firm(p) /\ Plain(storeFile, p)' = Plain(storeFile, p)
      <4>1. \A p \in Provider : p # None
        BY StoreAssumption
      <4> QED BY <1>3, <1>7, <2>4, <4>1 DEF Firm, Plain
    <3>6. FileIsWhole' /\ SavedIsHeld' /\ FileKey' = FileKey
      BY <1>7, <2>7, <3>5 DEF ApiTrue, FileIsWhole, SavedIsHeld, FileKey
    <3>7. ASSUME NEW d \in Caller, d \notin mixed' PROVE call'[d].provider = None
      <4>1. CASE d = c
        BY <2>4, <2>5, <4>1
      <4>2. CASE d # c /\ call'[d] # A!Idle
        <5>1. d \in mixed
          BY <1>1, <2>4, <4>2, IdleType DEF ApiInv, MixedBusy, A!Busy
        <5> QED BY <3>7, <4>2, <5>1, NoteTells
      <4>3. CASE call'[d] = A!Idle
        BY <4>3, IdleType
      <4> QED BY <4>1, <4>2, <4>3
    <3>8. MemoryIsCurrent'
      <4>1. \A p \in Provider : Firm(p)' => keys'[p] = Plain(storeFile, p)'
        BY <3>1, <3>4, <3>5 DEF SamePlain
      <4> QED BY <1>7, <2>1, <3>1, <3>3, <3>6, <3>7, <4>1 DEF MemoryIsCurrent
    <3>9. Sound(call[c], c \in mixed)'
      BY <1>7, <2>4, <2>5, <3>1, IdleType DEF Sound, ChangeSound
    <3> QED BY <3>5, <3>6, <3>8, <3>9
  <2> QED BY <1>7, <2>1, <2>2, <2>4, <2>5, <2>6, <2>7, CallSteps
<1> QED BY <1>5, <1>6, <1>7

LEMMA LockKeeps ==
  ASSUME ApiInv, A!Noted, A!Lock
  PROVE  ApiInv'
<1>1. derived' = None /\ keys' = None /\ UNCHANGED <<storeFile, salt, salts, call, right, saved, doubt>>
  BY DEF A!Lock, A!history
<1>2. /\ mixed' \subseteq Caller /\ orderly' \in BOOLEAN /\ MixedBusy'
      /\ \A d \in Caller : call'[d] # A!Idle /\ d \in mixed => d \in mixed'
  BY NoteTells
<1>3. A!TypeOK'
  BY <1>1, <1>2 DEF ApiInv, ApiTyped, A!TypeOK
<1>4. ApiTyped'
  BY <1>1, <1>3 DEF ApiInv, ApiTyped, Shape, InitShape, UnlockShape, ChangeShape, WriteShape
<1>5. ASSUME orderly' PROVE ApiTrue'
  <2>1. ApiTrue /\ ~A!Crossed' /\ ~A!Untold'
    BY <1>5, NoteTells
  <2>2. FileIsWhole' /\ MemoryIsCurrent' /\ SavedIsHeld'
    BY <1>1, <2>1 DEF ApiTrue, FileIsWhole, MemoryIsCurrent, SavedIsHeld, FileKey, Firm, Plain
  <2>3. \A p \in Provider : Firm(p)' => Firm(p) /\ Plain(storeFile, p)' = Plain(storeFile, p)
    BY <1>1 DEF Firm, Plain
  <2>4. ASSUME NEW d \in Caller PROVE Sound(call[d], d \in mixed)'
    <3>1. Sound(call[d], d \in mixed) /\ call'[d] = call[d]
      BY <1>1, <2>1 DEF ApiTrue, CallsAreSound
    <3>2. CASE call[d] = A!Idle
      BY <3>1, <3>2, IdleType DEF Sound
    <3>3. CASE call[d] # A!Idle
      BY <1>1, <1>2, <2>3, <3>1, <3>3, SoundKept
    <3> QED BY <3>2, <3>3
  <2> QED BY <2>1, <2>2, <2>4 DEF ApiTrue, CallsAreSound
<1> QED BY <1>2, <1>4, <1>5 DEF ApiInv

LEMMA RelaunchKeeps ==
  ASSUME ApiInv, A!Noted, A!Relaunch
  PROVE  ApiInv'
<1>1. /\ derived' = None /\ keys' = None /\ salt' = None /\ call' = [c \in Caller |-> A!Idle]
      /\ doubt' = doubt \cup ({call[c].provider : c \in Caller} \ {None})
      /\ UNCHANGED <<storeFile, salts, right, saved>>
  BY DEF A!Relaunch
<1>2. call' \in [Caller -> Calling] /\ \A c \in Caller : call'[c] = A!Idle
  BY <1>1, IdleType
<1>3. doubt' \subseteq Provider /\ \A p \in Provider : Firm(p)' => Firm(p)
  <2>1. \A c \in Caller : call[c].provider \in Provider \cup {None}
    BY CallTypes, CallParts DEF ApiInv, ApiTyped
  <2>2. \A p \in Provider : p # None
    BY StoreAssumption
  <2> QED BY <1>1, <2>1, <2>2 DEF ApiInv, ApiTyped, A!TypeOK, Firm
<1>4. mixed' \subseteq Caller /\ orderly' \in BOOLEAN /\ MixedBusy'
  BY NoteTells
<1>5. A!TypeOK'
  BY <1>1, <1>2, <1>3, <1>4 DEF ApiInv, ApiTyped, A!TypeOK, Calling
<1>6. ApiTyped'
  BY <1>1, <1>2, <1>5, IdleType DEF ApiTyped, Shape
<1>7. ASSUME orderly' PROVE ApiTrue'
  <2>1. ApiTrue /\ ~A!Crossed' /\ ~A!Untold'
    BY <1>7, NoteTells
  <2>2. FileIsWhole' /\ MemoryIsCurrent' /\ SavedIsHeld'
    BY <1>1, <1>3, <2>1 DEF ApiTrue, FileIsWhole, MemoryIsCurrent, SavedIsHeld, FileKey, Plain
  <2>3. CallsAreSound'
    BY <1>2, IdleType DEF CallsAreSound, Sound
  <2> QED BY <2>1, <2>2, <2>3 DEF ApiTrue
<1> QED BY <1>4, <1>6, <1>7 DEF ApiInv
\* A save or a deletion begins: its provider is settled no more, and a call that met it is mixed.
LEMMA BeginWriteKeeps ==
  ASSUME ApiInv, A!Noted, NEW c \in Caller, call[c] = A!Idle, A!Unlocked, NEW p \in Provider,
         NEW r \in Calling, A!Go(c, r), r.op \in {"save", "delete"}, r.at = "read", r.provider = p,
         r.op = "save" => r.value \in ApiValue /\ r.key = derived, r.op = "delete" => r.value = None,
         keys' = [keys EXCEPT ![p] = r.value],
         UNCHANGED <<storeFile, derived, salt, salts, right, saved, doubt>>
  PROVE  ApiInv'
<1>1. call \in [Caller -> Calling] /\ call'[c] = r /\ \A d \in Caller \ {c} : call'[d] = call[d]
  BY CallTypes DEF A!Go, ApiInv, ApiTyped
<1>2. derived # None /\ keys # None /\ derived \in A!PassKey /\ r.value \in ApiValue \cup {None} /\ r # A!Idle
  BY IdleType DEF A!Unlocked, ApiInv, ApiTyped, A!TypeOK
<1>3. /\ storeFile' \in A!Store \cup {None} /\ right' \in Pass \cup {None} /\ salts' \in 0..MaxSalts
      /\ derived' \in A!PassKey \cup {None} /\ salt' \in A!Salt \cup {None} /\ (derived' # None => salt' \in A!Salt)
      /\ saved' \in A!Contents(ApiValue) /\ doubt' \subseteq Provider
  BY DEF ApiInv, ApiTyped, A!TypeOK
<1>4. keys \in [Provider -> ApiValue \cup {None}]
  BY <1>2 DEF ApiInv, ApiTyped, A!TypeOK, A!Contents
<1>5. keys' \in A!Contents(ApiValue) /\ keys'[p] = r.value /\ \A q \in Provider \ {p} : keys'[q] = keys[q]
  BY <1>2, <1>4 DEF A!Contents
<1>6. Shape(r)
  BY <1>2 DEF Shape, WriteShape
<1>7. ASSUME ApiTrue, orderly'
      PROVE  /\ \A q \in Provider : Firm(q)' => Firm(q) /\ Plain(storeFile, q)' = Plain(storeFile, q)
             /\ FileIsWhole' /\ MemoryIsCurrent' /\ SavedIsHeld' /\ Sound(call[c], c \in mixed)'
  <2>1. \A q \in Provider : q # None
    BY StoreAssumption
  <2>2. \A q \in Provider : Firm(q)' => Firm(q) /\ Plain(storeFile, q)' = Plain(storeFile, q) /\ q # p
    BY <1>1, <2>1, IdleType DEF Firm, Plain
  <2>3. FileIsWhole' /\ SavedIsHeld' /\ FileKey' = FileKey
    BY <1>7, <2>2 DEF ApiTrue, FileIsWhole, SavedIsHeld, FileKey
  <2>4. derived = FileKey /\ storeFile # None
    <3>1. ~A!Crossed'
      BY <1>7, NoteTells
    <3>2. ASSUME NEW d \in Caller, call[d].op = "change" PROVE FALSE
      <4>1. d # c /\ call'[d].op = "change"
        BY <1>1, <3>2, IdleType
      <4> QED BY <1>1, <1>2, <3>1, <4>1 DEF A!Crossed, A!Busy
    <3> QED BY <1>2, <1>7, <3>2 DEF ApiTrue, MemoryIsCurrent
  <2>5. ASSUME NEW d \in Caller, d \notin mixed', call'[d].provider # None PROVE keys'[call'[d].provider] = call'[d].value
    <3>1. d = c
      BY <1>1, <1>2, <2>5, IdleType, NoteTells
    <3> QED BY <1>1, <1>5, <3>1
  <2>6. MemoryIsCurrent'
    <3>1. \A q \in Provider : Firm(q)' => keys'[q] = Plain(storeFile, q)'
      BY <1>2, <1>5, <1>7, <2>2 DEF ApiTrue, MemoryIsCurrent
    <3> QED BY <1>2, <2>3, <2>4, <2>5, <3>1 DEF MemoryIsCurrent
  <2>7. Sound(call[c], c \in mixed)'
    BY <1>1, <2>3, <2>4 DEF Sound, WriteSound
  <2> QED BY <2>2, <2>3, <2>6, <2>7
<1> QED BY <1>3, <1>5, <1>6, <1>7, CallSteps

LEMMA BeginSaveKeeps ==
  ASSUME ApiInv, A!Noted, NEW c \in Caller, NEW p \in Provider, NEW v \in ApiValue, A!BeginSave(c, p, v)
  PROVE  ApiInv'
<1>1. PICK r : r = [A!Call(c, "save", "read") EXCEPT !.provider = p, !.value = v, !.key = derived]
  OBVIOUS
<1>2. /\ call[c] = A!Idle /\ A!Unlocked /\ A!Go(c, r) /\ "save" \in Ops /\ keys' = [keys EXCEPT ![p] = v]
      /\ UNCHANGED <<storeFile, derived, salt, salts, right, saved, doubt>>
  BY <1>1 DEF A!BeginSave, A!history
<1>3. derived \in A!PassKey \cup {None}
  BY DEF ApiInv, ApiTyped, A!TypeOK
<1>4. /\ r \in Calling /\ r.op = "save" /\ r.at = "read" /\ r.provider = p /\ r.value = v /\ r.key = derived
  BY <1>1, <1>2, <1>3, IdleType DEF A!Call, A!Idle, Calling, A!Stage
<1> QED BY <1>2, <1>4, BeginWriteKeeps

LEMMA BeginDeleteKeeps ==
  ASSUME ApiInv, A!Noted, NEW c \in Caller, NEW p \in Provider, A!BeginDelete(c, p)
  PROVE  ApiInv'
<1>1. PICK r : r = [A!Call(c, "delete", "read") EXCEPT !.provider = p]
  OBVIOUS
<1>2. /\ call[c] = A!Idle /\ A!Unlocked /\ A!Go(c, r) /\ "delete" \in Ops /\ keys' = [keys EXCEPT ![p] = None]
      /\ UNCHANGED <<storeFile, derived, salt, salts, right, saved, doubt>>
  BY <1>1 DEF A!BeginDelete, A!history
<1>3. /\ r \in Calling /\ r.op = "delete" /\ r.at = "read" /\ r.provider = p /\ r.value = None
  BY <1>1, <1>2, IdleType DEF A!Call, A!Idle, Calling, A!Stage
<1> QED BY <1>2, <1>3, BeginWriteKeeps

\* The entry that a save writes.
LEMMA WriteParts ==
  ASSUME ApiInv, NEW c \in Caller, call[c].op \in {"save", "delete"}
  PROVE  /\ WriteShape(call[c]) /\ call[c].provider \in Provider /\ call[c].value \in ApiValue \cup {None}
         /\ call[c].at = "write" => call[c].copy \in A!Store
         /\ NewEntry(call[c]) \in A!Entry \cup {None}
         /\ call[c].op = "delete" => NewEntry(call[c]) = None /\ call[c].value = None
         /\ call[c].op = "save" => NewEntry(call[c]) = [value |-> call[c].value, key |-> call[c].key]
         /\ NewEntry(call[c]) # None => NewEntry(call[c]).value = call[c].value
         /\ NewEntry(call[c]) = None => call[c].value = None
<1>1. WriteShape(call[c]) /\ (call[c].at = "write" => call[c].copy \in A!Store)
  BY IdleType DEF ApiInv, ApiTyped, Shape, InitShape, UnlockShape, ChangeShape
<1>2. call[c].op = "delete" => NewEntry(call[c]) = None
  BY DEF NewEntry
<1>3. call[c].op = "save" => NewEntry(call[c]) = [value |-> call[c].value, key |-> call[c].key]
  BY DEF NewEntry
<1>4. call[c].op = "save" => [value |-> call[c].value, key |-> call[c].key] \in A!Entry
  BY <1>1 DEF WriteShape, A!Entry
<1>5. None \notin A!Entry
  BY StoreAssumption
<1> QED BY <1>1, <1>2, <1>3, <1>4, <1>5 DEF WriteShape

LEMMA ReadToSaveKeeps ==
  ASSUME ApiInv, A!Noted, NEW c \in Caller, A!ReadToSave(c)
  PROVE  ApiInv'
<1>1. call[c].op = "save" /\ call[c].at = "read" /\ call[c] \in Calling
  BY CallTypes DEF A!ReadToSave, A!At, ApiInv, ApiTyped
<1>2. PICK p : p = call[c].provider
  OBVIOUS
<1>3. WriteShape(call[c]) /\ p \in Provider
  BY <1>1, <1>2, WriteParts
<1>4. CASE A!Fail(c)
  BY <1>1, <1>4, FailKeepsApi
<1>5. CASE ~A!Fail(c)
  <2>1. PICK e : e = [value |-> call[c].value, key |-> call[c].key]
    OBVIOUS
  <2>2. PICK copy : copy = [storeFile EXCEPT !.entries = [@ EXCEPT ![p] = e]]
    OBVIOUS
  <2>3. PICK r : r = [call[c] EXCEPT !.at = "write", !.copy = copy]
    OBVIOUS
  <2>4. A!Go(c, r) /\ storeFile # None /\ UNCHANGED <<storeFile, derived, keys, salt, salts, right, saved, doubt>>
    BY <1>2, <1>5, <2>1, <2>2, <2>3 DEF A!ReadToSave, A!memory, A!history
  <2>5. e = NewEntry(call[c]) /\ e \in A!Entry \cup {None}
    BY <1>1, <2>1, WriteParts
  <2>6. storeFile \in A!Store
    BY <2>4, CallTypes DEF ApiInv, ApiTyped
  <2>7. /\ copy \in A!Store /\ copy.salt = storeFile.salt /\ copy.verify = storeFile.verify /\ copy.entries[p] = e
        /\ \A q \in Provider \ {p} : copy.entries[q] = storeFile.entries[q]
    <3>1. [storeFile.entries EXCEPT ![p] = e] \in A!Contents(A!Entry)
      BY <1>3, <2>5, <2>6, StoreParts DEF A!Contents
    <3>2. storeFile.entries \in [Provider -> A!Entry \cup {None}]
      BY <2>6, StoreParts
    <3> QED BY <1>3, <2>2, <2>6, <3>1, <3>2 DEF A!Store
  <2>8. /\ r \in Calling /\ r.op = "save" /\ r.at = "write" /\ r.provider = p /\ r.value = call[c].value
        /\ r.key = call[c].key /\ r.copy = copy
    BY <1>1, <1>2, <2>3, <2>7 DEF Calling, A!Stage
  <2>9. NewEntry(r) = e /\ Shape(r)
    BY <1>1, <1>3, <2>1, <2>7, <2>8 DEF NewEntry, Shape, WriteShape
  <2>10. ASSUME ApiTrue PROVE Sound(r, c \in mixed)
    <3>1. call[c].key = FileKey /\ UnderKey(storeFile, FileKey)
      BY <1>1, <2>4, <2>10 DEF ApiTrue, CallsAreSound, Sound, WriteSound, FileIsWhole
    <3>2. e.key = FileKey
      BY <2>1, <3>1
    <3>3. UnderKey(copy, FileKey)
      BY <2>7, <3>1, <3>2 DEF UnderKey
    <3>4. SamePlain(copy)
      BY <1>2, <2>7 DEF SamePlain, Firm, Plain
    <3> QED BY <2>4, <2>7, <2>8, <2>9, <3>1, <3>3, <3>4 DEF Sound, WriteSound, Like
  <2>11. salts' \in 0..MaxSalts
    BY <2>4 DEF ApiInv, ApiTyped, A!TypeOK
  <2> QED BY <1>1, <1>2, <2>4, <2>8, <2>9, <2>10, <2>11, GoKeeps
<1> QED BY <1>4, <1>5

LEMMA ReadToDeleteKeeps ==
  ASSUME ApiInv, A!Noted, NEW c \in Caller, A!ReadToDelete(c)
  PROVE  ApiInv'
<1>1. call[c].op = "delete" /\ call[c].at = "read" /\ call[c] \in Calling
  BY CallTypes DEF A!ReadToDelete, A!At, ApiInv, ApiTyped
<1>2. PICK p : p = call[c].provider
  OBVIOUS
<1>3. WriteShape(call[c]) /\ p \in Provider /\ NewEntry(call[c]) = None
  BY <1>1, <1>2, WriteParts
<1>4. /\ UNCHANGED <<storeFile, derived, keys, salt, salts, right, saved, doubt>>
      /\ salts' \in 0..MaxSalts
  BY DEF A!ReadToDelete, A!memory, A!history, ApiInv, ApiTyped, A!TypeOK
<1>5. CASE storeFile # None /\ storeFile.entries[p] # None
  <2>1. PICK copy : copy = [storeFile EXCEPT !.entries = [@ EXCEPT ![p] = None]]
    OBVIOUS
  <2>2. PICK r : r = [call[c] EXCEPT !.at = "write", !.copy = copy]
    OBVIOUS
  <2>3. A!Go(c, r) /\ storeFile \in A!Store
    BY <1>2, <1>5, <2>1, <2>2, CallTypes DEF A!ReadToDelete, ApiInv, ApiTyped
  <2>4. /\ copy \in A!Store /\ copy.salt = storeFile.salt /\ copy.verify = storeFile.verify /\ copy.entries[p] = None
        /\ \A q \in Provider \ {p} : copy.entries[q] = storeFile.entries[q]
    <3>1. [storeFile.entries EXCEPT ![p] = None] \in A!Contents(A!Entry)
      BY <1>3, <2>3, StoreParts DEF A!Contents
    <3>2. storeFile.entries \in [Provider -> A!Entry \cup {None}]
      BY <2>3, StoreParts
    <3> QED BY <1>3, <2>1, <2>3, <3>1, <3>2 DEF A!Store
  <2>5. /\ r \in Calling /\ r.op = "delete" /\ r.at = "write" /\ r.provider = p /\ r.value = call[c].value
        /\ r.copy = copy
    <3>1. copy \in A!Store \cup {None}
      BY <2>4
    <3> QED BY <1>1, <1>2, <2>2, <3>1 DEF Calling, A!Stage
  <2>6. NewEntry(r) = None /\ Shape(r)
    BY <1>1, <1>3, <2>4, <2>5 DEF NewEntry, Shape, WriteShape
  <2>7. ASSUME ApiTrue PROVE Sound(r, c \in mixed)
    <3>1. UnderKey(copy, FileKey)
      BY <1>5, <2>4, <2>7 DEF ApiTrue, FileIsWhole, UnderKey
    <3>2. SamePlain(copy)
      BY <1>2, <2>4 DEF SamePlain, Firm, Plain
    <3> QED BY <1>5, <2>4, <2>5, <2>6, <3>1, <3>2 DEF Sound, WriteSound, Like
  <2> QED BY <1>1, <1>2, <1>4, <2>3, <2>5, <2>6, <2>7, GoKeeps
<1>6. CASE ~(storeFile # None /\ storeFile.entries[p] # None)
  <2>1. PICK r : r = [call[c] EXCEPT !.at = "renamed"]
    OBVIOUS
  <2>2. A!Go(c, r)
    BY <1>2, <1>6, <2>1 DEF A!ReadToDelete
  <2>3. /\ r \in Calling /\ r.op = "delete" /\ r.at = "renamed" /\ r.provider = p /\ r.value = call[c].value
    BY <1>1, <1>2, <2>1 DEF Calling, A!Stage
  <2>4. NewEntry(r) = None /\ Shape(r)
    BY <1>1, <1>3, <2>3 DEF NewEntry, Shape, WriteShape
  <2>5. ASSUME ApiTrue PROVE Sound(r, c \in mixed)
    <3>1. storeFile # None
      BY <1>1, <2>5 DEF ApiTrue, CallsAreSound, Sound, WriteSound
    <3> QED BY <1>6, <2>3, <2>4, <3>1 DEF Sound, WriteSound
  <2> QED BY <1>1, <1>2, <1>4, <2>2, <2>3, <2>4, <2>5, GoKeeps
<1> QED BY <1>5, <1>6

LEMMA BeginChangeKeeps ==
  ASSUME ApiInv, A!Noted, NEW c \in Caller, NEW old \in Pass, NEW new \in Pass, A!BeginChange(c, old, new)
  PROVE  ApiInv'
<1>1. /\ call[c] = A!Idle /\ "change" \in Ops
      /\ UNCHANGED <<storeFile, derived, keys, salt, salts, right, saved, doubt>> /\ salts' \in 0..MaxSalts
  BY DEF A!BeginChange, A!memory, A!history, ApiInv, ApiTyped, A!TypeOK
<1>2. PICK r : r = [[A!Call(c, "change", "verify") EXCEPT !.pass = old, !.next = new]
                         EXCEPT !.key = [pass |-> old, salt |-> salt]]
  OBVIOUS
<1>3. PICK s : s = [A!Call(c, "change", "read") EXCEPT !.pass = old, !.next = new]
  OBVIOUS
<1>4. (A!Unlocked /\ A!Go(c, r)) \/ (derived = None /\ A!Go(c, s))
  BY <1>2, <1>3 DEF A!BeginChange
<1>5. CASE A!Unlocked /\ A!Go(c, r)
  <2>1. derived # None
    BY <1>5 DEF A!Unlocked
  <2>2. /\ r \in Calling /\ r.op = "change" /\ r.at = "verify" /\ r.provider = None /\ r.value = None
        /\ r.pass = old /\ r.next = new
    <3>1. salt \in A!Salt
      BY <2>1 DEF ApiInv, ApiTyped
    <3>2. [pass |-> old, salt |-> salt] \in A!PassKey
      BY <3>1 DEF A!PassKey
    <3> QED BY <1>1, <1>2, <3>2, IdleType DEF A!Call, A!Idle, Calling, A!Stage
  <2>3. Shape(r) /\ (ApiTrue => Sound(r, c \in mixed))
    BY <2>1, <2>2 DEF Shape, ChangeShape, Sound, ChangeSound, ApiTrue, MemoryIsCurrent
  <2> QED BY <1>1, <1>5, <2>2, <2>3, GoKeeps, IdleType
<1>6. CASE derived = None /\ A!Go(c, s)
  <2>1. /\ s \in Calling /\ s.op = "change" /\ s.at = "read" /\ s.provider = None /\ s.value = None
        /\ s.pass = old /\ s.next = new
    BY <1>1, <1>3, IdleType DEF A!Call, A!Idle, Calling, A!Stage
  <2>2. Shape(s) /\ Sound(s, c \in mixed)
    BY <2>1 DEF Shape, ChangeShape, Sound, ChangeSound
  <2> QED BY <1>1, <1>6, <2>1, <2>2, GoKeeps, IdleType
<1> QED BY <1>4, <1>5, <1>6

LEMMA VerifyChangeKeeps ==
  ASSUME ApiInv, A!Noted, NEW c \in Caller, A!VerifyChange(c)
  PROVE  ApiInv'
<1>1. call[c].op = "change" /\ call[c].at = "verify" /\ call[c] \in Calling
  BY CallTypes DEF A!VerifyChange, A!At, ApiInv, ApiTyped
<1>2. call[c].provider = None /\ call[c].pass \in Pass /\ call[c].next \in Pass
  BY <1>1, OpeningShape
<1>3. CASE A!Fail(c)
  BY <1>1, <1>3, FailKeepsApi
<1>4. CASE ~A!Fail(c)
  <2>1. PICK r : r = [call[c] EXCEPT !.at = "encrypt"]
    OBVIOUS
  <2>2. A!Go(c, r) /\ UNCHANGED <<storeFile, derived, keys, salt, salts, right, saved, doubt>>
    BY <1>4, <2>1 DEF A!VerifyChange, A!memory, A!history
  <2>3. /\ r \in Calling /\ r.op = "change" /\ r.at = "encrypt" /\ r.provider = None /\ r.value = call[c].value
        /\ r.pass = call[c].pass /\ r.next = call[c].next
    BY <1>1, <1>2, <2>1 DEF Calling, A!Stage
  <2>4. Shape(r) /\ (ApiTrue => Sound(r, c \in mixed))
    BY <1>1, <1>2, <2>3 DEF Shape, ChangeShape, Sound, ChangeSound, ApiTrue, CallsAreSound
  <2>5. salts' \in 0..MaxSalts
    BY <2>2 DEF ApiInv, ApiTyped, A!TypeOK
  <2> QED BY <1>1, <1>2, <2>2, <2>3, <2>4, <2>5, GoKeeps
<1> QED BY <1>3, <1>4

LEMMA EncryptChangeKeeps ==
  ASSUME ApiInv, A!Noted, NEW c \in Caller, A!EncryptChange(c)
  PROVE  ApiInv'
<1>1. call[c].op = "change" /\ call[c].at = "encrypt" /\ call[c] \in Calling
  BY CallTypes DEF A!EncryptChange, A!At, ApiInv, ApiTyped
<1>2. call[c].provider = None /\ call[c].pass \in Pass /\ call[c].next \in Pass
  BY <1>1, OpeningShape
<1>3. CASE keys = None
  BY <1>1, <1>3, FailKeepsApi DEF A!EncryptChange
<1>4. CASE keys # None
  <2>1. PICK k : k = [pass |-> call[c].next, salt |-> salts + 1]
    OBVIOUS
  <2>2. PICK entries : entries = [p \in Provider |-> IF keys[p] = None THEN None ELSE [value |-> keys[p], key |-> k]]
    OBVIOUS
  <2>3. PICK copy : copy = [salt |-> k.salt, verify |-> None, entries |-> entries]
    OBVIOUS
  <2>4. PICK r : r = [call[c] EXCEPT !.at = "write", !.key = k, !.copy = copy]
    OBVIOUS
  <2>5. /\ A!Go(c, r) /\ salts < MaxSalts /\ salts' = salts + 1
        /\ UNCHANGED <<storeFile, derived, keys, salt, right, saved, doubt>>
    BY <1>4, <2>1, <2>2, <2>3, <2>4 DEF A!EncryptChange, A!memory, A!history
  <2>6. salts' \in 0..MaxSalts /\ k.salt \in A!Salt /\ k.pass = call[c].next
    BY <2>1, <2>5, StoreAssumption DEF ApiInv, ApiTyped, A!TypeOK, A!Salt
  <2>7. k \in A!PassKey
    <3>1. k = [pass |-> call[c].next, salt |-> k.salt]
      BY <2>1
    <3> QED BY <1>2, <2>6, <3>1 DEF A!PassKey
  <2>8. keys \in [Provider -> ApiValue \cup {None}]
    BY <1>4 DEF ApiInv, ApiTyped, A!TypeOK, A!Contents
  <2>9. ASSUME NEW p \in Provider
        PROVE  /\ entries[p] \in A!Entry \cup {None}
               /\ entries[p] = None <=> keys[p] = None
               /\ entries[p] # None => entries[p].key = k /\ entries[p].value = keys[p]
    <3>1. CASE keys[p] = None
      BY <2>2, <3>1
    <3>2. CASE keys[p] # None
      <4>1. entries[p] = [value |-> keys[p], key |-> k] /\ keys[p] \in ApiValue
        BY <2>2, <2>8, <3>2
      <4>2. entries[p] \in A!Entry
        BY <2>7, <4>1 DEF A!Entry
      <4>3. entries[p] # None
        BY <4>2, StoreAssumption
      <4> QED BY <3>2, <4>1, <4>2, <4>3
    <3> QED BY <3>1, <3>2
  <2>10. entries \in A!Contents(A!Entry)
    <3>1. \A p \in Provider : entries[p] \in A!Entry \cup {None}
      BY <2>9
    <3>2. entries = [p \in Provider |-> entries[p]]
      BY <2>2, Zenon
    <3>3. PICK A1 : A1 = A!Entry \cup {None}
      OBVIOUS
    <3>4. entries \in [Provider -> A1]
      BY <3>1, <3>2, <3>3, Zenon
    <3> QED BY <3>3, <3>4 DEF A!Contents
  <2>11. copy \in A!Store
    BY <2>3, <2>6, <2>10 DEF A!Store
  <2>12. copy.salt = k.salt /\ copy.verify = None /\ copy.entries = entries
    BY <2>3
  <2>13. UnderKey(copy, k)
    BY <2>9, <2>12 DEF UnderKey
  <2>14. \A p \in Provider : Plain(copy, p) = keys[p]
    BY <2>9, <2>12 DEF Plain
  <2>15. /\ r \in Calling /\ r.op = "change" /\ r.at = "write" /\ r.provider = None /\ r.value = call[c].value
         /\ r.pass = call[c].pass /\ r.next = call[c].next /\ r.key = k /\ r.copy = copy
    BY <1>1, <1>2, <2>4, <2>7, <2>11 DEF Calling, A!Stage
  <2>16. Shape(r)
    BY <1>2, <2>7, <2>11, <2>15 DEF Shape, ChangeShape
  <2>17. ASSUME ApiTrue PROVE Sound(r, c \in mixed)
    <3>1. storeFile # None
      BY <1>1, <2>17 DEF ApiTrue, CallsAreSound, Sound, ChangeSound
    <3>2. SamePlain(copy)
      BY <1>4, <2>14, <2>17 DEF ApiTrue, MemoryIsCurrent, SamePlain
    <3> QED BY <2>6, <2>13, <2>15, <3>1, <3>2 DEF Sound, ChangeSound
  <2> QED BY <1>1, <1>2, <2>5, <2>6, <2>15, <2>16, <2>17, GoKeeps
<1> QED BY <1>3, <1>4

\* What a step that is one call's makes of the calls that have met no other.
LEMMA UnmixedKept ==
  ASSUME ApiInv, A!Noted, ApiTrue, keys # None, NEW c \in Caller, NEW r \in Calling, A!Go(c, r),
         r.provider = None \/ (r.provider = call[c].provider /\ r.value = call[c].value),
         NEW d \in Caller, d \notin mixed', call'[d].provider # None
  PROVE  keys[call'[d].provider] = call'[d].value
<1>1. call'[c] = r /\ \A b \in Caller \ {c} : call'[b] = call[b]
  BY CallTypes DEF A!Go, ApiInv, ApiTyped
<1>2. d \notin mixed
  BY IdleType, NoteTells
<1>3. call'[d].provider = call[d].provider /\ call'[d].value = call[d].value
  BY <1>1
<1> QED BY <1>2, <1>3 DEF ApiTrue, MemoryIsCurrent

\* The store is replaced: by a new one, ...
LEMMA RenameInitKeeps ==
  ASSUME ApiInv, A!Noted, NEW c \in Caller, A!Rename(c), call[c].op = "init"
  PROVE  ApiInv'
<1>1. call[c].at = "write" /\ call[c] \in Calling /\ call \in [Caller -> Calling]
  BY CallTypes DEF A!Rename, ApiInv, ApiTyped
<1>2. PICK k : k = call[c].key
  OBVIOUS
<1>3. k \in A!PassKey /\ call[c].pass \in Pass /\ call[c].provider = None /\ call[c].copy \in A!Store
  BY <1>1, <1>2, IdleType DEF ApiInv, ApiTyped, Shape, InitShape, UnlockShape, ChangeShape, WriteShape
<1>4. PICK r : r = [call[c] EXCEPT !.at = "renamed", !.copy = None]
  OBVIOUS
<1>5. /\ A!Go(c, r) /\ storeFile' = call[c].copy /\ right' = call[c].pass
      /\ UNCHANGED <<derived, keys, salt, salts, saved, doubt>>
  BY <1>4 DEF A!Rename, A!memory
<1>6. /\ r \in Calling /\ r.op = "init" /\ r.at = "renamed" /\ r.provider = None /\ r.key = k /\ r.pass = call[c].pass
  BY <1>1, <1>2, <1>3, <1>4 DEF Calling, A!Stage
<1>7. call'[c] = r /\ \A d \in Caller \ {c} : call'[d] = call[d]
  BY <1>1, <1>5 DEF A!Go
<1>8. Shape(r)
  BY <1>3, <1>6 DEF Shape, InitShape
<1>9. /\ storeFile' \in A!Store \cup {None} /\ right' \in Pass \cup {None} /\ salts' \in 0..MaxSalts
      /\ derived' \in A!PassKey \cup {None} /\ salt' \in A!Salt \cup {None} /\ (derived' # None => salt' \in A!Salt)
      /\ keys' \in A!Contents(ApiValue) \cup {None} /\ saved' \in A!Contents(ApiValue) /\ doubt' \subseteq Provider
  BY <1>3, <1>5 DEF ApiInv, ApiTyped, A!TypeOK
<1>10. ASSUME ApiTrue
       PROVE  /\ \A d \in Caller \ {c} : call[d] = A!Idle
              /\ FileIsWhole' /\ MemoryIsCurrent' /\ SavedIsHeld' /\ Sound(call[c], c \in mixed)'
  <2>1. \A d \in Caller \ {c} : call[d] = A!Idle
    BY <1>10 DEF ApiTrue, A!Crossed, A!Busy
  <2>2. storeFile = None /\ k.pass = call[c].pass /\ call[c].copy = A!NewStore(k)
    BY <1>1, <1>2, <1>10 DEF ApiTrue, CallsAreSound, Sound, InitSound
  <2>3. k = [pass |-> k.pass, salt |-> k.salt]
    BY <1>3 DEF A!PassKey
  <2>4. /\ storeFile' # None /\ storeFile'.salt = k.salt /\ UnderKey(storeFile', k)
        /\ \A p \in Provider : Plain(storeFile', p) = None
    BY <1>3, <1>5, <2>2, NewStoreIs, StoreParts
  <2>5. FileKey' = k
    BY <1>5, <2>2, <2>3, <2>4 DEF FileKey
  <2>6. derived = None /\ keys = None /\ saved = A!NoContents
    BY <1>10, <2>2 DEF ApiTrue, FileIsWhole, MemoryIsCurrent
  <2>7. FileIsWhole'
    BY <1>3, <1>5, <2>4, <2>5 DEF FileIsWhole, UnderKey
  <2>8. MemoryIsCurrent'
    BY <1>5, <2>6 DEF MemoryIsCurrent
  <2>9. SavedIsHeld'
    BY <1>5, <2>4, <2>6 DEF SavedIsHeld, A!NoContents, Plain
  <2>10. Sound(call[c], c \in mixed)'
    BY <1>5, <1>6, <1>7, <2>2, <2>5 DEF Sound, InitSound
  <2> QED BY <2>1, <2>7, <2>8, <2>9, <2>10
<1> QED BY <1>5, <1>6, <1>8, <1>9, <1>10, CallSteps

\* ... by everything under a new key, ...
LEMMA RenameChangeKeeps ==
  ASSUME ApiInv, A!Noted, NEW c \in Caller, A!Rename(c), call[c].op = "change"
  PROVE  ApiInv'
<1>1. call[c].at = "write" /\ call[c] \in Calling /\ call \in [Caller -> Calling]
  BY CallTypes DEF A!Rename, ApiInv, ApiTyped
<1>2. PICK k : k = call[c].key
  OBVIOUS
<1>3. PICK copy : copy = call[c].copy
  OBVIOUS
<1>4. /\ k \in A!PassKey /\ call[c].pass \in Pass /\ call[c].next \in Pass /\ call[c].provider = None
      /\ copy \in A!Store
  BY <1>1, <1>2, <1>3, IdleType DEF ApiInv, ApiTyped, Shape, InitShape, UnlockShape, ChangeShape, WriteShape
<1>5. PICK r : r = [call[c] EXCEPT !.at = "renamed", !.copy = None]
  OBVIOUS
<1>6. /\ A!Go(c, r) /\ storeFile' = copy /\ right' = call[c].next
      /\ UNCHANGED <<derived, keys, salt, salts, saved, doubt>>
  BY <1>3, <1>5 DEF A!Rename, A!memory
<1>7. /\ r \in Calling /\ r.op = "change" /\ r.at = "renamed" /\ r.provider = None /\ r.key = k
      /\ r.pass = call[c].pass /\ r.next = call[c].next
  BY <1>1, <1>2, <1>4, <1>5 DEF Calling, A!Stage
<1>8. call'[c] = r /\ \A d \in Caller \ {c} : call'[d] = call[d]
  BY <1>1, <1>6 DEF A!Go
<1>9. Shape(r)
  BY <1>4, <1>7 DEF Shape, ChangeShape
<1>10. /\ storeFile' \in A!Store \cup {None} /\ right' \in Pass \cup {None} /\ salts' \in 0..MaxSalts
       /\ derived' \in A!PassKey \cup {None} /\ salt' \in A!Salt \cup {None} /\ (derived' # None => salt' \in A!Salt)
       /\ keys' \in A!Contents(ApiValue) \cup {None} /\ saved' \in A!Contents(ApiValue) /\ doubt' \subseteq Provider
  BY <1>4, <1>6 DEF ApiInv, ApiTyped, A!TypeOK
<1>11. ASSUME ApiTrue
       PROVE  /\ \A d \in Caller \ {c} : call[d] = A!Idle
              /\ FileIsWhole' /\ MemoryIsCurrent' /\ SavedIsHeld' /\ Sound(call[c], c \in mixed)'
  <2>1. \A d \in Caller \ {c} : call[d] = A!Idle
    BY <1>11 DEF ApiTrue, A!Crossed, A!Busy
  <2>2. storeFile # None /\ k.pass = call[c].next /\ UnderKey(copy, k) /\ SamePlain(copy)
    BY <1>1, <1>2, <1>3, <1>11 DEF ApiTrue, CallsAreSound, Sound, ChangeSound
  <2>3. k = [pass |-> k.pass, salt |-> k.salt] /\ k.salt = copy.salt /\ copy # None
    BY <1>4, <2>2, StoreParts DEF A!PassKey, UnderKey
  <2>4. FileKey' = k
    BY <1>6, <2>2, <2>3 DEF FileKey
  <2>5. \A p \in Provider : p # None
    BY StoreAssumption
  <2>6. \A p \in Provider : Firm(p)' => Firm(p) /\ Plain(storeFile', p) = Plain(storeFile, p)
    BY <1>4, <1>6, <1>8, <2>2, <2>5 DEF Firm, SamePlain
  <2>7. FileIsWhole'
    BY <1>4, <1>6, <2>2, <2>3, <2>4 DEF FileIsWhole, UnderKey
  <2>8. MemoryIsCurrent'
    <3>1. derived # None => storeFile' # None /\ \E d \in Caller : call'[d].op = "change" /\ call'[d].at = "renamed"
      BY <1>6, <1>7, <1>8, <2>3
    <3>2. keys # None => derived # None /\ \A p \in Provider : Firm(p)' => keys[p] = Plain(storeFile', p)
      BY <1>11, <2>6 DEF ApiTrue, MemoryIsCurrent
    <3>3. \A d \in Caller : call'[d].provider = None
      BY <1>7, <1>8, <2>1, IdleType
    <3> QED BY <1>6, <3>1, <3>2, <3>3 DEF MemoryIsCurrent, Plain
  <2>9. SavedIsHeld'
    BY <1>6, <1>11, <2>2, <2>6 DEF ApiTrue, SavedIsHeld, Plain
  <2>10. Sound(call[c], c \in mixed)'
    BY <1>6, <1>7, <1>8, <2>3, <2>4 DEF Sound, ChangeSound
  <2> QED BY <2>1, <2>7, <2>8, <2>9, <2>10
<1> QED BY <1>6, <1>7, <1>9, <1>10, <1>11, CallSteps

\* ... or by the same store with another entry for one provider.
LEMMA RenameWriteKeeps ==
  ASSUME ApiInv, A!Noted, NEW c \in Caller, A!Rename(c), call[c].op \in {"save", "delete"}
  PROVE  ApiInv'
<1>1. call[c].at = "write" /\ call[c] \in Calling /\ call \in [Caller -> Calling]
  BY CallTypes DEF A!Rename, ApiInv, ApiTyped
<1>2. PICK copy : copy = call[c].copy
  OBVIOUS
<1>3. WriteShape(call[c]) /\ call[c].provider \in Provider /\ copy \in A!Store /\ copy # None
  BY <1>1, <1>2, WriteParts, StoreParts
<1>4. PICK r : r = [call[c] EXCEPT !.at = "renamed", !.copy = None]
  OBVIOUS
<1>5. /\ A!Go(c, r) /\ storeFile' = copy /\ UNCHANGED <<derived, keys, salt, salts, right, saved, doubt>>
  BY <1>2, <1>4 DEF A!Rename, A!memory
<1>6. /\ r \in Calling /\ r.op = call[c].op /\ r.at = "renamed" /\ r.provider = call[c].provider
      /\ r.key = call[c].key /\ r.value = call[c].value
  BY <1>1, <1>4 DEF Calling, A!Stage
<1>7. call'[c] = r /\ (\A d \in Caller \ {c} : call'[d] = call[d]) /\ r # A!Idle
  BY <1>1, <1>5, <1>6, IdleType DEF A!Go
<1>8. Shape(r) /\ NewEntry(r) = NewEntry(call[c])
  BY <1>3, <1>6 DEF Shape, WriteShape, NewEntry
<1>9. /\ storeFile' \in A!Store \cup {None} /\ right' \in Pass \cup {None} /\ salts' \in 0..MaxSalts
      /\ derived' \in A!PassKey \cup {None} /\ salt' \in A!Salt \cup {None} /\ (derived' # None => salt' \in A!Salt)
      /\ keys' \in A!Contents(ApiValue) \cup {None} /\ saved' \in A!Contents(ApiValue) /\ doubt' \subseteq Provider
  BY <1>3, <1>5 DEF ApiInv, ApiTyped, A!TypeOK
<1>10. ASSUME ApiTrue, orderly'
       PROVE  /\ \A q \in Provider : Firm(q)' => Firm(q) /\ Plain(storeFile, q)' = Plain(storeFile, q)
              /\ storeFile' # None /\ FileKey' = FileKey
              /\ FileIsWhole' /\ MemoryIsCurrent' /\ SavedIsHeld' /\ Sound(call[c], c \in mixed)'
  <2>1. /\ storeFile # None /\ UnderKey(copy, FileKey) /\ SamePlain(copy)
        /\ c \in mixed \/ copy.entries[call[c].provider] = NewEntry(call[c])
        /\ call[c].op = "save" => call[c].key = FileKey
    BY <1>1, <1>2, <1>10 DEF ApiTrue, CallsAreSound, Sound, WriteSound, Like
  <2>2. FileKey' = FileKey
    BY <1>5, <2>1 DEF FileKey, UnderKey
  <2>3. \A q \in Provider : Firm(q)' => Firm(q)
    BY <1>5, <1>6, <1>7 DEF Firm
  <2>4. \A q \in Provider : Firm(q)' => Firm(q) /\ Plain(storeFile, q)' = Plain(storeFile, q)
    BY <1>5, <2>1, <2>3 DEF SamePlain, Plain
  <2>5. FileIsWhole'
    BY <1>3, <1>5, <1>10, <2>1, <2>2 DEF ApiTrue, FileIsWhole, UnderKey
  <2>6. SavedIsHeld'
    BY <1>5, <1>10, <2>1, <2>4 DEF ApiTrue, SavedIsHeld
  <2>7. MemoryIsCurrent'
    <3>1. /\ derived # None => storeFile' # None /\
               (derived = FileKey' \/ \E d \in Caller : call'[d].op = "change" /\ call'[d].at = "renamed")
      BY <1>3, <1>5, <1>7, <1>10, <2>2 DEF ApiTrue, MemoryIsCurrent
    <3>2. keys # None => derived # None /\ \A q \in Provider : Firm(q)' => keys[q] = Plain(storeFile, q)'
      BY <1>10, <2>4 DEF ApiTrue, MemoryIsCurrent
    <3>3. keys # None => \A d \in Caller : d \notin mixed' /\ call'[d].provider # None => keys[call'[d].provider] = call'[d].value
      BY <1>5, <1>6, <1>10, UnmixedKept
    <3> QED BY <1>5, <3>1, <3>2, <3>3 DEF MemoryIsCurrent
  <2>8. Sound(call[c], c \in mixed)'
    <3>1. c \in mixed => c \in mixed'
      BY <1>7, NoteTells
    <3>2. c \in mixed' \/ storeFile'.entries[r.provider] = NewEntry(r)
      BY <1>5, <1>6, <1>8, <2>1, <3>1
    <3> QED BY <1>3, <1>5, <1>6, <1>7, <2>1, <2>2, <3>2 DEF Sound, WriteSound, NewEntry
  <2> QED BY <1>3, <1>5, <2>2, <2>4, <2>5, <2>6, <2>7, <2>8
<1> QED BY <1>5, <1>6, <1>8, <1>9, <1>10, CallSteps

\* The call is answered: a new store is installed, ...
LEMMA ReturnInitKeeps ==
  ASSUME ApiInv, A!Noted, NEW c \in Caller, A!Return(c), call[c].op = "init"
  PROVE  ApiInv'
<1>1. call[c].at = "renamed" /\ call \in [Caller -> Calling]
  BY CallTypes DEF A!Return, ApiInv, ApiTyped
<1>2. PICK k : k = call[c].key
  OBVIOUS
<1>3. k \in A!PassKey /\ call[c].provider = None
  BY <1>1, <1>2, IdleType DEF ApiInv, ApiTyped, Shape, InitShape, UnlockShape, ChangeShape, WriteShape
<1>4. /\ A!Go(c, A!Idle) /\ derived' = k /\ keys' = A!NoContents /\ salt' = k.salt
      /\ UNCHANGED <<storeFile, salts, right, saved, doubt>>
  BY <1>2 DEF A!Return
<1>5. call'[c] = A!Idle /\ \A d \in Caller \ {c} : call'[d] = call[d]
  BY <1>1, <1>4 DEF A!Go
<1>6. k # None /\ k.salt \in A!Salt
  BY <1>3, StoreAssumption DEF A!PassKey
<1>7. A!NoContents \in A!Contents(ApiValue) /\ \A p \in Provider : A!NoContents[p] = None
  BY DEF A!NoContents, A!Contents
<1>8. /\ storeFile' \in A!Store \cup {None} /\ right' \in Pass \cup {None} /\ salts' \in 0..MaxSalts
      /\ derived' \in A!PassKey \cup {None} /\ salt' \in A!Salt \cup {None} /\ (derived' # None => salt' \in A!Salt)
      /\ keys' \in A!Contents(ApiValue) \cup {None} /\ saved' \in A!Contents(ApiValue) /\ doubt' \subseteq Provider
  BY <1>3, <1>4, <1>6, <1>7 DEF ApiInv, ApiTyped, A!TypeOK
<1>9. ASSUME ApiTrue
      PROVE  /\ \A d \in Caller \ {c} : call[d] = A!Idle
             /\ FileIsWhole' /\ MemoryIsCurrent' /\ SavedIsHeld' /\ Sound(call[c], c \in mixed)'
  <2>1. \A d \in Caller \ {c} : call[d] = A!Idle
    BY <1>1, <1>9, IdleType DEF ApiTrue, A!Crossed, A!Busy
  <2>2. storeFile = A!NewStore(k) /\ k = FileKey
    BY <1>1, <1>2, <1>9 DEF ApiTrue, CallsAreSound, Sound, InitSound
  <2>3. storeFile # None /\ \A p \in Provider : Plain(storeFile, p) = None
    BY <1>3, <2>2, NewStoreIs, StoreParts
  <2>4. FileIsWhole' /\ FileKey' = k
    BY <1>4, <1>9, <2>2 DEF ApiTrue, FileIsWhole, FileKey
  <2>5. MemoryIsCurrent'
    BY <1>4, <1>5, <1>6, <1>7, <2>1, <2>3, <2>4, IdleType DEF MemoryIsCurrent, Plain
  <2>6. \A p \in Provider : Firm(p)' => Firm(p)
    <3>1. \A p \in Provider : p # None
      BY StoreAssumption
    <3> QED BY <1>3, <1>4, <1>5, <3>1 DEF Firm
  <2>7. SavedIsHeld'
    BY <1>4, <1>9, <2>6 DEF ApiTrue, SavedIsHeld, Plain
  <2>8. Sound(call[c], c \in mixed)'
    BY <1>5, IdleType DEF Sound
  <2> QED BY <2>1, <2>4, <2>5, <2>7, <2>8
<1> QED BY <1>4, <1>8, <1>9, CallSteps, IdleType DEF Shape

\* ... the new passphrase's key is, ...
LEMMA ReturnChangeKeeps ==
  ASSUME ApiInv, A!Noted, NEW c \in Caller, A!Return(c), call[c].op = "change"
  PROVE  ApiInv'
<1>1. call[c].at = "renamed" /\ call \in [Caller -> Calling]
  BY CallTypes DEF A!Return, ApiInv, ApiTyped
<1>2. PICK k : k = call[c].key
  OBVIOUS
<1>3. k \in A!PassKey /\ call[c].provider = None
  BY <1>1, <1>2, IdleType DEF ApiInv, ApiTyped, Shape, InitShape, UnlockShape, ChangeShape, WriteShape
<1>4. /\ A!Go(c, A!Idle) /\ derived' = k /\ salt' = k.salt
      /\ UNCHANGED <<storeFile, keys, salts, right, saved, doubt>>
  BY <1>2 DEF A!Return
<1>5. call'[c] = A!Idle /\ \A d \in Caller \ {c} : call'[d] = call[d]
  BY <1>1, <1>4 DEF A!Go
<1>6. k # None /\ k.salt \in A!Salt
  BY <1>3, StoreAssumption DEF A!PassKey
<1>7. /\ storeFile' \in A!Store \cup {None} /\ right' \in Pass \cup {None} /\ salts' \in 0..MaxSalts
      /\ derived' \in A!PassKey \cup {None} /\ salt' \in A!Salt \cup {None} /\ (derived' # None => salt' \in A!Salt)
      /\ keys' \in A!Contents(ApiValue) \cup {None} /\ saved' \in A!Contents(ApiValue) /\ doubt' \subseteq Provider
  BY <1>3, <1>4, <1>6 DEF ApiInv, ApiTyped, A!TypeOK
<1>8. ASSUME ApiTrue
      PROVE  /\ \A d \in Caller \ {c} : call[d] = A!Idle
             /\ FileIsWhole' /\ MemoryIsCurrent' /\ SavedIsHeld' /\ Sound(call[c], c \in mixed)'
  <2>1. \A d \in Caller \ {c} : call[d] = A!Idle
    BY <1>1, <1>8, IdleType DEF ApiTrue, A!Crossed, A!Busy
  <2>2. storeFile # None /\ k = FileKey
    BY <1>1, <1>2, <1>8 DEF ApiTrue, CallsAreSound, Sound, ChangeSound
  <2>3. FileIsWhole' /\ FileKey' = k
    BY <1>4, <1>8, <2>2 DEF ApiTrue, FileIsWhole, FileKey
  <2>4. \A p \in Provider : Firm(p)' => Firm(p)
    <3>1. \A p \in Provider : p # None
      BY StoreAssumption
    <3> QED BY <1>3, <1>4, <1>5, <3>1 DEF Firm
  <2>5. MemoryIsCurrent'
    <3>1. keys # None => \A p \in Provider : Firm(p)' => keys[p] = Plain(storeFile, p)
      BY <1>8, <2>4 DEF ApiTrue, MemoryIsCurrent
    <3> QED BY <1>4, <1>5, <1>6, <2>1, <2>2, <2>3, <3>1, IdleType DEF MemoryIsCurrent, Plain
  <2>6. SavedIsHeld'
    BY <1>4, <1>8, <2>4 DEF ApiTrue, SavedIsHeld, Plain
  <2>7. Sound(call[c], c \in mixed)'
    BY <1>5, IdleType DEF Sound
  <2> QED BY <2>1, <2>3, <2>5, <2>6, <2>7
<1> QED BY <1>4, <1>7, <1>8, CallSteps, IdleType DEF Shape

\* ... or a save or a deletion is acknowledged: to a call that met no other, for what
\* the file and the memory hold.
LEMMA ReturnWriteKeeps ==
  ASSUME ApiInv, A!Noted, NEW c \in Caller, A!Return(c), call[c].op \in {"save", "delete"}
  PROVE  ApiInv'
<1>1. call[c].at = "renamed" /\ call[c] \in Calling /\ call \in [Caller -> Calling]
  BY CallTypes DEF A!Return, ApiInv, ApiTyped
<1>2. PICK p : p = call[c].provider
  OBVIOUS
<1>3. /\ p \in Provider /\ call[c].value \in ApiValue \cup {None}
      /\ NewEntry(call[c]) # None => NewEntry(call[c]).value = call[c].value
      /\ NewEntry(call[c]) = None => call[c].value = None
  BY <1>2, WriteParts
<1>4. /\ A!Go(c, A!Idle) /\ saved' = [saved EXCEPT ![p] = call[c].value]
      /\ c \in mixed => doubt' = doubt \cup {p}
      /\ c \notin mixed => doubt' = doubt \ {p}
      /\ UNCHANGED <<storeFile, derived, keys, salt, salts, right>>
  BY <1>2 DEF A!Return, A!memory
<1>5. call'[c] = A!Idle /\ \A d \in Caller \ {c} : call'[d] = call[d]
  BY <1>1, <1>4 DEF A!Go
<1>6. saved \in [Provider -> ApiValue \cup {None}]
  BY DEF ApiInv, ApiTyped, A!TypeOK, A!Contents
<1>7. saved' \in A!Contents(ApiValue) /\ saved'[p] = call[c].value /\ \A q \in Provider \ {p} : saved'[q] = saved[q]
  BY <1>3, <1>4, <1>6 DEF A!Contents
<1>8. /\ storeFile' \in A!Store \cup {None} /\ right' \in Pass \cup {None} /\ salts' \in 0..MaxSalts
      /\ derived' \in A!PassKey \cup {None} /\ salt' \in A!Salt \cup {None} /\ (derived' # None => salt' \in A!Salt)
      /\ keys' \in A!Contents(ApiValue) \cup {None} /\ doubt' \subseteq Provider
  BY <1>3, <1>4 DEF ApiInv, ApiTyped, A!TypeOK
<1>9. ASSUME ApiTrue, orderly'
      PROVE  /\ \/ \A d \in Caller \ {c} : call[d] = A!Idle
                \/ \A q \in Provider : Firm(q)' => Firm(q) /\ Plain(storeFile, q)' = Plain(storeFile, q)
             /\ FileIsWhole' /\ MemoryIsCurrent' /\ SavedIsHeld' /\ Sound(call[c], c \in mixed)'
  <2>1. storeFile # None /\ (c \in mixed \/ storeFile.entries[p] = NewEntry(call[c]))
    BY <1>1, <1>2, <1>9 DEF ApiTrue, CallsAreSound, Sound, WriteSound
  <2>2. c \notin mixed => Plain(storeFile, p) = call[c].value
    BY <1>3, <2>1 DEF Plain
  <2>3. \A q \in Provider \ {p} : Firm(q)' => Firm(q)
    BY <1>2, <1>4, <1>5 DEF Firm
  <2>4. c \in mixed => ~Firm(p)'
    BY <1>4 DEF Firm
  <2>5. FileIsWhole' /\ FileKey' = FileKey /\ \A q \in Provider : Plain(storeFile, q)' = Plain(storeFile, q)
    BY <1>4, <1>9, <2>1 DEF ApiTrue, FileIsWhole, FileKey, Plain
  <2>6. SavedIsHeld'
    BY <1>7, <1>9, <2>1, <2>2, <2>3, <2>4, <2>5 DEF ApiTrue, SavedIsHeld
  <2>7. MemoryIsCurrent'
    <3>1. derived # None =>
            (derived = FileKey' \/ \E d \in Caller : call'[d].op = "change" /\ call'[d].at = "renamed")
      BY <1>5, <1>9, <2>5 DEF ApiTrue, MemoryIsCurrent
    <3>2. keys # None /\ c \notin mixed => keys[p] = call[c].value
      <4>1. call[c].provider # None
        BY <1>2, <1>3, StoreAssumption
      <4> QED BY <1>2, <1>9, <4>1 DEF ApiTrue, MemoryIsCurrent
    <3>3. keys # None => derived # None /\ \A q \in Provider : Firm(q)' => keys[q] = Plain(storeFile, q)'
      BY <1>9, <2>2, <2>3, <2>4, <2>5, <3>2 DEF ApiTrue, MemoryIsCurrent
    <3>4. keys # None => \A d \in Caller : d \notin mixed' /\ call'[d].provider # None => keys[call'[d].provider] = call'[d].value
      BY <1>4, <1>9, UnmixedKept, IdleType
    <3> QED BY <1>4, <2>1, <3>1, <3>3, <3>4 DEF MemoryIsCurrent
  <2>8. Sound(call[c], c \in mixed)'
    BY <1>5, IdleType DEF Sound
  <2>9. c \notin mixed => \A d \in Caller \ {c} : call[d] = A!Idle
    BY <1>1, IdleType DEF ApiInv, MixedBusy, A!Busy
  <2> QED BY <2>3, <2>4, <2>5, <2>6, <2>7, <2>8, <2>9
<1> QED BY <1>4, <1>7, <1>8, <1>9, CallSteps, IdleType DEF Shape

\* Nothing is written or answered but by the operations that write.
LEMMA Writers ==
  ASSUME ApiInv, NEW c \in Caller, call[c].at \in {"write", "renamed"}
  PROVE  call[c].op \in {"init", "change", "save", "delete"}
BY IdleType DEF ApiInv, ApiTyped, Shape, InitShape, UnlockShape, ChangeShape, WriteShape

LEMMA ApiStep ==
  ASSUME ApiInv, [A!Next]_storeVars
  PROVE  ApiInv'
<1>1. CASE UNCHANGED storeVars
  <2>1. UNCHANGED <<storeFile, derived, keys, salt, salts, call, right, saved, doubt, mixed, orderly>>
    BY <1>1 DEF storeVars
  <2>2. ApiTyped' /\ MixedBusy'
    BY <2>1 DEF ApiInv, ApiTyped, A!TypeOK, Shape, InitShape, UnlockShape, ChangeShape, WriteShape, MixedBusy, A!Busy
  <2>3. ApiTrue => FileIsWhole' /\ MemoryIsCurrent' /\ SavedIsHeld' /\ ~A!Crossed' /\ ~A!Untold'
    BY <2>1 DEF ApiTrue, FileIsWhole, MemoryIsCurrent, SavedIsHeld, FileKey, Firm, Plain,
                A!Crossed, A!Busy, A!Untold, A!FirstKeys
  <2>4. ApiTrue => CallsAreSound'
    BY <2>1 DEF ApiTrue, CallsAreSound, Sound, InitSound, ChangeSound, WriteSound, FileKey, Like, UnderKey, SamePlain,
                Firm, Plain
  <2> QED BY <2>1, <2>2, <2>3, <2>4 DEF ApiInv, ApiTrue
<1>2. ASSUME A!Noted, NEW c \in Caller, A!Begin(c) PROVE ApiInv'
  BY <1>2, BeginInitKeeps, BeginUnlockKeeps, BeginSaveKeeps, BeginDeleteKeeps, BeginChangeKeeps DEF A!Begin
<1>3. ASSUME A!Noted, NEW c \in Caller, A!Rename(c) PROVE ApiInv'
  BY <1>3, Writers, RenameInitKeeps, RenameChangeKeeps, RenameWriteKeeps DEF A!Rename
<1>4. ASSUME A!Noted, NEW c \in Caller, A!Return(c) PROVE ApiInv'
  BY <1>4, Writers, ReturnInitKeeps, ReturnChangeKeeps, ReturnWriteKeeps DEF A!Return
<1>5. ASSUME A!Noted, NEW c \in Caller, A!WriteFails(c) PROVE ApiInv'
  BY <1>5, ThrowKeeps DEF A!WriteFails
<1>6. ASSUME A!Noted, NEW c \in Caller, A!Step(c) PROVE ApiInv'
  BY <1>3, <1>4, <1>5, <1>6, CheckInitKeeps, ReadToUnlockKeeps, DoUnlockKeeps, ReadToSaveKeeps, ReadToDeleteKeeps,
     VerifyChangeKeeps, EncryptChangeKeeps DEF A!Step
<1> QED BY <1>1, <1>2, <1>6, LockKeeps, RelaunchKeeps DEF A!Next, A!Advance

\* With the key of the file, decrypting yields what the file holds.
LEMMA ApiAcknowledged ==
  ASSUME ApiTrue
  PROVE  A!Acknowledged
<1> SUFFICES ASSUME storeFile # None, NEW p \in Provider \ (doubt \cup A!InFlight)
             PROVE  A!Decrypted(storeFile, FileKey)[p] = saved[p]
  BY DEF A!Acknowledged, FileKey
<1>1. p # None
  BY StoreAssumption
<1>2. Firm(p)
  BY <1>1 DEF A!InFlight, Firm
<1>3. Plain(storeFile, p) = saved[p]
  BY <1>2 DEF ApiTrue, SavedIsHeld
<1>4. A!Decrypted(storeFile, FileKey) = [q \in Provider |-> Plain(storeFile, q)]
  BY DecryptedPlain DEF ApiTrue, FileIsWhole
<1> QED BY <1>3, <1>4

LEMMA ApiMemory ==
  ASSUME ApiTrue
  PROVE  A!MemoryIsFile
<1> SUFFICES ASSUME A!Unlocked, storeFile # None, \A c \in Caller : call[c].op # "change",
                    NEW p \in Provider \ (doubt \cup A!InFlight)
             PROVE  A!Decrypted(storeFile, derived)[p] = keys[p]
  BY DEF A!MemoryIsFile
<1>1. p # None
  BY StoreAssumption
<1>2. Firm(p)
  BY <1>1 DEF A!InFlight, Firm
<1>3. derived = FileKey /\ keys[p] = Plain(storeFile, p)
  BY <1>2 DEF A!Unlocked, ApiTrue, MemoryIsCurrent
<1>4. A!Decrypted(storeFile, derived) = [q \in Provider |-> Plain(storeFile, q)]
  BY <1>3, DecryptedPlain DEF ApiTrue, FileIsWhole
<1> QED BY <1>3, <1>4

------------------------------------------------------------------------------
(* Budgets: any number of edits, evaluations, fetches and faults.          *)

EvalPCs == {"idle", "reading", "read", "asking", "asked", "end"}

BudgetTypeOK ==
  /\ queue \in Seq(Editor \cup {"fetch"})
  /\ eval = [pc |-> eval.pc, rules |-> eval.rules, windows |-> eval.windows, diagnostic |-> eval.diagnostic]
  /\ eval.pc \in EvalPCs
  /\ disposed \in BOOLEAN

\* The evaluation under way is at the head of the queue until it ends; one that ends
\* without a result finds the runtime disposed.
HeadIsServed ==
  /\ eval.pc # "idle" => queue # <<>>
  /\ eval.pc = "end" => disposed

\* With nothing else in the queue, the rules that were read are the file's: whoever
\* changes it asks for another evaluation in the same step.
ReadIsCurrent ==
  (eval.pc \in {"read", "asking", "asked"} /\ ~eval.diagnostic /\ Len(queue) = 1 /\ rules # Broken)
    => eval.rules = rules

\* ... and so are the published ones once nothing waits.
PublishedIsFile ==
  (queue = <<>> /\ verdicts.revision > 0 /\ ~verdicts.diagnostic /\ rules # Broken /\ ~disposed)
    => verdicts.rules = rules

\* What is published was made of the rules it is published with, and of one answer.
ResultsAreRules == verdicts.results = <<>> \/ \E w : verdicts.results = B!Results(verdicts.rules, w)

BudgetInv == BudgetTypeOK /\ HeadIsServed /\ ReadIsCurrent /\ PublishedIsFile /\ ResultsAreRules

LEMMA InitBudget == B!BudgetInit => BudgetInv
<1> SUFFICES ASSUME B!BudgetInit PROVE BudgetInv OBVIOUS
<1>1. queue = <<>> /\ eval = B!IdleEval /\ disposed = FALSE /\ verdicts.revision = 0 /\ verdicts.results = <<>>
  BY DEF B!BudgetInit
<1>2. <<>> \in Seq(Editor \cup {"fetch"})
  OBVIOUS
<1>3. BudgetTypeOK
  BY <1>1, <1>2 DEF B!IdleEval, BudgetTypeOK, EvalPCs
<1>4. HeadIsServed /\ ReadIsCurrent
  BY <1>1 DEF B!IdleEval, HeadIsServed, ReadIsCurrent
<1> QED BY <1>1, <1>3, <1>4 DEF BudgetInv, PublishedIsFile, ResultsAreRules

\* What is queued while the file, the evaluation and the results stay as they are.
LEMMA Queued ==
  ASSUME BudgetInv, UNCHANGED <<eval, verdicts, disposed>>,
         \/ queue' = queue /\ rules' = rules
         \/ \E e \in Editor \cup {"fetch"} : queue' = Append(queue, e)
  PROVE  BudgetInv'
<1>1. CASE queue' = queue /\ rules' = rules
  BY <1>1 DEF BudgetInv, BudgetTypeOK, HeadIsServed, ReadIsCurrent, PublishedIsFile, ResultsAreRules
<1>2. ASSUME NEW e \in Editor \cup {"fetch"}, queue' = Append(queue, e) PROVE BudgetInv'
  <2>1. queue \in Seq(Editor \cup {"fetch"})
    BY DEF BudgetInv, BudgetTypeOK
  <2>2. /\ queue' \in Seq(Editor \cup {"fetch"})
        /\ Len(queue') = Len(queue) + 1 /\ queue' # <<>> /\ Len(queue) \in Nat
        /\ queue # <<>> => Len(queue) > 0
    BY <1>2, <2>1
  <2>3. BudgetTypeOK' /\ HeadIsServed' /\ PublishedIsFile' /\ ResultsAreRules'
    BY <2>2 DEF BudgetInv, BudgetTypeOK, HeadIsServed, PublishedIsFile, ResultsAreRules
  <2>4. ReadIsCurrent'
    BY <2>2 DEF BudgetInv, ReadIsCurrent, HeadIsServed
  <2> QED BY <2>3, <2>4 DEF BudgetInv
<1> QED BY <1>1, <1>2

LEMMA EditKeeps ==
  ASSUME BudgetInv, B!Editing
  PROVE  BudgetInv'
<1>1. PICK e \in Editor :
        \/ \E op \in B!Operation, stale \in BOOLEAN : B!BeginEdit(e, op, stale)
        \/ B!LoadForEdit(e) \/ B!LoadedForEdit(e)
        \/ \E ok \in BOOLEAN : B!Save(e, ok)
  BY DEF B!Editing
<1>2. ASSUME NEW op, NEW stale \in BOOLEAN, B!BeginEdit(e, op, stale) PROVE BudgetInv'
  BY <1>2, Queued DEF B!BeginEdit, B!Change
<1>3. CASE B!LoadForEdit(e)
  BY <1>3, Queued DEF B!LoadForEdit, B!storeVars, B!evalVars
<1>4. CASE B!LoadedForEdit(e)
  BY <1>4, Queued DEF B!LoadedForEdit, B!Change
<1>5. ASSUME NEW ok \in BOOLEAN, B!Save(e, ok) PROVE BudgetInv'
  BY <1>5, Queued DEF B!Save
<1> QED BY <1>1, <1>2, <1>3, <1>4, <1>5

\* An evaluation goes on: it reads the file, or keeps what it has read.
LEMMA EvaluationGoesOn ==
  ASSUME BudgetInv, UNCHANGED <<queue, rules, verdicts, disposed>>, NEW pc1 \in EvalPCs \ {"idle"}, queue # <<>>,
         pc1 = "end" => disposed,
         \/ \E r, d : eval' = [eval EXCEPT !.pc = pc1, !.rules = r, !.diagnostic = d] /\ (r = rules \/ d = TRUE)
         \/ eval' = [B!IdleEval EXCEPT !.pc = pc1] /\ pc1 \notin {"read", "asking", "asked"}
         \/ /\ eval.pc \in {"read", "asking"}
            /\ \E w : eval' = [eval EXCEPT !.pc = pc1, !.windows = w]
  PROVE  BudgetInv'
<1>1. eval = [pc |-> eval.pc, rules |-> eval.rules, windows |-> eval.windows, diagnostic |-> eval.diagnostic]
  BY DEF BudgetInv, BudgetTypeOK
<1>2. /\ eval' = [pc |-> pc1, rules |-> eval'.rules, windows |-> eval'.windows, diagnostic |-> eval'.diagnostic]
      /\ eval'.pc = pc1
      /\ \/ eval'.rules = rules \/ eval'.diagnostic = TRUE \/ pc1 \notin {"read", "asking", "asked"}
         \/ eval.pc \in {"read", "asking"} /\ eval'.rules = eval.rules /\ eval'.diagnostic = eval.diagnostic
  BY <1>1 DEF B!IdleEval
<1>3. BudgetTypeOK' /\ HeadIsServed'
  BY <1>2 DEF BudgetInv, BudgetTypeOK, HeadIsServed
<1>4. ReadIsCurrent'
  BY <1>2 DEF BudgetInv, ReadIsCurrent
<1>5. PublishedIsFile' /\ ResultsAreRules'
  BY DEF BudgetInv, PublishedIsFile, ResultsAreRules
<1> QED BY <1>3, <1>4, <1>5 DEF BudgetInv

\* The head of the queue goes, with or without results.
LEMMA EndKeeps ==
  ASSUME BudgetInv, eval.pc # "idle", UNCHANGED <<rules, disposed>>,
         eval' = B!IdleEval, queue' = Tail(queue),
         \/ disposed /\ verdicts' = verdicts
         \/ /\ eval.pc = "asked"
            /\ verdicts' = [revision |-> verdicts.revision + 1, rules |-> eval.rules,
                            results |-> B!Results(eval.rules, eval.windows), diagnostic |-> eval.diagnostic]
  PROVE  BudgetInv'
<1>1. queue \in Seq(Editor \cup {"fetch"}) /\ queue # <<>>
  BY DEF BudgetInv, BudgetTypeOK, HeadIsServed
<1>2. queue' \in Seq(Editor \cup {"fetch"}) /\ (queue' = <<>> => Len(queue) = 1)
  <2>1. queue' \in Seq(Editor \cup {"fetch"}) /\ Len(queue') = Len(queue) - 1 /\ Len(queue) \in Nat
    BY <1>1
  <2>2. queue' = <<>> => Len(queue') = 0
    OBVIOUS
  <2>3. queue' = <<>> => Len(queue) = 1
    BY <2>1, <2>2
  <2> QED BY <2>1, <2>3
<1>3. BudgetTypeOK' /\ HeadIsServed' /\ ReadIsCurrent'
  BY <1>2 DEF B!IdleEval, BudgetInv, BudgetTypeOK, HeadIsServed, ReadIsCurrent, EvalPCs
<1>4. PublishedIsFile'
  BY <1>2 DEF BudgetInv, PublishedIsFile, ReadIsCurrent
<1>5. ResultsAreRules'
  <2>1. CASE verdicts' = verdicts
    BY <2>1 DEF BudgetInv, ResultsAreRules
  <2>2. CASE verdicts' # verdicts
    <3>1. verdicts'.rules = eval.rules /\ verdicts'.results = B!Results(eval.rules, eval.windows)
      BY <2>2
    <3> QED BY <3>1 DEF ResultsAreRules
  <2> QED BY <2>1, <2>2
<1> QED BY <1>3, <1>4, <1>5 DEF BudgetInv

LEMMA EvaluatingKeeps == ASSUME BudgetInv, B!Evaluating PROVE BudgetInv'
<1>0. HeadIsServed /\ BudgetTypeOK
  BY DEF BudgetInv
<1>1. CASE B!Start
  <2>1. PICK pc1 \in {"end", "reading"} : eval' = [B!IdleEval EXCEPT !.pc = pc1] /\ (pc1 = "end" => disposed)
    BY <1>1 DEF B!Start
  <2>2. queue # <<>> /\ UNCHANGED <<queue, rules, verdicts, disposed>>
    BY <1>1 DEF B!Start, B!storeVars
  <2> QED BY <2>1, <2>2, EvaluationGoesOn DEF EvalPCs
<1>2. CASE B!ReadRules
  <2>1. queue # <<>> /\ UNCHANGED <<queue, rules, verdicts, disposed>>
    BY <1>0, <1>2 DEF B!ReadRules, B!storeVars, HeadIsServed
  <2>2. PICK pc1 \in {"read", "asked"} : \E r, d :
          eval' = [eval EXCEPT !.pc = pc1, !.rules = r, !.diagnostic = d] /\ (r = rules \/ d = TRUE)
    <3>1. CASE rules = Broken
      BY <1>2, <3>1 DEF B!ReadRules
    <3>2. CASE rules # Broken
      <4>1. eval' = [eval EXCEPT !.pc = "read", !.rules = rules, !.diagnostic = eval.diagnostic]
        BY <1>0, <1>2, <3>2 DEF B!ReadRules, BudgetTypeOK
      <4> QED BY <4>1
    <3> QED BY <3>1, <3>2
  <2>3. PICK r, d : eval' = [eval EXCEPT !.pc = pc1, !.rules = r, !.diagnostic = d] /\ (r = rules \/ d = TRUE)
    BY <2>2
  <2> QED BY <2>1, <2>2, <2>3, EvaluationGoesOn DEF EvalPCs
<1>3. CASE B!RulesRead
  <2>1. eval.pc = "read" /\ UNCHANGED <<queue, rules, verdicts, disposed>> /\ queue # <<>>
    BY <1>0, <1>3 DEF B!RulesRead, HeadIsServed
  <2>2. CASE \E i \in DOMAIN eval.rules : ~B!Usable(eval.rules[i])
    <3>1. eval' = [eval EXCEPT !.pc = "asked", !.rules = verdicts.rules, !.diagnostic = TRUE]
      BY <1>3, <2>2 DEF B!RulesRead
    <3>2. PICK pc1 \in {"asked"} : \E r, d :
            eval' = [eval EXCEPT !.pc = pc1, !.rules = r, !.diagnostic = d] /\ (r = rules \/ d = TRUE)
      BY <3>1
    <3>3. PICK r, d : eval' = [eval EXCEPT !.pc = pc1, !.rules = r, !.diagnostic = d] /\ (r = rules \/ d = TRUE)
      BY <3>2
    <3> QED BY <2>1, <3>2, <3>3, EvaluationGoesOn DEF EvalPCs
  <2>3. CASE \A i \in DOMAIN eval.rules : B!Usable(eval.rules[i])
    <3>1. PICK pc1 \in {"asking", "asked"} : eval' = [eval EXCEPT !.pc = pc1]
      BY <1>3, <2>3 DEF B!RulesRead
    <3>2. eval' = [eval EXCEPT !.pc = pc1, !.windows = eval.windows]
      BY <1>0, <3>1 DEF BudgetTypeOK
    <3>3. \E w : eval' = [eval EXCEPT !.pc = pc1, !.windows = w]
      BY <3>2, Zenon
    <3> QED BY <2>1, <3>3, EvaluationGoesOn DEF EvalPCs
  <2> QED BY <2>2, <2>3
<1>4. ASSUME NEW read, B!Answered(read) PROVE BudgetInv'
  <2>1. PICK pc1 \in {"asked"} : \E w : eval' = [eval EXCEPT !.pc = pc1, !.windows = w]
    BY <1>4 DEF B!Answered
  <2>2. eval.pc = "asking" /\ UNCHANGED <<queue, rules, verdicts, disposed>>
    BY <1>4 DEF B!Answered, B!storeVars
  <2>3. queue # <<>>
    BY <1>0, <2>2 DEF HeadIsServed
  <2>4. PICK w : eval' = [eval EXCEPT !.pc = pc1, !.windows = w]
    BY <2>1
  <2> QED BY <2>1, <2>2, <2>3, <2>4, EvaluationGoesOn DEF EvalPCs
<1>5. CASE B!Publish
  BY <1>5, EndKeeps DEF B!Publish, B!EndEval, B!storeVars
<1>6. CASE B!Abandon
  BY <1>0, <1>6, EndKeeps DEF B!Abandon, B!EndEval, B!storeVars, HeadIsServed
<1> QED BY <1>1, <1>2, <1>3, <1>4, <1>5, <1>6 DEF B!Evaluating

LEMMA BudgetStep == ASSUME BudgetInv, [B!BudgetNext]_budgetVars PROVE BudgetInv'
<1>1. CASE B!Editing
  BY <1>1, EditKeeps
<1>2. CASE B!Evaluating
  BY <1>2, EvaluatingKeeps
<1>3. CASE B!Fetched
  BY <1>3, Queued DEF B!Fetched, B!storeVars
<1>4. CASE B!Dispose
  <2>1. disposed' = TRUE /\ UNCHANGED <<queue, rules, eval, verdicts>>
    BY <1>4 DEF B!Dispose, B!storeVars, B!evalVars
  <2> QED BY <2>1 DEF BudgetInv, BudgetTypeOK, HeadIsServed, ReadIsCurrent, PublishedIsFile, ResultsAreRules
<1>5. ASSUME NEW w, NEW u, B!Use(w, u) PROVE BudgetInv'
  BY <1>5, Queued DEF B!Use, B!storeVars, B!evalVars
<1>6. CASE UNCHANGED budgetVars
  BY <1>6, Queued DEF budgetVars
<1> QED BY <1>1, <1>2, <1>3, <1>4, <1>5, <1>6 DEF B!BudgetNext

\* Where a rule is certain, what is unknown belongs to the same scope however it turns
\* out: a source that could turn out to be in it is in it, or blurs it.
LEMMA SameScope ==
  ASSUME NEW rule, NEW u, B!Named(rule.scope), B!Certain(rule, u), NEW r \in B!Possible(u), NEW s \in DOMAIN u.unknown
  PROVE  B!Matches(rule.scope, r.sources[s]) <=> B!Matches(rule.scope, s)
<1>1. ~B!Blurred(rule.scope, s)
  BY DEF B!Certain
<1>2. /\ s[1] # B!Unknown => r.sources[s][1] = s[1]
      /\ s[2] # B!Unknown => r.sources[s][2] = s[2]
  BY DEF B!Possible
<1>3. CASE rule.scope[1] = "global"
  BY <1>3 DEF B!Matches
<1>4. CASE rule.scope[1] = "provider"
  BY <1>1, <1>2, <1>4 DEF B!Matches, B!Blurred, B!Named
<1>5. CASE rule.scope[1] = "model"
  BY <1>1, <1>2, <1>5 DEF B!Matches, B!Blurred, B!Named
<1> QED BY <1>3, <1>4, <1>5 DEF B!Named

\* So its verdict is the same however it turns out.
LEMMA SameVerdict ==
  ASSUME NEW rule, NEW u, B!Named(rule.scope), B!Certain(rule, u), NEW r \in B!Possible(u)
  PROVE  B!Verdict(rule, u, r) = B!Triggered(rule, u)
<1> DEFINE more == {s \in DOMAIN u.unknown : B!Matches(rule.scope, r.sources[s])}
           same == {s \in DOMAIN u.unknown : B!Matches(rule.scope, s)}
<1>1. more = same
  BY SameScope
<1>2. CASE rule.metric = "cost"
  <2>1. same = {}
    BY <1>2 DEF B!Certain
  <2>2. more = {}
    BY <1>1, <2>1
  <2> QED BY <1>2, <2>2 DEF B!Verdict, B!Triggered, B!Value, B!Cost
<1>3. CASE rule.metric # "cost"
  BY <1>1, <1>3 DEF B!Verdict, B!Triggered, B!Value, B!Tokens
<1> QED BY <1>2, <1>3

LEMMA CertainVerdicts == ASSUME BudgetInv PROVE B!VerdictIsCertain
<1> SUFFICES ASSUME NEW i \in DOMAIN verdicts.results
             PROVE  IF verdicts.results[i].status = "ok"
                    THEN /\ verdicts.results[i].of # NoUsage
                         /\ B!Named(verdicts.rules[i].scope) =>
                              \A r \in B!Possible(verdicts.results[i].of) :
                                B!Verdict(verdicts.rules[i], verdicts.results[i].of, r) = verdicts.results[i].triggered
                    ELSE ~verdicts.results[i].triggered
  BY DEF B!VerdictIsCertain
<1>1. verdicts.results # <<>>
  OBVIOUS
<1>2. PICK w : verdicts.results = B!Results(verdicts.rules, w)
  BY <1>1 DEF BudgetInv, ResultsAreRules
<1> DEFINE rule == verdicts.rules[i]
           u == w[rule.window]
<1>3. verdicts.results[i] =
        IF u = NoUsage THEN [status |-> "unknown", triggered |-> FALSE, of |-> NoUsage]
        ELSE IF ~B!Certain(rule, u) THEN [status |-> "unknown", triggered |-> FALSE, of |-> u]
        ELSE [status |-> "ok", triggered |-> B!Triggered(rule, u), of |-> u]
  BY <1>2 DEF B!Results
<1>4. CASE u = NoUsage \/ ~B!Certain(rule, u)
  <2>1. verdicts.results[i].status = "unknown" /\ verdicts.results[i].triggered = FALSE
    BY <1>3, <1>4
  <2> QED BY <2>1
<1>5. CASE u # NoUsage /\ B!Certain(rule, u)
  <2>1. /\ verdicts.results[i].status = "ok" /\ verdicts.results[i].of = u
        /\ verdicts.results[i].triggered = B!Triggered(rule, u)
    BY <1>3, <1>5
  <2> QED BY <1>5, <2>1, SameVerdict
<1> QED BY <1>4, <1>5

LEMMA BudgetsTrue == ASSUME BudgetInv PROVE B!PublishedIsCurrent /\ B!VerdictIsCertain
BY CertainVerdicts DEF BudgetInv, PublishedIsFile, B!PublishedIsCurrent

------------------------------------------------------------------------------
(* Settings: any roots, sections, files and edits.                          *)

Files == DOMAIN S!Candidates

\* The value that a candidate has for a setting it says.
ValueOf(n, s) ==
  IF S!ValidIn(S!SectionOf(n), s) THEN S!SectionOf(n)[s].v
  ELSE IF s = "formatStyle" THEN S!SectionOf(n)["toastStyle"].v ELSE Disabled[s]

\* v is what the candidates before m say of a setting: the last that says it, or the
\* default, or the empty list of providers.
SaidBefore(m, v, s) ==
  \/ \E n \in Files :
       /\ n < m /\ S!Counts(n) /\ S!Says(n, s) /\ v = ValueOf(n, s)
       /\ \A k \in Files : n < k /\ k < m /\ S!Counts(k) => ~S!Says(k, s)
  \/ /\ \A n \in Files : n < m /\ S!Counts(n) => ~S!Says(n, s)
     /\ v = IF s = "enabledProviders" /\ (\E n \in Files : n < m /\ S!Counts(n) /\ s \in DOMAIN S!SectionOf(n))
            THEN {} ELSE Defaults[s]

\* What a load has made of the candidates before m.
Follows(m, a) ==
  /\ \A s \in Settings :
       /\ SaidBefore(m, a.config[s], s)
       /\ (a.sources[s] # Nobody)
            <=> \E n \in Files : n < m /\ S!Counts(n) /\ s \in S!PatchedSettings(S!SectionOf(n))
  /\ (a.used # <<>>) <=> \E n \in Files : n < m /\ S!Counts(n)
  /\ \A n \in Files : n < m /\ S!Counts(n) =>
       \A s \in S!Issues(S!SectionOf(n)) : <<S!Candidates[n], s>> \in a.issues

Gathered(a) ==
  /\ a = [used |-> a.used, config |-> a.config, sources |-> a.sources, issues |-> a.issues]
  /\ a.used \in Seq({S!Candidates[n] : n \in Files})

LoadInv ==
  /\ candidate \in Nat
  /\ configReading \in BOOLEAN
  /\ configReading => candidate \in Files
  /\ Gathered(acc)
  /\ loadSteady /\ candidate > 0 =>
       /\ Follows(candidate, acc)
       /\ configReading => ~S!Skipped(candidate)

LEMMA FileNumbers == Files = 1..(3 * (Len(Globals) + 1)) /\ Len(S!Candidates) = 3 * (Len(Globals) + 1)
<1>1. 3 * (Len(Globals) + 1) \in Nat
  BY SettingsAssumption
<1> DEFINE K == 3 * (Len(Globals) + 1)
           F(n) == [root |-> IF n <= 3 * Len(Globals) THEN Globals[(n + 2) \div 3] ELSE Workspace,
                    kind |-> <<"plugin", "json", "jsonc">>[((n + 2) % 3) + 1]]
<1>2. S!Candidates = [n \in 1..K |-> F(n)]
  BY DEF S!Candidates
<1> HIDE DEF K, F
<1>3. DOMAIN S!Candidates = 1..K /\ Len(S!Candidates) = K
  BY <1>1, <1>2 DEF K
<1> QED BY <1>3 DEF K, Files

\* Three ways in which what is said before m goes on to m.
LEMMA SaysIt ==
  ASSUME NEW m \in Files, NEW s, S!Counts(m), S!Says(m, s)
  PROVE  SaidBefore(m + 1, ValueOf(m, s), s)
<1>1. m \in Nat /\ \A k \in Files : k \in Nat
  BY FileNumbers
<1>2. m < m + 1 /\ \A k \in Files : ~(m < k /\ k < m + 1)
  BY <1>1
<1> QED BY <1>2 DEF SaidBefore

LEMMA SaysNothing ==
  ASSUME NEW m \in Files, NEW s, NEW v, SaidBefore(m, v, s), ~(S!Counts(m) /\ S!Says(m, s)),
         s = "enabledProviders" /\ S!Counts(m) /\ s \in DOMAIN S!SectionOf(m) =>
           \E n \in Files : n < m /\ S!Counts(n) /\ s \in DOMAIN S!SectionOf(n)
  PROVE  SaidBefore(m + 1, v, s)
<1>1. \A k \in Files : k < m + 1 <=> (k < m \/ k = m)
  BY FileNumbers
<1>2. CASE \E n \in Files :
             /\ n < m /\ S!Counts(n) /\ S!Says(n, s) /\ v = ValueOf(n, s)
             /\ \A k \in Files : n < k /\ k < m /\ S!Counts(k) => ~S!Says(k, s)
  BY <1>1, <1>2 DEF SaidBefore
<1>3. CASE ~\E n \in Files :
             /\ n < m /\ S!Counts(n) /\ S!Says(n, s) /\ v = ValueOf(n, s)
             /\ \A k \in Files : n < k /\ k < m /\ S!Counts(k) => ~S!Says(k, s)
  <2>1. /\ \A n \in Files : n < m /\ S!Counts(n) => ~S!Says(n, s)
        /\ v = IF s = "enabledProviders" /\ (\E n \in Files : n < m /\ S!Counts(n) /\ s \in DOMAIN S!SectionOf(n))
               THEN {} ELSE Defaults[s]
    BY <1>3 DEF SaidBefore
  <2>2. \A n \in Files : n < m + 1 /\ S!Counts(n) => ~S!Says(n, s)
    BY <1>1, <2>1
  <2>3. s = "enabledProviders" =>
          ((\E n \in Files : n < m + 1 /\ S!Counts(n) /\ s \in DOMAIN S!SectionOf(n))
             <=> (\E n \in Files : n < m /\ S!Counts(n) /\ s \in DOMAIN S!SectionOf(n)))
    BY <1>1
  <2>4. v = IF s = "enabledProviders" /\ (\E n \in Files : n < m + 1 /\ S!Counts(n) /\ s \in DOMAIN S!SectionOf(n))
            THEN {} ELSE Defaults[s]
    BY <2>1, <2>3
  <2> QED BY <2>2, <2>4 DEF SaidBefore
<1> QED BY <1>2, <1>3

LEMMA SaysNone ==
  ASSUME NEW m \in Files, NEW s, s = "enabledProviders", S!Counts(m), ~S!Says(m, s), s \in DOMAIN S!SectionOf(m),
         ~\E n \in Files : n < m /\ S!Counts(n) /\ s \in DOMAIN S!SectionOf(n)
  PROVE  SaidBefore(m + 1, {}, s)
<1>1. \A k \in Files : k < m + 1 <=> (k < m \/ k = m)
  BY FileNumbers
<1>2. \A n : S!Says(n, s) => s \in DOMAIN S!SectionOf(n)
  BY SettingsAssumption DEF S!Says, S!ValidIn
<1>3. \A n \in Files : n < m + 1 /\ S!Counts(n) => ~S!Says(n, s)
  BY <1>1, <1>2
<1>4. \E n \in Files : n < m + 1 /\ S!Counts(n) /\ s \in DOMAIN S!SectionOf(n)
  BY <1>1
<1> QED BY <1>3, <1>4 DEF SaidBefore

\* What takes effect of a section is what it says, but for an empty list of providers.
LEMMA PatchSays ==
  ASSUME NEW m, NEW s \in Settings
  PROVE  /\ s # "enabledProviders" =>
              /\ s \in S!PatchedSettings(S!SectionOf(m)) <=> S!Says(m, s)
              /\ S!Says(m, s) => S!PatchValue(S!SectionOf(m), s) = ValueOf(m, s)
         /\ s = "enabledProviders" =>
              /\ s \in S!PatchedSettings(S!SectionOf(m)) <=> s \in DOMAIN S!SectionOf(m)
              /\ S!Says(m, s) =>
                   /\ s \in DOMAIN S!SectionOf(m) /\ ~S!InvalidEmpty(S!SectionOf(m)[s])
                   /\ S!PatchValue(S!SectionOf(m), s) = ValueOf(m, s)
              /\ s \in DOMAIN S!SectionOf(m) /\ ~S!Says(m, s) =>
                   S!InvalidEmpty(S!SectionOf(m)[s]) /\ S!PatchValue(S!SectionOf(m), s) = {}
<1> DEFINE section == S!SectionOf(m)
<1> HIDE DEF section
<1>1. CASE s = "enabledProviders"
  <2>1. S!Says(m, s) <=> (s \in DOMAIN section /\ section[s].ok /\ ~S!InvalidEmpty(section[s]))
    BY <1>1, SettingsAssumption DEF S!Says, S!ValidIn, section
  <2>2. s \in S!PatchedSettings(section) <=> s \in DOMAIN section
    BY <1>1 DEF S!PatchedSettings, S!ValidIn
  <2>3. S!PatchValue(section, s) = IF section[s].ok THEN section[s].v ELSE {}
    BY <1>1 DEF S!PatchValue
  <2>4. section[s].ok /\ S!InvalidEmpty(section[s]) => section[s].v = {}
    BY DEF S!InvalidEmpty
  <2>5. ~section[s].ok => S!InvalidEmpty(section[s])
    BY DEF S!InvalidEmpty
  <2>6. S!Says(m, s) => S!PatchValue(section, s) = ValueOf(m, s)
    BY <2>1, <2>3 DEF ValueOf, S!ValidIn, section
  <2>7. s \in DOMAIN section /\ ~S!Says(m, s) => S!InvalidEmpty(section[s]) /\ S!PatchValue(section, s) = {}
    BY <2>1, <2>3, <2>4, <2>5
  <2> QED BY <1>1, <2>1, <2>2, <2>6, <2>7 DEF section
<1>2. CASE s = "formatStyle"
  <2>1. s \notin DOMAIN Disabled
    BY <1>2, SettingsAssumption
  <2>2. S!Says(m, s) <=> S!ValidIn(section, s) \/ S!ValidIn(section, "toastStyle")
    BY <1>2, <2>1 DEF S!Says, section
  <2>3. s \in S!PatchedSettings(section) <=> S!ValidIn(section, s) \/ S!ValidIn(section, "toastStyle")
    BY <1>2, <2>1 DEF S!PatchedSettings
  <2>4. S!PatchValue(section, s) = ValueOf(m, s)
    BY <1>2 DEF S!PatchValue, ValueOf, section
  <2> QED BY <1>2, <2>2, <2>3, <2>4 DEF section
<1>3. CASE s \notin {"enabledProviders", "formatStyle"}
  <2>1. S!Says(m, s) <=> S!ValidIn(section, s) \/ (s \in DOMAIN section /\ s \in DOMAIN Disabled)
    BY <1>3 DEF S!Says, section
  <2>2. s \in S!PatchedSettings(section) <=> S!ValidIn(section, s) \/ (s \in DOMAIN section /\ s \in DOMAIN Disabled)
    BY <1>3 DEF S!PatchedSettings
  <2>3. s \in DOMAIN section => S!PatchValue(section, s) = ValueOf(m, s)
    BY <1>3 DEF S!PatchValue, ValueOf, S!ValidIn, section
  <2> QED BY <1>3, <2>1, <2>2, <2>3 DEF section, S!ValidIn
<1> QED BY <1>1, <1>2, <1>3

\* A section that is read applies to what was gathered as the properties expect.
LEMMA AppliesWell ==
  ASSUME NEW m \in Files, NEW a, Gathered(a), Follows(m, a), S!Counts(m),
         S!IsConfig(S!Content(m)), S!Content(m).section # NoSection
  PROVE  Follows(m + 1, S!Applied(a, S!Content(m).section, S!Candidates[m]))
<1> DEFINE section == S!SectionOf(m)
           c == S!Candidates[m]
           kept(s) == s = "enabledProviders" /\ S!InvalidEmpty(section[s]) /\ a.sources[s] # Nobody
           taken == {s \in S!PatchedSettings(section) : ~kept(s)}
           a1 == S!Applied(a, section, c)
<1>1. section = S!Content(m).section
  BY DEF S!SectionOf
<1>2. /\ a1.used = Append(a.used, c)
      /\ \A s \in Settings : a1.config[s] = IF s \in taken THEN S!PatchValue(section, s) ELSE a.config[s]
      /\ \A s \in Settings : a1.sources[s] = IF s \in taken THEN c ELSE a.sources[s]
      /\ a1.issues = a.issues \cup {<<c, s>> : s \in S!Issues(section)}
  BY DEF S!Applied
<1>3. c # Nobody
  BY SettingsAssumption DEF Files
<1>4. \A k \in Files : k < m + 1 <=> (k < m \/ k = m)
  BY FileNumbers
<1>5. \A s \in Settings : s \in S!PatchedSettings(section) => (a1.sources[s] # Nobody)
  BY <1>2, <1>3
<1>6. \A s \in Settings : s \notin S!PatchedSettings(section) => a1.sources[s] = a.sources[s]
  BY <1>2
<1>7. ASSUME NEW s \in Settings
      PROVE  /\ SaidBefore(m + 1, a1.config[s], s)
             /\ (a1.sources[s] # Nobody)
                  <=> \E n \in Files : n < m + 1 /\ S!Counts(n) /\ s \in S!PatchedSettings(S!SectionOf(n))
  <2>1. /\ SaidBefore(m, a.config[s], s)
        /\ (a.sources[s] # Nobody)
             <=> \E n \in Files : n < m /\ S!Counts(n) /\ s \in S!PatchedSettings(S!SectionOf(n))
    BY <1>7 DEF Follows
  <2>2. (a1.sources[s] # Nobody)
          <=> \E n \in Files : n < m + 1 /\ S!Counts(n) /\ s \in S!PatchedSettings(S!SectionOf(n))
    BY <1>4, <1>5, <1>6, <2>1
  <2>3. SaidBefore(m + 1, a1.config[s], s)
    <3> HIDE DEF section, c, kept, taken, a1
    <3>1. CASE S!Says(m, s)
      <4>1. s \in S!PatchedSettings(section) /\ S!PatchValue(section, s) = ValueOf(m, s)
        BY <1>7, <3>1, PatchSays DEF section
      <4>2. ~kept(s)
        BY <1>7, <3>1, PatchSays DEF section, kept
      <4>3. a1.config[s] = ValueOf(m, s)
        BY <1>2, <4>1, <4>2 DEF taken
      <4> QED BY <3>1, <4>3, SaysIt
    <3>2. CASE ~S!Says(m, s) /\ s # "enabledProviders"
      <4>1. s \notin S!PatchedSettings(section)
        BY <1>7, <3>2, PatchSays DEF section
      <4>2. a1.config[s] = a.config[s]
        BY <1>2, <4>1 DEF taken
      <4> QED BY <2>1, <3>2, <4>2, SaysNothing
    <3>3. CASE ~S!Says(m, s) /\ s = "enabledProviders"
      <4>1. \A n : s \in S!PatchedSettings(S!SectionOf(n)) <=> s \in DOMAIN S!SectionOf(n)
        BY <1>7, <3>3, PatchSays
      <4>2. CASE s \notin DOMAIN section
        <5>1. a1.config[s] = a.config[s]
          BY <1>2, <4>1, <4>2 DEF taken, section
        <5> QED BY <2>1, <3>3, <4>2, <5>1, SaysNothing DEF section
      <4>3. CASE s \in DOMAIN section /\ a.sources[s] # Nobody
        <5>1. S!InvalidEmpty(section[s])
          BY <1>7, <3>3, <4>3, PatchSays DEF section
        <5>2. a1.config[s] = a.config[s]
          BY <1>2, <3>3, <4>3, <5>1 DEF taken, kept
        <5>3. \E n \in Files : n < m /\ S!Counts(n) /\ s \in DOMAIN S!SectionOf(n)
          BY <2>1, <4>1, <4>3
        <5> QED BY <2>1, <3>3, <5>2, <5>3, SaysNothing
      <4>4. CASE s \in DOMAIN section /\ ~(a.sources[s] # Nobody)
        <5>1. S!PatchValue(section, s) = {}
          BY <1>7, <3>3, <4>4, PatchSays DEF section
        <5>2. a1.config[s] = {}
          BY <1>2, <4>1, <4>4, <5>1 DEF taken, kept, section
        <5>3. ~\E n \in Files : n < m /\ S!Counts(n) /\ s \in DOMAIN S!SectionOf(n)
          BY <2>1, <4>1, <4>4
        <5> QED BY <3>3, <4>4, <5>2, <5>3, SaysNone DEF section
      <4> QED BY <4>2, <4>3, <4>4
    <3> QED BY <3>1, <3>2, <3>3
  <2> QED BY <2>2, <2>3
<1>8. (a1.used # <<>>) <=> \E n \in Files : n < m + 1 /\ S!Counts(n)
  <2>1. a1.used # <<>>
    <3>1. a.used \in Seq({S!Candidates[n] : n \in Files})
      BY DEF Gathered
    <3>2. a1.used = Append(a.used, c)
      BY <1>2
    <3>3. c \in {S!Candidates[n] : n \in Files}
      OBVIOUS
    <3> HIDE DEF a1, c
    <3> QED BY <3>1, <3>2, <3>3
  <2> QED BY <1>4, <2>1
<1>9. ASSUME NEW n \in Files, n < m + 1, S!Counts(n)
      PROVE  \A s \in S!Issues(S!SectionOf(n)) : <<S!Candidates[n], s>> \in a1.issues
  <2>1. CASE n < m
    BY <1>2, <1>9, <2>1 DEF Follows
  <2>2. CASE n = m
    BY <1>2, <2>2
  <2> QED BY <1>4, <1>9, <2>1, <2>2
<1>10. Follows(m + 1, a1)
  <2> HIDE DEF a1
  <2> QED BY <1>7, <1>8, <1>9 DEF Follows
<1> QED BY <1>1, <1>10

\* A file of the plugin that cannot be read counts, and says nothing.
LEMMA CountsUnread ==
  ASSUME NEW m \in Files, NEW a, Gathered(a), NEW a1, Follows(m, a), S!Counts(m), ~S!IsConfig(S!Content(m)),
         NEW i, a1.used = Append(a.used, S!Candidates[m]), a1.issues = a.issues \cup i,
         a1.config = a.config, a1.sources = a.sources
  PROVE  Follows(m + 1, a1)
<1>1. S!SectionOf(m) = <<>> /\ DOMAIN S!SectionOf(m) = {}
  BY DEF S!SectionOf
<1>2. \A s : ~S!Says(m, s) /\ (s \in Settings => s \notin S!PatchedSettings(S!SectionOf(m)))
  BY <1>1 DEF S!Says, S!ValidIn, S!PatchedSettings
<1>3. S!Issues(S!SectionOf(m)) = {}
  BY <1>1 DEF S!Issues
<1>4. \A k \in Files : k < m + 1 <=> (k < m \/ k = m)
  BY FileNumbers
<1>5. \A s \in Settings : SaidBefore(m + 1, a1.config[s], s)
  BY <1>1, <1>2, SaysNothing DEF Follows
<1>6. \A s \in Settings : (a1.sources[s] # Nobody)
        <=> \E n \in Files : n < m + 1 /\ S!Counts(n) /\ s \in S!PatchedSettings(S!SectionOf(n))
  BY <1>2, <1>4 DEF Follows
<1>7. (a1.used # <<>>) <=> \E n \in Files : n < m + 1 /\ S!Counts(n)
  <2>1. a.used \in Seq({S!Candidates[n] : n \in Files})
    BY DEF Gathered
  <2>2. a1.used # <<>>
    BY <2>1
  <2> QED BY <1>4, <2>2
<1>8. \A n \in Files : n < m + 1 /\ S!Counts(n) =>
        \A s \in S!Issues(S!SectionOf(n)) : <<S!Candidates[n], s>> \in a1.issues
  BY <1>3, <1>4 DEF Follows
<1> QED BY <1>5, <1>6, <1>7, <1>8 DEF Follows

\* What does not count changes nothing.
LEMMA PassesOver ==
  ASSUME NEW m \in Files, NEW a, Follows(m, a), ~S!Counts(m)
  PROVE  Follows(m + 1, a)
<1>1. \A k \in Files : k < m + 1 <=> (k < m \/ k = m)
  BY FileNumbers
<1>2. \A s \in Settings : SaidBefore(m + 1, a.config[s], s)
  BY SaysNothing DEF Follows
<1> QED BY <1>1, <1>2 DEF Follows

\* While the files stay as they are, so does what they say.
LEMMA SameFiles ==
  ASSUME configs' = configs
  PROVE  /\ \A n : (S!Counts(n)' <=> S!Counts(n)) /\ (S!Skipped(n)' <=> S!Skipped(n))
         /\ \A n : S!SectionOf(n)' = S!SectionOf(n)
         /\ \A n, s : (S!Says(n, s)' <=> S!Says(n, s)) /\ ValueOf(n, s)' = ValueOf(n, s)
<1>1. \A n : S!Content(n)' = S!Content(n) /\ (S!Skipped(n)' <=> S!Skipped(n))
  BY DEF S!Content, S!Skipped
<1>2. \A n : (S!Counts(n)' <=> S!Counts(n)) /\ S!SectionOf(n)' = S!SectionOf(n)
  BY <1>1 DEF S!Counts, S!SectionOf
<1>3. \A n, s : (S!Says(n, s)' <=> S!Says(n, s)) /\ ValueOf(n, s)' = ValueOf(n, s)
  BY <1>2 DEF S!Says, ValueOf
<1> QED BY <1>1, <1>2, <1>3

LEMMA FollowsStill ==
  ASSUME configs' = configs, NEW m, NEW a, Follows(m, a), candidate' = m, acc' = a
  PROVE  Follows(candidate, acc)'
<1>1. \A s \in Settings : SaidBefore(candidate, acc.config[s], s)'
  BY SameFiles DEF Follows, SaidBefore
<1> QED BY <1>1, SameFiles DEF Follows

\* No candidate is before the first.
LEMMA FollowsBlank == Gathered(S!Blank) /\ Follows(1, S!Blank)
<1>1. \A n \in Files : ~(n < 1)
  BY FileNumbers
<1>2. /\ S!Blank.used = <<>> /\ S!Blank.config = Defaults
      /\ \A s \in Settings : S!Blank.sources[s] = Nobody
  BY DEF S!Blank
<1>3. <<>> \in Seq({S!Candidates[n] : n \in Files})
  OBVIOUS
<1>4. Gathered(S!Blank)
  BY <1>3 DEF Gathered, S!Blank
<1>5. \A s \in Settings : SaidBefore(1, S!Blank.config[s], s)
  BY <1>1, <1>2 DEF SaidBefore
<1> QED BY <1>1, <1>2, <1>4, <1>5 DEF Follows

LEMMA OneFurther ==
  ASSUME candidate \in Nat, candidate' = candidate + 1, configReading' = FALSE, Gathered(acc)',
         loadSteady' => Follows(candidate, acc)'
  PROVE  LoadInv'
<1>1. candidate' \in Nat
  OBVIOUS
<1>2. configReading' \in BOOLEAN /\ ~configReading'
  OBVIOUS
<1> QED BY <1>1, <1>2, Zenon DEF LoadInv

LEMMA ReadKeeps ==
  ASSUME LoadInv, configs' = configs, S!ReadFile
  PROVE  LoadInv'
<1> DEFINE c == S!Candidates[candidate]
           content == S!Content(candidate)
<1>1. /\ configReading /\ candidate \in Files /\ candidate \in Nat /\ Gathered(acc)
      /\ configReading' = FALSE /\ candidate' = candidate + 1 /\ loadSteady' = loadSteady
      /\ acc' = S!AppliedFile(acc, c, content)
  BY DEF LoadInv, S!ReadFile, S!Content
<1>2. c \in {S!Candidates[n] : n \in Files} /\ acc.used \in Seq({S!Candidates[n] : n \in Files})
  BY <1>1 DEF Gathered
<1>3. Append(acc.used, c) \in Seq({S!Candidates[n] : n \in Files})
  <2> HIDE DEF c
  <2> QED BY <1>2
<1>4. CASE c.kind = "plugin" /\ ~S!IsConfig(content)
  <2>1. /\ acc'.used = Append(acc.used, c) /\ acc'.issues = acc.issues \cup {<<c, "$root">>}
        /\ acc'.config = acc.config /\ acc'.sources = acc.sources
        /\ acc' = [used |-> acc'.used, config |-> acc'.config, sources |-> acc'.sources, issues |-> acc'.issues]
    BY <1>1, <1>4 DEF S!AppliedFile, Gathered
  <2>2. Gathered(acc)'
    BY <1>3, <2>1 DEF Gathered, Files
  <2>3. ASSUME loadSteady PROVE Follows(candidate, acc)'
    <3>1. Follows(candidate, acc) /\ ~S!Skipped(candidate)
      BY <1>1, <2>3, FileNumbers DEF LoadInv
    <3>2. S!Counts(candidate)
      BY <1>4, <3>1 DEF S!Counts
    <3>3. Follows(candidate + 1, acc')
      BY <1>1, <1>4, <2>1, <3>1, <3>2, CountsUnread
    <3> QED BY <1>1, <3>3, FollowsStill
  <2> QED BY <1>1, <2>2, <2>3, OneFurther
<1>5. CASE S!IsConfig(content) /\ content.section # NoSection
  <2>1. acc' = S!Applied(acc, content.section, c)
    BY <1>1, <1>5 DEF S!AppliedFile
  <2>2. Gathered(acc)'
    BY <1>3, <2>1 DEF Gathered, Files, S!Applied
  <2>3. ASSUME loadSteady PROVE Follows(candidate, acc)'
    <3>1. Follows(candidate, acc) /\ ~S!Skipped(candidate)
      BY <1>1, <2>3, FileNumbers DEF LoadInv
    <3>2. S!Counts(candidate)
      BY <1>5, <3>1 DEF S!Counts
    <3>3. Follows(candidate + 1, acc')
      BY <1>1, <1>5, <2>1, <3>1, <3>2, AppliesWell
    <3> QED BY <1>1, <3>3, FollowsStill
  <2> QED BY <1>1, <2>2, <2>3, OneFurther
<1>6. CASE ~(c.kind = "plugin" /\ ~S!IsConfig(content)) /\ ~(S!IsConfig(content) /\ content.section # NoSection)
  <2>1. acc' = acc
    BY <1>1, <1>6 DEF S!AppliedFile
  <2>2. ~S!Counts(candidate)
    BY <1>6 DEF S!Counts
  <2>3. Gathered(acc)'
    BY <1>1, <2>1 DEF Gathered, Files
  <2>4. ASSUME loadSteady PROVE Follows(candidate, acc)'
    <3>1. Follows(candidate, acc)
      BY <1>1, <2>4, FileNumbers DEF LoadInv
    <3> QED BY <1>1, <2>1, <2>2, <3>1, PassesOver, FollowsStill
  <2> QED BY <1>1, <2>3, <2>4, OneFurther
<1> QED BY <1>4, <1>5, <1>6

LEMMA LookKeeps ==
  ASSUME LoadInv, configs' = configs, S!LookAt
  PROVE  LoadInv'
<1>1. /\ candidate \in Files /\ candidate \in Nat /\ Gathered(acc) /\ ~configReading
      /\ loadSteady' = loadSteady /\ acc' = acc /\ candidate > 0
  BY FileNumbers DEF LoadInv, S!LookAt, Files
<1>2. Gathered(acc)'
  BY <1>1 DEF Gathered, Files
<1>3. CASE S!Skipped(candidate)
  <2>1. candidate' = candidate + 1 /\ configReading' = FALSE
    BY <1>1, <1>3 DEF S!LookAt, LoadInv
  <2>2. ~S!Counts(candidate)
    BY <1>3 DEF S!Counts
  <2>3. ASSUME loadSteady PROVE Follows(candidate, acc)'
    BY <1>1, <2>1, <2>2, <2>3, PassesOver, FollowsStill DEF LoadInv
  <2> QED BY <1>1, <1>2, <2>1, <2>3, OneFurther
<1>4. CASE ~S!Skipped(candidate)
  <2>1. candidate' = candidate /\ configReading' = TRUE
    BY <1>4 DEF S!LookAt
  <2>2. ~S!Skipped(candidate)'
    BY <1>4, <2>1, SameFiles DEF S!Skipped
  <2>3. ASSUME loadSteady PROVE Follows(candidate, acc)'
    BY <1>1, <2>1, <2>3, FollowsStill DEF LoadInv
  <2>4. (candidate \in Files)'
    BY <1>1, <2>1 DEF Files
  <2> QED BY <1>1, <1>2, <2>1, <2>2, <2>3, <2>4 DEF LoadInv
<1> QED BY <1>3, <1>4

LEMMA BeginKeeps ==
  ASSUME LoadInv, configs' = configs, S!LoadBegin
  PROVE  LoadInv'
<1>1. candidate' = 1 /\ acc' = S!Blank /\ configReading' = configReading /\ candidate = 0
  BY DEF S!LoadBegin
<1>2. configReading' \in BOOLEAN /\ ~configReading'
  BY <1>1, FileNumbers DEF LoadInv
<1>3. Gathered(acc)'
  BY <1>1, FollowsBlank DEF Gathered, Files
<1>4. Follows(candidate, acc)'
  BY <1>1, FollowsBlank, FollowsStill
<1>5. candidate' \in Nat
  BY <1>1
<1> QED BY <1>2, <1>3, <1>4, <1>5, Zenon DEF LoadInv

LEMMA LoadEndKeeps ==
  ASSUME LoadInv, S!LoadEnd
  PROVE  LoadInv'
<1>1. candidate' = 0 /\ acc' = acc /\ configReading' = configReading /\ candidate = 3 * (Len(Globals) + 1) + 1
  BY FileNumbers DEF S!LoadEnd
<1>2. configReading' \in BOOLEAN /\ ~configReading'
  BY <1>1, FileNumbers, SettingsAssumption DEF LoadInv
<1>3. Gathered(acc)'
  BY <1>1 DEF LoadInv, Gathered, Files
<1>4. candidate' \in Nat /\ ~(candidate' > 0)
  BY <1>1
<1> QED BY <1>2, <1>3, <1>4, Zenon DEF LoadInv

\* What is no step of a load leaves it behind, or leaves the files alone.
LEMMA LoadStands ==
  ASSUME LoadInv, UNCHANGED <<candidate, configReading, acc>>,
         loadSteady' => loadSteady /\ configs' = configs
  PROVE  LoadInv'
<1>1. candidate' \in Nat /\ configReading' \in BOOLEAN /\ (configReading' => candidate' \in Files') /\ Gathered(acc)'
  BY DEF LoadInv, Gathered, Files
<1>2. ASSUME loadSteady', candidate' > 0
      PROVE  Follows(candidate, acc)' /\ (configReading' => ~S!Skipped(candidate)')
  <2>1. loadSteady /\ configs' = configs /\ candidate > 0
    BY <1>2
  <2>2. Follows(candidate, acc) /\ (configReading => ~S!Skipped(candidate))
    BY <2>1 DEF LoadInv
  <2>3. Follows(candidate, acc)'
    BY <2>1, <2>2, FollowsStill
  <2>4. S!Skipped(candidate)' <=> S!Skipped(candidate)
    BY <2>1 DEF S!Skipped
  <2> QED BY <2>2, <2>3, <2>4
<1> QED BY <1>1, <1>2 DEF LoadInv

LEMMA LoadStep == ASSUME LoadInv, S!Proper(configs), [S!InstallerNext]_setupVars, choice.root \in S!Roots PROVE LoadInv'
<1>1. CASE S!PlanInstall \/ S!Cancel \/ S!EndInstall \/ S!WriteFails
  BY <1>1, LoadStands DEF S!PlanInstall, S!Cancel, S!EndInstall, S!WriteFails, S!fileVars, S!loadVars
<1>2. CASE S!WriteEdit
  <2>1. /\ UNCHANGED <<candidate, configReading, acc>>
        /\ configs' = [configs EXCEPT ![choice.root] = S!Written(@, Head(plan))]
        /\ loadSteady' = (loadSteady /\ ~Head(plan).changed)
    BY <1>2 DEF S!WriteEdit
  <2>2. ~Head(plan).changed => configs' = configs
    <3>1. configs = [r \in S!Roots |-> configs[r]]
      BY DEF S!Proper
    <3> QED BY <2>1, <3>1 DEF S!Written
  <2>3. loadSteady' => loadSteady /\ configs' = configs
    BY <2>1, <2>2
  <2> QED BY <2>1, <2>3, LoadStands
<1>3. CASE S!UserEdits
  BY <1>3, LoadStands DEF S!UserEdits, S!Edit
<1>4. CASE S!Loads
  BY <1>4, BeginKeeps, LookKeeps, ReadKeeps, LoadEndKeeps
     DEF S!Loads, S!Load, S!fileVars, S!LoadBegin, S!LookAt, S!ReadFile, S!LoadEnd
<1>5. CASE UNCHANGED setupVars
  BY <1>5, LoadStands DEF setupVars
<1> QED BY <1>1, <1>2, <1>3, <1>4, <1>5 DEF S!InstallerNext

LEMMA LoadExpected == ASSUME LoadInv PROVE S!LoadIsExpected
<1> SUFFICES ASSUME candidate = Len(S!Candidates) + 1, loadSteady PROVE
      /\ \A s \in Settings : acc.config[s] = S!Expected(s)
      /\ (acc.used # <<>>) <=> \E n \in Files : S!Counts(n)
      /\ \A n \in Files : S!Counts(n) => \A s \in S!Issues(S!SectionOf(n)) : <<S!Candidates[n], s>> \in acc.issues
  BY DEF S!LoadIsExpected, Files
<1>1. candidate > 0 /\ \A n \in Files : n < candidate /\ n \in Nat
  BY FileNumbers, SettingsAssumption
<1>2. Follows(candidate, acc)
  BY <1>1 DEF LoadInv
<1>3. ASSUME NEW s \in Settings PROVE acc.config[s] = S!Expected(s)
  <2> DEFINE saying == {n \in Files : S!Counts(n) /\ S!Says(n, s)}
  <2>1. SaidBefore(candidate, acc.config[s], s)
    BY <1>2 DEF Follows
  <2>2. CASE saying = {}
    <3>1. S!Expected(s) = IF s = "enabledProviders" /\ (\E n \in Files : S!Counts(n) /\ s \in DOMAIN S!SectionOf(n))
                          THEN {} ELSE Defaults[s]
      BY <2>2 DEF S!Expected, Files
    <3>2. acc.config[s] = IF s = "enabledProviders"
                             /\ (\E n \in Files : n < candidate /\ S!Counts(n) /\ s \in DOMAIN S!SectionOf(n))
                          THEN {} ELSE Defaults[s]
      BY <2>1, <2>2 DEF SaidBefore
    <3>3. (\E n \in Files : n < candidate /\ S!Counts(n) /\ s \in DOMAIN S!SectionOf(n))
            <=> (\E n \in Files : S!Counts(n) /\ s \in DOMAIN S!SectionOf(n))
      BY <1>1
    <3> QED BY <3>1, <3>2, <3>3
  <2>3. CASE saying # {}
    <3>1. PICK n \in Files :
            /\ S!Counts(n) /\ S!Says(n, s) /\ acc.config[s] = ValueOf(n, s)
            /\ \A k \in Files : n < k /\ k < candidate /\ S!Counts(k) => ~S!Says(k, s)
      BY <1>1, <2>1, <2>3 DEF SaidBefore
    <3>2. n \in saying /\ \A k \in saying : n >= k
      BY <1>1, <3>1
    <3>3. \A k \in saying : k \in Nat
      BY <1>1
    <3> HIDE DEF saying
    <3>4. S!Max(saying) = n
      BY <3>2, <3>3 DEF S!Max
    <3>5. S!Expected(s) = ValueOf(S!Max(saying), s)
      BY <2>3 DEF S!Expected, ValueOf, saying, Files
    <3> QED BY <3>1, <3>4, <3>5
  <2> QED BY <2>2, <2>3
<1>4. (acc.used # <<>>) <=> \E n \in Files : S!Counts(n)
  BY <1>1, <1>2 DEF Follows
<1> QED BY <1>1, <1>2, <1>3, <1>4 DEF Follows

\* The model values that stand for no file and no section are neither: they are no functions.
Markers == \A x \in {Absent, Broken, NoSection} : x # [k \in DOMAIN x |-> x[k]]

LEMMA NotMarkers ==
  ASSUME Markers
  PROVE  /\ \A s, p, q : S!IsConfig([section |-> s, plugin |-> p, schema |-> q])
         /\ \A f : f = [k \in DOMAIN f |-> f[k]] => f # NoSection
<1>1. \A f : f = [k \in DOMAIN f |-> f[k]] => f \notin {Absent, Broken, NoSection}
  BY DEF Markers
<1>2. \A s, p, q : [section |-> s, plugin |-> p, schema |-> q] =
        [k \in DOMAIN [section |-> s, plugin |-> p, schema |-> q] |->
           [section |-> s, plugin |-> p, schema |-> q][k]]
  OBVIOUS
<1> QED BY <1>1, <1>2 DEF S!IsConfig

------------------------------------------------------------------------------
(* The steps in which the settings of a file are edited.                    *)

Whole(f) == f = [k \in DOMAIN f |-> f[k]]

\* e1 is e with at most the settings of T changed, and those of N new.
Touches(e, e1, T, N) ==
  /\ \A k : k \in DOMAIN e.section => k \in DOMAIN e1.section
  /\ \A k : k \in DOMAIN e1.section => k \in DOMAIN e.section \/ k \in N
  /\ \A k : k \in DOMAIN e.section /\ k \notin T => e1.section[k] = e.section[k]
  /\ e1 = e \/ (e1.changed = TRUE /\ Whole(e1.section))

LEMMA TouchesOn ==
  ASSUME NEW e, NEW e1, NEW e2, NEW T1, NEW T2, NEW N1, NEW N2, Touches(e, e1, T1, N1), Touches(e1, e2, T2, N2)
  PROVE  Touches(e, e2, T1 \cup T2, N1 \cup N2)
BY DEF Touches

LEMMA TouchesNone == ASSUME NEW e, NEW T, NEW N PROVE Touches(e, e, T, N)
BY DEF Touches

LEMMA WithTouches ==
  ASSUME NEW e, NEW s, NEW v
  PROVE  /\ Touches(e, S!With(e, s, v), {s}, {s}) /\ s \in DOMAIN S!With(e, s, v).section
         /\ S!With(e, s, v).section[s] = v
         /\ s \notin DOMAIN e.section => Touches(e, S!With(e, s, v), {}, {s})
<1> DEFINE D == DOMAIN e.section \cup {s}
           sec == [k \in D |-> IF k = s THEN v ELSE e.section[k]]
<1>1. S!With(e, s, v) = [section |-> sec, changed |-> TRUE]
  BY DEF S!With
<1>2. S!With(e, s, v).section = sec /\ S!With(e, s, v).changed = TRUE
  BY <1>1
<1>3. DOMAIN sec = D /\ sec[s] = v /\ \A k \in DOMAIN e.section : k # s => sec[k] = e.section[k]
  OBVIOUS
<1>4. Whole(sec)
  BY DEF Whole
<1> HIDE DEF sec
<1> QED BY <1>2, <1>3, <1>4 DEF Touches

LEMMA AddedTouches ==
  ASSUME NEW e, NEW s, NEW v
  PROVE  /\ Touches(e, S!Added(e, s, v), {}, {s}) /\ s \in DOMAIN S!Added(e, s, v).section
         /\ s \notin DOMAIN e.section => S!Added(e, s, v).section[s] = S!Present(v)
<1>1. CASE s \in DOMAIN e.section
  <2>1. S!Added(e, s, v) = e
    BY <1>1 DEF S!Added
  <2> QED BY <1>1, <2>1, TouchesNone
<1>2. CASE s \notin DOMAIN e.section
  <2>1. S!Added(e, s, v) = S!With(e, s, S!Present(v))
    BY <1>2 DEF S!Added
  <2>2. PICK w : w = S!Present(v)
    OBVIOUS
  <2> QED BY <1>2, <2>1, <2>2, WithTouches
<1> QED BY <1>1, <1>2

LEMMA OwnedTouches ==
  ASSUME NEW e, NEW s, NEW v
  PROVE  /\ Touches(e, S!Owned(e, s, v), {s}, {s}) /\ s \in DOMAIN S!Owned(e, s, v).section
         /\ S!Owned(e, s, v).section[s].v = v
<1>1. S!Present(v).v = v
  BY DEF S!Present
<1> QED BY <1>1, WithTouches, TouchesNone DEF S!Owned

LEMMA OwnedInTouches ==
  ASSUME NEW e, NEW s, NEW v
  PROVE  /\ Touches(e, S!OwnedIn(e, s, v), {s}, {s}) /\ s \in DOMAIN S!OwnedIn(e, s, v).section
         /\ S!OwnedIn(e, s, v).section[s].v \in {v, NotObject}
BY OwnedTouches, TouchesNone DEF S!OwnedIn

\* What an edit leaves for the installer to say.
Decided(section, c) ==
  /\ "enableToast" \in DOMAIN section /\ section["enableToast"].v = c.toast
  /\ {"enabledProviders", "formatStyle", "percentDisplayMode"} \subseteq DOMAIN section
  /\ "tuiSidebarPanel" \in DOMAIN section /\ section["tuiSidebarPanel"].v \in {c.sidebar, NotObject}
  /\ c.compact \/ "tuiCompactStatus" \in DOMAIN section =>
       "tuiCompactStatus" \in DOMAIN section /\ section["tuiCompactStatus"].v \in {c.compact, NotObject}
  /\ c.announce # Nobody =>
       "maintainerAnnouncements" \in DOMAIN section
         /\ section["maintainerAnnouncements"].v \in {c.announce, NotObject}

LEMMA DecidedStays == ASSUME NEW e, NEW c, Decided(e.section, c) PROVE S!SettingsEdit(e, c) = e
<1>1. S!Owned(e, "enableToast", c.toast) = e
  BY DEF Decided, S!Owned
<1>2. /\ \A v : S!Added(e, "enabledProviders", v) = e
      /\ \A v : S!Added(e, "formatStyle", v) = e
      /\ \A v : S!Added(e, "percentDisplayMode", v) = e
  BY DEF Decided, S!Added
<1>3. S!OwnedIn(e, "tuiSidebarPanel", c.sidebar) = e
  BY DEF Decided, S!OwnedIn, S!Owned
<1>4. S!Compact(e, c) = e
  BY DEF Decided, S!Compact, S!OwnedIn, S!Owned
<1>5. S!Announcements(e, c) = e
  BY DEF Decided, S!Announcements, S!OwnedIn, S!Owned
<1> QED BY <1>1, <1>2, <1>3, <1>4, <1>5 DEF S!SettingsEdit

\* What the settings of the user are after an edit: the same, but for the installer's
\* own, and with the style that had an old name.
Retains(old, new) ==
  /\ \A k \in DOMAIN old \ S!InstallerOwned : k \in DOMAIN new /\ new[k] = old[k]
  /\ "formatStyle" \notin DOMAIN old /\ S!ValidIn(old, "toastStyle") =>
       "formatStyle" \in DOMAIN new /\ new["formatStyle"] = S!Present(old["toastStyle"].v)

LEMMA EditSettles ==
  ASSUME NEW e, NEW c, NEW e1, e1 = S!SettingsEdit(e, c)
  PROVE  /\ Decided(e1.section, c) /\ Retains(e.section, e1.section)
         /\ \A k : k \in DOMAIN e.section => k \in DOMAIN e1.section
         /\ e1 = e \/ (e1.changed = TRUE /\ Whole(e1.section))
<1> PICK a : a = S!Owned(e, "enableToast", c.toast) OBVIOUS
<1> PICK b : b = S!Added(a, "enabledProviders", c.adds["enabledProviders"]) OBVIOUS
<1> PICK d : d = S!Added(b, "formatStyle", S!Style(b, c)) OBVIOUS
<1> PICK f : f = S!Added(d, "percentDisplayMode", c.adds["percentDisplayMode"]) OBVIOUS
<1> PICK g : g = S!OwnedIn(f, "tuiSidebarPanel", c.sidebar) OBVIOUS
<1> PICK h : h = S!Compact(g, c) OBVIOUS
<1>0. e1 = S!Announcements(h, c)
  BY DEF S!SettingsEdit
<1>1. /\ Touches(e, a, {"enableToast"}, {"enableToast"})
      /\ "enableToast" \in DOMAIN a.section /\ a.section["enableToast"].v = c.toast
  BY OwnedTouches
<1>2. Touches(a, b, {}, {"enabledProviders"}) /\ "enabledProviders" \in DOMAIN b.section
  BY AddedTouches
<1>3. /\ Touches(b, d, {}, {"formatStyle"}) /\ "formatStyle" \in DOMAIN d.section
      /\ "formatStyle" \notin DOMAIN b.section => d.section["formatStyle"] = S!Present(S!Style(b, c))
  BY AddedTouches
<1>4. Touches(d, f, {}, {"percentDisplayMode"}) /\ "percentDisplayMode" \in DOMAIN f.section
  BY AddedTouches
<1>5. /\ Touches(f, g, {"tuiSidebarPanel"}, {"tuiSidebarPanel"}) /\ "tuiSidebarPanel" \in DOMAIN g.section
      /\ g.section["tuiSidebarPanel"].v \in {c.sidebar, NotObject}
  BY OwnedInTouches
<1>6. /\ Touches(g, h, {"tuiCompactStatus"}, {"tuiCompactStatus"})
      /\ c.compact \/ "tuiCompactStatus" \in DOMAIN h.section =>
           "tuiCompactStatus" \in DOMAIN h.section /\ h.section["tuiCompactStatus"].v \in {c.compact, NotObject}
  BY OwnedInTouches, TouchesNone DEF S!Compact
<1>7. /\ Touches(h, e1, {"maintainerAnnouncements"}, {"maintainerAnnouncements"})
      /\ c.announce # Nobody =>
           "maintainerAnnouncements" \in DOMAIN e1.section
             /\ e1.section["maintainerAnnouncements"].v \in {c.announce, NotObject}
  BY <1>0, OwnedInTouches, TouchesNone DEF S!Announcements
<1>8. Touches(g, e1, {"tuiCompactStatus", "maintainerAnnouncements"}, {"tuiCompactStatus", "maintainerAnnouncements"})
  <2>1. PICK T1, T2 : T1 = {"tuiCompactStatus"} /\ T2 = {"maintainerAnnouncements"}
    OBVIOUS
  <2>2. Touches(g, e1, T1 \cup T2, T1 \cup T2)
    BY <1>6, <1>7, <2>1, TouchesOn
  <2>3. T1 \cup T2 = {"tuiCompactStatus", "maintainerAnnouncements"}
    BY <2>1
  <2> QED BY <2>2, <2>3
<1>9. Touches(f, e1, S!InstallerOwned \ {"enableToast"}, S!InstallerOwned \ {"enableToast"})
  <2>1. PICK T1, T2 : T1 = {"tuiSidebarPanel"} /\ T2 = {"tuiCompactStatus", "maintainerAnnouncements"}
    OBVIOUS
  <2>2. Touches(f, e1, T1 \cup T2, T1 \cup T2)
    BY <1>5, <1>8, <2>1, TouchesOn
  <2>3. T1 \cup T2 = S!InstallerOwned \ {"enableToast"}
    BY <2>1 DEF S!InstallerOwned
  <2> QED BY <2>2, <2>3
<1>10. Touches(d, e1, S!InstallerOwned \ {"enableToast"}, (S!InstallerOwned \ {"enableToast"}) \cup {"percentDisplayMode"})
  BY <1>4, <1>9 DEF Touches
<1>11. Touches(a, d, {}, {"enabledProviders", "formatStyle"})
  BY <1>2, <1>3 DEF Touches
<1>12. Touches(a, e1, S!InstallerOwned \ {"enableToast"},
               (S!InstallerOwned \ {"enableToast"}) \cup {"percentDisplayMode", "enabledProviders", "formatStyle"})
  BY <1>10, <1>11 DEF Touches
<1>13. Touches(e, e1, S!InstallerOwned, S!InstallerOwned \cup {"percentDisplayMode", "enabledProviders", "formatStyle"})
  BY <1>1, <1>12 DEF Touches, S!InstallerOwned
<1>14. Decided(e1.section, c)
  <2>1. "enableToast" \in DOMAIN e1.section /\ e1.section["enableToast"].v = c.toast
    BY <1>1, <1>12 DEF Touches, S!InstallerOwned
  <2>2. {"enabledProviders", "formatStyle", "percentDisplayMode"} \subseteq DOMAIN e1.section
    <3>1. "enabledProviders" \in DOMAIN d.section
      BY <1>2, <1>3 DEF Touches
    <3>2. "formatStyle" \in DOMAIN d.section
      BY <1>3
    <3>3. \A k : k \in DOMAIN d.section => k \in DOMAIN e1.section
      BY <1>10 DEF Touches
    <3>4. "percentDisplayMode" \in DOMAIN e1.section
      BY <1>4, <1>9 DEF Touches
    <3> QED BY <3>1, <3>2, <3>3, <3>4
  <2>3. "tuiSidebarPanel" \in DOMAIN e1.section /\ e1.section["tuiSidebarPanel"].v \in {c.sidebar, NotObject}
    BY <1>5, <1>8 DEF Touches
  <2>4. c.compact \/ "tuiCompactStatus" \in DOMAIN e1.section =>
          "tuiCompactStatus" \in DOMAIN e1.section /\ e1.section["tuiCompactStatus"].v \in {c.compact, NotObject}
    BY <1>6, <1>7 DEF Touches
  <2> QED BY <1>7, <2>1, <2>2, <2>3, <2>4 DEF Decided
<1>15. ASSUME "formatStyle" \notin DOMAIN e.section, S!ValidIn(e.section, "toastStyle")
       PROVE  e1.section["formatStyle"] = S!Present(e.section["toastStyle"].v)
  <2>1. "formatStyle" \notin DOMAIN b.section
    BY <1>1, <1>2, <1>15 DEF Touches
  <2>2. "toastStyle" \in DOMAIN b.section /\ b.section["toastStyle"] = e.section["toastStyle"]
    BY <1>1, <1>2, <1>15 DEF Touches, S!ValidIn
  <2>3. S!Style(b, c) = e.section["toastStyle"].v
    BY <1>15, <2>2 DEF S!Style, S!ValidIn
  <2>4. d.section["formatStyle"] = S!Present(e.section["toastStyle"].v)
    BY <1>3, <2>1, <2>3
  <2> QED BY <1>3, <1>10, <2>4 DEF Touches, S!InstallerOwned
<1>16. Retains(e.section, e1.section)
  BY <1>13, <1>14, <1>15 DEF Retains, Decided, Touches
<1> QED BY <1>13, <1>14, <1>16 DEF Touches

\* The settings that take effect of old take effect of new, with the same values.
Keeps(old, new) ==
  \A s \in S!PatchedSettings(old) \ S!InstallerOwned :
    s \in S!PatchedSettings(new) /\ S!PatchValue(new, s) = S!PatchValue(old, s)

LEMMA RetainsKeeps == ASSUME NEW old, NEW new, Retains(old, new) PROVE Keeps(old, new)
<1> SUFFICES ASSUME NEW s \in S!PatchedSettings(old), s \notin S!InstallerOwned
             PROVE  s \in S!PatchedSettings(new) /\ S!PatchValue(new, s) = S!PatchValue(old, s)
  BY DEF Keeps
<1>1. "toastStyle" \in DOMAIN old => "toastStyle" \in DOMAIN new /\ new["toastStyle"] = old["toastStyle"]
  BY DEF Retains, S!InstallerOwned
<1>2. CASE s \in DOMAIN old
  <2>1. s \in DOMAIN new /\ new[s] = old[s]
    BY <1>2 DEF Retains
  <2>2. s \in S!PatchedSettings(new)
    BY <1>1, <1>2, <2>1 DEF S!PatchedSettings, S!ValidIn
  <2>3. s = "formatStyle" /\ ~S!ValidIn(old, s) => S!ValidIn(old, "toastStyle")
    BY SettingsAssumption DEF S!PatchedSettings
  <2>4. S!PatchValue(new, s) = S!PatchValue(old, s)
    BY <1>1, <1>2, <2>1, <2>3 DEF S!PatchValue, S!ValidIn
  <2> QED BY <2>2, <2>4
<1>3. CASE s \notin DOMAIN old
  <2>1. s = "formatStyle" /\ S!ValidIn(old, "toastStyle") /\ s \in Settings
    BY <1>3 DEF S!PatchedSettings, S!ValidIn
  <2>2. "formatStyle" \in DOMAIN new /\ new["formatStyle"] = S!Present(old["toastStyle"].v)
    BY <1>3, <2>1 DEF Retains
  <2>3. S!ValidIn(new, "formatStyle") /\ new["formatStyle"].v = old["toastStyle"].v
    BY <2>2 DEF S!ValidIn, S!Present
  <2> QED BY <1>3, <2>1, <2>3 DEF S!PatchedSettings, S!PatchValue, S!ValidIn
<1> QED BY <1>2, <1>3

------------------------------------------------------------------------------
(* What a plan writes.                                                      *)

\* A file of OpenCode's that lists the plugin, with a section or none.
Listed(p) == p = [section |-> p.section, plugin |-> "quota", schema |-> TRUE]

LEMMA PluginListed ==
  ASSUME NEW t, t = Absent \/ t = [section |-> t.section, plugin |-> t.plugin, schema |-> t.schema]
  PROVE  /\ Listed(S!PluginAdded(t))
         /\ S!PluginAdded(t).section = IF t = Absent THEN NoSection ELSE t.section
<1>1. CASE t = Absent
  BY <1>1 DEF S!PluginAdded, Listed
<1>2. CASE t # Absent
  <2>1. PICK s, p, q : t = [section |-> s, plugin |-> p, schema |-> q] /\ s = t.section
    BY <1>2
  <2>2. S!PluginAdded(t) = [section |-> s, plugin |-> "quota", schema |-> TRUE]
    BY <1>2, <2>1 DEF S!PluginAdded
  <2>3. S!PluginAdded(t).section = s
    BY <2>2
  <2> QED BY <1>2, <2>1, <2>2, <2>3 DEF Listed
<1> QED BY <1>1, <1>2

LEMMA ListedStays ==
  ASSUME Markers, NEW p, Listed(p)
  PROVE  S!IsConfig(p) /\ S!PluginAdded(p) = p /\ p.plugin = "quota"
<1>1. S!IsConfig(p)
  BY NotMarkers DEF Listed
<1>2. p # Absent
  BY <1>1 DEF S!IsConfig
<1>3. PICK x : p = [section |-> x, plugin |-> "quota", schema |-> TRUE]
  BY DEF Listed
<1>4. [p EXCEPT !.plugin = "quota", !.schema = TRUE] = p
  <2>1. PICK r : r = [p EXCEPT !.plugin = "quota", !.schema = TRUE]
    OBVIOUS
  <2>2. /\ DOMAIN p = {"section", "plugin", "schema"}
        /\ p.section = x /\ p.plugin = "quota" /\ p.schema = TRUE
    BY <1>3
  <2>3. DOMAIN r = DOMAIN p /\ r.section = x /\ r.plugin = "quota" /\ r.schema = TRUE
    BY <2>1, <2>2
  <2>4. r = [section |-> x, plugin |-> "quota", schema |-> TRUE]
    BY <1>3, <2>1, <2>3
  <2> QED BY <1>3, <2>1, <2>4
<1>5. S!PluginAdded(p) = p
  BY <1>2, <1>4 DEF S!PluginAdded
<1> QED BY <1>1, <1>3, <1>5

\* A section with the settings that are copied into it.
Overlay(x, e) ==
  LET old == IF x = NoSection THEN <<>> ELSE x
  IN  [s \in DOMAIN old \cup DOMAIN e |-> IF s \in DOMAIN e THEN e[s] ELSE old[s]]

LEMMA OverlayStays ==
  ASSUME Markers, NEW x, NEW e
  PROVE  /\ Overlay(x, e) # NoSection /\ Overlay(Overlay(x, e), e) = Overlay(x, e)
         /\ \A s \in DOMAIN e : s \in DOMAIN Overlay(x, e) /\ Overlay(x, e)[s] = e[s]
<1> PICK old : old = IF x = NoSection THEN <<>> ELSE x
  OBVIOUS
<1>1. Overlay(x, e) = [s \in DOMAIN old \cup DOMAIN e |-> IF s \in DOMAIN e THEN e[s] ELSE old[s]]
  BY DEF Overlay
<1>2. PICK y : y = Overlay(x, e)
  OBVIOUS
<1>3. /\ DOMAIN y = DOMAIN old \cup DOMAIN e
      /\ \A s \in DOMAIN e : y[s] = e[s]
  BY <1>1, <1>2
<1>4. y = [s \in DOMAIN y |-> y[s]]
  BY <1>1, <1>2
<1>5. y # NoSection
  BY <1>4, NotMarkers
<1>6. Overlay(y, e) = [s \in DOMAIN y \cup DOMAIN e |-> IF s \in DOMAIN e THEN e[s] ELSE y[s]]
  BY <1>5 DEF Overlay
<1>7. Overlay(y, e) = [s \in DOMAIN y |-> y[s]]
  BY <1>3, <1>6
<1> QED BY <1>2, <1>3, <1>4, <1>5, <1>7

LEMMA SyncedListed ==
  ASSUME Markers, NEW p, Listed(p), NEW e
  PROVE  /\ Listed(S!Synced(p, e))
         /\ S!Synced(p, e).section = IF DOMAIN e = {} THEN p.section ELSE Overlay(p.section, e)
         /\ S!Synced(S!Synced(p, e), e) = S!Synced(p, e)
<1>1. ASSUME NEW q, Listed(q)
      PROVE  S!Synced(q, e) = [section |-> IF DOMAIN e = {} THEN q.section ELSE Overlay(q.section, e),
                               plugin |-> "quota", schema |-> TRUE]
  <2>1. PICK x : q = [section |-> x, plugin |-> "quota", schema |-> TRUE] /\ x = q.section
    BY <1>1 DEF Listed
  <2>2. PICK y : y = Overlay(x, e)
    OBVIOUS
  <2>3. S!Synced(q, e) = [q EXCEPT !.section = IF DOMAIN e = {} THEN @ ELSE y]
    BY <2>1, <2>2 DEF S!Synced, Overlay
  <2> QED BY <2>1, <2>2, <2>3
<1>2. PICK r : r = S!Synced(p, e)
  OBVIOUS
<1>3. Listed(r) /\ r.section = IF DOMAIN e = {} THEN p.section ELSE Overlay(p.section, e)
  BY <1>1, <1>2 DEF Listed
<1>4. r.section = IF DOMAIN e = {} THEN r.section ELSE Overlay(r.section, e)
  BY <1>3, OverlayStays
<1>5. S!Synced(r, e) = r
  BY <1>1, <1>3, <1>4 DEF Listed
<1> QED BY <1>2, <1>3, <1>5

\* What goes into OpenCode's file, and the files after the first, second and third write.
Copied(b, c) ==
  LET added == S!PluginAdded(b[S!Editable(b)])
  IN  IF c.sync THEN S!Synced(added, S!QuotaEdit(b, c).section) ELSE added
First(b, c) == [b EXCEPT ![S!Editable(b)] = Copied(b, c)]

PluginEdit(b, c) ==
  [kind |-> "plugin", changed |-> S!QuotaEdit(b, c).changed,
   content |-> [section |-> S!QuotaEdit(b, c).section, plugin |-> "other", schema |-> TRUE]]
Second(b, c) == S!Written(First(b, c), PluginEdit(b, c))
Third(b, c) == [Second(b, c) EXCEPT !["tui"] = S!PluginAdded(b["tui"])]

\* A root that can be set up.
Ready(b, c) == S!ProperRoot(b) /\ ~S!Throws(b, c)

LEMMA ReadyFiles ==
  ASSUME NEW b, NEW c, Ready(b, c)
  PROVE  /\ S!Editable(b) \in S!Legacy
         /\ b = [k \in S!Kinds |-> b[k]]
         /\ \A k \in {S!Editable(b), "plugin"} :
              \/ b[k] = Absent
              \/ S!IsConfig(b[k]) /\ b[k] = [section |-> b[k].section, plugin |-> b[k].plugin, schema |-> b[k].schema]
         /\ S!Interface(c) =>
              \/ b["tui"] = Absent
              \/ b["tui"] = [section |-> b["tui"].section, plugin |-> b["tui"].plugin, schema |-> b["tui"].schema]
         /\ b["plugin"] # Absent => b["plugin"].section # NoSection
<1>1. S!Editable(b) \in S!Legacy
  BY DEF S!Editable, S!Legacy
<1>2. \A k \in {S!Editable(b), "plugin"} : k \in S!Kinds /\ b[k] # Broken
  BY <1>1 DEF Ready, S!Throws, S!Kinds
<1>3. S!Interface(c) => b["tui"] # Broken /\ "tui" \in S!Kinds
  BY DEF Ready, S!Throws, S!Kinds
<1> QED BY <1>1, <1>2, <1>3 DEF Ready, S!ProperRoot, S!IsConfig

\* The section that the plugin's file is planned to have: the one that applied, edited.
LEMMA QuotaPlanned ==
  ASSUME Markers, NEW b, NEW c, Ready(b, c), NEW e, e = S!QuotaEdit(b, c)
  PROVE  /\ Decided(e.section, c) /\ Retains(S!Applying(b), e.section)
         /\ e.section # NoSection
         /\ \A k : k \in DOMAIN S!Applying(b) => k \in DOMAIN e.section
         /\ b["plugin"] = Absent => e.changed = TRUE
         /\ b["plugin"] # Absent => e.changed = TRUE \/ (e.changed = FALSE /\ e.section = b["plugin"].section)
         /\ b["plugin"] = Absent => S!Applying(b) = S!Seed(b)
<1>1. CASE b["plugin"] = Absent
  <2>1. PICK start : start = [section |-> S!Seed(b), changed |-> TRUE]
    OBVIOUS
  <2>2. e = S!SettingsEdit(start, c)
    BY <1>1, <2>1 DEF S!QuotaEdit
  <2>3. S!Applying(b) = S!Seed(b)
    BY <1>1 DEF S!Applying, S!Seed
  <2>4. start.section = S!Seed(b) /\ start.changed = TRUE
    BY <2>1
  <2>5. /\ Decided(e.section, c) /\ Retains(S!Seed(b), e.section)
        /\ \A k : k \in DOMAIN S!Seed(b) => k \in DOMAIN e.section
        /\ e = start \/ (e.changed = TRUE /\ Whole(e.section))
    BY <2>2, <2>4, EditSettles
  <2>6. e.section # NoSection
    <3>1. CASE e = start
      <4>1. "enableToast" \in DOMAIN S!Seed(b)
        BY <2>4, <2>5, <3>1 DEF Decided
      <4>2. S!Seed(b) # <<>>
        BY <4>1
      <4> QED BY <2>4, <3>1, <4>2 DEF S!Seed
    <3>2. CASE Whole(e.section)
      BY <3>2, NotMarkers DEF Whole
    <3> QED BY <2>5, <3>1, <3>2
  <2> QED BY <1>1, <2>3, <2>4, <2>5, <2>6
<1>2. CASE b["plugin"] # Absent
  <2>1. PICK start : start = S!Unchanged(b["plugin"].section)
    OBVIOUS
  <2>2. e = S!SettingsEdit(start, c)
    BY <1>2, <2>1 DEF S!QuotaEdit
  <2>3. S!IsConfig(b["plugin"]) /\ b["plugin"].section # NoSection
    BY <1>2, ReadyFiles
  <2>4. S!Applying(b) = b["plugin"].section
    BY <1>2, <2>3 DEF S!Applying
  <2>5. start.section = b["plugin"].section /\ start.changed = FALSE
    BY <2>1 DEF S!Unchanged
  <2>6. /\ Decided(e.section, c) /\ Retains(b["plugin"].section, e.section)
        /\ \A k : k \in DOMAIN b["plugin"].section => k \in DOMAIN e.section
        /\ e = start \/ (e.changed = TRUE /\ Whole(e.section))
    BY <2>2, <2>5, EditSettles
  <2>7. e.section # NoSection
    BY <2>3, <2>5, <2>6, NotMarkers DEF Whole
  <2> QED BY <1>2, <2>4, <2>5, <2>6, <2>7
<1> QED BY <1>1, <1>2

\* The plan, edit by edit.
LEMMA Planned ==
  ASSUME NEW b, NEW c
  PROVE  S!Plan(b, c) =
           IF S!Interface(c)
           THEN <<S!FileEdit(S!Editable(b), b[S!Editable(b)], Copied(b, c)), PluginEdit(b, c),
                  S!FileEdit("tui", b["tui"], S!PluginAdded(b["tui"]))>>
           ELSE <<S!FileEdit(S!Editable(b), b[S!Editable(b)], Copied(b, c)), PluginEdit(b, c)>>
BY DEF S!Plan, Copied, PluginEdit

OldSection(t) == IF t = Absent THEN NoSection ELSE t.section

LEMMA CopiedListed ==
  ASSUME Markers, NEW b, NEW c, Ready(b, c)
  PROVE  /\ Listed(Copied(b, c))
         /\ Copied(b, c).section =
              IF c.sync /\ DOMAIN S!QuotaEdit(b, c).section # {}
              THEN Overlay(OldSection(b[S!Editable(b)]), S!QuotaEdit(b, c).section)
              ELSE OldSection(b[S!Editable(b)])
         /\ S!Seed(b) = IF OldSection(b[S!Editable(b)]) = NoSection THEN <<>> ELSE OldSection(b[S!Editable(b)])
<1> PICK t : t = b[S!Editable(b)] OBVIOUS
<1> PICK e : e = S!QuotaEdit(b, c).section OBVIOUS
<1> PICK added : added = S!PluginAdded(t) OBVIOUS
<1>1. t = Absent \/ (S!IsConfig(t) /\ t = [section |-> t.section, plugin |-> t.plugin, schema |-> t.schema])
  BY ReadyFiles
<1>2. Listed(added) /\ added.section = OldSection(t)
  BY <1>1, PluginListed DEF OldSection
<1>3. Copied(b, c) = IF c.sync THEN S!Synced(added, e) ELSE added
  BY DEF Copied
<1>4. /\ Listed(Copied(b, c))
      /\ Copied(b, c).section =
           IF c.sync /\ DOMAIN e # {} THEN Overlay(OldSection(t), e) ELSE OldSection(t)
  <2>1. /\ Listed(S!Synced(added, e))
        /\ S!Synced(added, e).section = IF DOMAIN e = {} THEN OldSection(t) ELSE Overlay(OldSection(t), e)
    BY <1>2, SyncedListed
  <2>2. CASE c.sync
    <3>1. Copied(b, c) = S!Synced(added, e)
      BY <1>3, <2>2
    <3> QED BY <2>1, <2>2, <3>1
  <2>3. CASE ~c.sync
    <3>1. Copied(b, c) = added
      BY <1>3, <2>3
    <3> QED BY <1>2, <2>3, <3>1
  <2> QED BY <2>2, <2>3
<1>5. S!Seed(b) = IF OldSection(t) = NoSection THEN <<>> ELSE OldSection(t)
  BY <1>1 DEF S!Seed, OldSection, S!IsConfig
<1> QED BY <1>4, <1>5

\* Which of OpenCode's files is edited stays so.
LEMMA EditableStays ==
  ASSUME NEW b, NEW z, z[S!Editable(b)] # Absent, S!Editable(b) = "json" => z["jsonc"] = b["jsonc"]
  PROVE  S!Editable(z) = S!Editable(b)
BY DEF S!Editable

LEMMA FirstFiles ==
  ASSUME Markers, NEW b, NEW c, Ready(b, c), NEW z, z = First(b, c)
  PROVE  /\ S!ProperRoot(z) /\ S!Editable(z) = S!Editable(b) /\ z[S!Editable(b)] = Copied(b, c)
         /\ z["plugin"] = b["plugin"] /\ z["tui"] = b["tui"]
         /\ S!Written(b, S!FileEdit(S!Editable(b), b[S!Editable(b)], Copied(b, c))) = z
<1> PICK k : k = S!Editable(b) OBVIOUS
<1> PICK t : t = Copied(b, c) OBVIOUS
<1>1. k \in S!Legacy /\ b = [k1 \in S!Kinds |-> b[k1]]
  BY ReadyFiles
<1>2. {"plugin", "tui", "json", "jsonc"} = S!Kinds /\ S!Legacy = {"json", "jsonc"}
  BY DEF S!Kinds, S!Legacy
<1>3. z = [b EXCEPT ![k] = t]
  BY DEF First
<1>4. z = [k1 \in S!Kinds |-> z[k1]]
  BY <1>1, <1>3
<1>5. z[k] = t /\ \A k1 \in S!Kinds : k1 # k => z[k1] = b[k1]
  BY <1>1, <1>2, <1>3
<1>6. Listed(t) /\ S!IsConfig(t)
  BY CopiedListed, ListedStays
<1>7. t = [section |-> t.section, plugin |-> t.plugin, schema |-> t.schema]
  BY <1>6 DEF Listed
<1>8. S!ProperRoot(z)
  <2> SUFFICES ASSUME NEW k1 \in S!Kinds, S!IsConfig(z[k1])
               PROVE  /\ z[k1] = [section |-> z[k1].section, plugin |-> z[k1].plugin, schema |-> z[k1].schema]
                      /\ k1 = "plugin" => z[k1].section # NoSection
    BY <1>4 DEF S!ProperRoot
  <2>1. CASE k1 = k
    BY <1>1, <1>2, <1>5, <1>7, <2>1
  <2>2. CASE k1 # k
    BY <1>5, <2>2 DEF Ready, S!ProperRoot
  <2> QED BY <2>1, <2>2
<1>9. S!Editable(z) = k
  <2>1. z[k] # Absent
    BY <1>5, <1>6 DEF S!IsConfig
  <2> QED BY <1>2, <1>5, <2>1, EditableStays
<1>10. z["plugin"] = b["plugin"] /\ z["tui"] = b["tui"]
  BY <1>1, <1>2, <1>5
<1>11. S!Written(b, S!FileEdit(k, b[k], t)) = z
  <2>1. t = b[k] => [b EXCEPT ![k] = t] = b
    BY <1>1
  <2> QED BY <1>3, <2>1 DEF S!Written, S!FileEdit
<1> QED BY <1>5, <1>8, <1>9, <1>10, <1>11

\* What applies after the first write: what applied, or all of it and more.
LEMMA FirstKeeps ==
  ASSUME Markers, NEW b, NEW c, Ready(b, c)
  PROVE  Keeps(S!Applying(b), S!Applying(First(b, c)))
<1> PICK z : z = First(b, c) OBVIOUS
<1> PICK k : k = S!Editable(b) OBVIOUS
<1> PICK t : t = Copied(b, c) OBVIOUS
<1> PICK e : e = S!QuotaEdit(b, c) OBVIOUS
<1>1. S!Editable(z) = k /\ z[k] = t /\ z["plugin"] = b["plugin"]
  BY FirstFiles
<1>2. CASE b["plugin"] # Absent
  BY <1>1, <1>2 DEF S!Applying, Keeps
<1>3. CASE b["plugin"] = Absent
  <2>1. S!Applying(b) = S!Seed(b)
    BY <1>3, QuotaPlanned
  <2>2. S!IsConfig(t)
    BY CopiedListed, ListedStays
  <2>3. S!Applying(z) = IF t.section # NoSection THEN t.section ELSE <<>>
    BY <1>1, <1>3, <2>2 DEF S!Applying
  <2>4. PICK old : old = OldSection(b[k])
    OBVIOUS
  <2>5. S!Seed(b) = IF old = NoSection THEN <<>> ELSE old
    BY <2>4, CopiedListed
  <2>6. CASE c.sync /\ DOMAIN e.section # {}
    <3>1. t.section = Overlay(old, e.section)
      BY <2>4, <2>6, CopiedListed
    <3>2. S!Applying(z) = t.section /\ \A s \in DOMAIN e.section : s \in DOMAIN t.section /\ t.section[s] = e.section[s]
      BY <2>3, <3>1, OverlayStays
    <3>3. Retains(S!Applying(b), e.section) /\ Decided(e.section, c)
      BY QuotaPlanned
    <3>4. Retains(S!Applying(b), t.section)
      BY <3>2, <3>3 DEF Retains
    <3> QED BY <3>2, <3>4, RetainsKeeps
  <2>7. CASE ~(c.sync /\ DOMAIN e.section # {})
    <3>1. t.section = old
      BY <2>4, <2>7, CopiedListed
    <3>2. S!Applying(z) = S!Applying(b)
      BY <2>1, <2>3, <2>5, <3>1
    <3> QED BY <3>2 DEF Keeps
  <2> QED BY <2>6, <2>7
<1> QED BY <1>2, <1>3

LEMMA SecondFiles ==
  ASSUME Markers, NEW b, NEW c, Ready(b, c), NEW y, y = Second(b, c)
  PROVE  /\ S!ProperRoot(y) /\ S!Editable(y) = S!Editable(b) /\ y[S!Editable(b)] = Copied(b, c)
         /\ S!IsConfig(y["plugin"]) /\ y["plugin"].section = S!QuotaEdit(b, c).section
         /\ y["tui"] = b["tui"]
<1> PICK k : k = S!Editable(b) OBVIOUS
<1> PICK e : e = S!QuotaEdit(b, c) OBVIOUS
<1> PICK z : z = First(b, c) OBVIOUS
<1> PICK p : p = [section |-> e.section, plugin |-> "other", schema |-> TRUE] OBVIOUS
<1>1. /\ S!ProperRoot(z) /\ S!Editable(z) = k /\ z[k] = Copied(b, c)
      /\ z["plugin"] = b["plugin"] /\ z["tui"] = b["tui"]
  BY FirstFiles
<1>2. /\ e.section # NoSection
      /\ b["plugin"] = Absent => e.changed = TRUE
      /\ b["plugin"] # Absent => e.changed = TRUE \/ (e.changed = FALSE /\ e.section = b["plugin"].section)
  BY QuotaPlanned
<1>3. b["plugin"] # Absent => S!IsConfig(b["plugin"])
  BY ReadyFiles
<1>4. y = IF e.changed THEN [z EXCEPT !["plugin"] = p] ELSE z
  BY DEF Second, PluginEdit, S!Written
<1>5. CASE e.changed = FALSE
  BY <1>1, <1>2, <1>3, <1>4, <1>5
<1>6. CASE e.changed = TRUE
  <2>1. k \in S!Legacy /\ {"plugin", "tui", "json", "jsonc"} = S!Kinds /\ S!Legacy = {"json", "jsonc"}
    BY ReadyFiles DEF S!Kinds, S!Legacy
  <2>2. z = [k1 \in S!Kinds |-> z[k1]]
    BY <1>1 DEF S!ProperRoot
  <2>3. y = [z EXCEPT !["plugin"] = p]
    BY <1>4, <1>6
  <2>4. y = [k1 \in S!Kinds |-> y[k1]]
    BY <2>2, <2>3
  <2>5. y["plugin"] = p /\ \A k1 \in S!Kinds : k1 # "plugin" => y[k1] = z[k1]
    BY <2>1, <2>2, <2>3
  <2>6. /\ S!IsConfig(p) /\ p.section = e.section
        /\ p = [section |-> p.section, plugin |-> p.plugin, schema |-> p.schema]
    BY NotMarkers
  <2>7. S!ProperRoot(y)
    BY <1>1, <1>2, <2>4, <2>5, <2>6 DEF S!ProperRoot
  <2>8. S!Editable(y) = S!Editable(z)
    BY <2>1, <2>5 DEF S!Editable
  <2> QED BY <1>1, <2>1, <2>5, <2>6, <2>7, <2>8
<1> QED BY <1>2, <1>5, <1>6

LEMMA ThirdFiles ==
  ASSUME Markers, NEW b, NEW c, Ready(b, c), S!Interface(c), NEW z, z = Third(b, c)
  PROVE  /\ S!ProperRoot(z) /\ S!Editable(z) = S!Editable(b) /\ z[S!Editable(b)] = Copied(b, c)
         /\ S!IsConfig(z["plugin"]) /\ z["plugin"].section = S!QuotaEdit(b, c).section
         /\ z["tui"] = S!PluginAdded(b["tui"])
         /\ S!Written(Second(b, c), S!FileEdit("tui", b["tui"], S!PluginAdded(b["tui"]))) = z
<1> PICK k : k = S!Editable(b) OBVIOUS
<1> PICK y : y = Second(b, c) OBVIOUS
<1> PICK p : p = S!PluginAdded(b["tui"]) OBVIOUS
<1>1. /\ S!ProperRoot(y) /\ S!Editable(y) = k /\ y[k] = Copied(b, c)
      /\ S!IsConfig(y["plugin"]) /\ y["plugin"].section = S!QuotaEdit(b, c).section
      /\ y["tui"] = b["tui"]
  BY SecondFiles
<1>2. k \in S!Legacy /\ {"plugin", "tui", "json", "jsonc"} = S!Kinds /\ S!Legacy = {"json", "jsonc"}
  BY ReadyFiles DEF S!Kinds, S!Legacy
<1>3. y = [k1 \in S!Kinds |-> y[k1]]
  BY <1>1 DEF S!ProperRoot
<1>4. z = [y EXCEPT !["tui"] = p]
  BY DEF Third
<1>5. z = [k1 \in S!Kinds |-> z[k1]]
  BY <1>3, <1>4
<1>6. z["tui"] = p /\ \A k1 \in S!Kinds : k1 # "tui" => z[k1] = y[k1]
  BY <1>2, <1>3, <1>4
<1>7. Listed(p)
  BY ReadyFiles, PluginListed
<1>8. p = [section |-> p.section, plugin |-> p.plugin, schema |-> p.schema]
  BY <1>7 DEF Listed
<1>9. S!ProperRoot(z)
  BY <1>1, <1>5, <1>6, <1>8 DEF S!ProperRoot
<1>10. S!Editable(z) = S!Editable(y)
  BY <1>2, <1>6 DEF S!Editable
<1>11. S!Written(y, S!FileEdit("tui", b["tui"], p)) = z
  <2>1. p = y["tui"] => [y EXCEPT !["tui"] = p] = y
    BY <1>3
  <2> QED BY <1>1, <1>4, <2>1 DEF S!Written, S!FileEdit
<1> QED BY <1>1, <1>2, <1>6, <1>9, <1>10, <1>11

\* With the plugin's file planned, what applied is kept, and there is nothing to say.
LEMMA PluginWritten ==
  ASSUME Markers, NEW b, NEW c, Ready(b, c), NEW z,
         S!IsConfig(z["plugin"]), z["plugin"].section = S!QuotaEdit(b, c).section
  PROVE  /\ S!Applying(z) = S!QuotaEdit(b, c).section /\ Keeps(S!Applying(b), S!Applying(z))
         /\ S!QuotaEdit(z, c) = S!Unchanged(S!QuotaEdit(b, c).section)
         /\ S!Applying(z)["enableToast"].v = c.toast
<1> PICK e : e = S!QuotaEdit(b, c).section OBVIOUS
<1>1. Decided(e, c) /\ Retains(S!Applying(b), e) /\ e # NoSection
  BY QuotaPlanned
<1>2. z["plugin"] # Absent
  BY DEF S!IsConfig
<1>3. S!Applying(z) = e
  BY <1>1, <1>2 DEF S!Applying
<1>4. S!Unchanged(e).section = e
  BY DEF S!Unchanged
<1>5. S!QuotaEdit(z, c) = S!SettingsEdit(S!Unchanged(e), c)
  BY <1>2 DEF S!QuotaEdit
<1>6. S!QuotaEdit(z, c) = S!Unchanged(e)
  BY <1>1, <1>4, <1>5, DecidedStays
<1> QED BY <1>1, <1>3, <1>6, RetainsKeeps DEF Decided

\* A root that is set up has nothing to write.
LEMMA NothingToWrite ==
  ASSUME Markers, NEW b, NEW c, Ready(b, c), NEW z,
         S!Editable(z) = S!Editable(b), z[S!Editable(b)] = Copied(b, c),
         S!IsConfig(z["plugin"]), z["plugin"].section = S!QuotaEdit(b, c).section,
         S!Interface(c) => z["tui"] = S!PluginAdded(b["tui"])
  PROVE  /\ \A i \in DOMAIN S!Plan(z, c) : ~S!Plan(z, c)[i].changed
         /\ z[S!Editable(z)].plugin = "quota"
<1> PICK k : k = S!Editable(b) OBVIOUS
<1> PICK t : t = Copied(b, c) OBVIOUS
<1> PICK e : e = S!QuotaEdit(b, c).section OBVIOUS
<1>1. S!QuotaEdit(z, c).section = e /\ S!QuotaEdit(z, c).changed = FALSE
  BY PluginWritten DEF S!Unchanged
<1>2. Listed(t) /\ S!PluginAdded(t) = t /\ t.plugin = "quota"
  BY CopiedListed, ListedStays
<1>3. Copied(z, c) = t
  <2>1. Copied(z, c) = IF c.sync THEN S!Synced(t, e) ELSE t
    BY <1>1, <1>2 DEF Copied
  <2>2. c.sync => S!Synced(t, e) = t
    <3>1. PICK added : added = S!PluginAdded(b[k])
      OBVIOUS
    <3>2. Listed(added)
      BY <3>1, ReadyFiles, PluginListed
    <3>3. c.sync => t = S!Synced(added, e)
      BY <3>1 DEF Copied
    <3> QED BY <3>2, <3>3, SyncedListed
  <2> QED BY <2>1, <2>2
<1>4. ~S!FileEdit(k, z[k], Copied(z, c)).changed
  BY <1>3 DEF S!FileEdit
<1>5. ~PluginEdit(z, c).changed
  BY <1>1 DEF PluginEdit
<1>6. S!Interface(c) => ~S!FileEdit("tui", z["tui"], S!PluginAdded(z["tui"])).changed
  <2>1. S!Interface(c) => Listed(z["tui"])
    BY ReadyFiles, PluginListed
  <2>2. S!Interface(c) => S!PluginAdded(z["tui"]) = z["tui"]
    BY <2>1, ListedStays
  <2> QED BY <2>2 DEF S!FileEdit
<1>7. PICK e1, e2, e3 : /\ e1 = S!FileEdit(k, z[k], Copied(z, c)) /\ e2 = PluginEdit(z, c)
                        /\ e3 = S!FileEdit("tui", z["tui"], S!PluginAdded(z["tui"]))
  OBVIOUS
<1>8. S!Plan(z, c) = IF S!Interface(c) THEN <<e1, e2, e3>> ELSE <<e1, e2>>
  BY <1>7, Planned
<1>9. \A i \in DOMAIN S!Plan(z, c) : ~S!Plan(z, c)[i].changed
  BY <1>4, <1>5, <1>6, <1>7, <1>8
<1> QED BY <1>2, <1>9

------------------------------------------------------------------------------
(* The setup as a whole.                                                    *)

\* The files of the installer's root, and what is left of the plan.
SetupAt(b, root) ==
  \/ /\ setupStage = "failed" /\ S!ProperRoot(b) /\ root = b
  \/ /\ Ready(b, choice)
     /\ \/ /\ setupStage \in {"planned", "failed"} /\ root = b
           /\ setupStage = "planned" => plan = S!Plan(b, choice)
        \/ /\ setupStage \in {"planned", "failed"} /\ root = First(b, choice)
           /\ setupStage = "planned" => plan = Tail(S!Plan(b, choice))
        \/ /\ setupStage \in {"planned", "failed", "done"} /\ root = Second(b, choice)
           /\ setupStage = "planned" => plan = Tail(Tail(S!Plan(b, choice)))
           /\ setupStage = "done" => ~S!Interface(choice)
        \/ /\ setupStage \in {"planned", "done"} /\ S!Interface(choice) /\ root = Third(b, choice)
           /\ setupStage = "planned" => plan = <<>>

\* What is loaded is what the files say, and the plan is written in its order.
SetupInv ==
  /\ LoadInv
  /\ S!Proper(configs)
  /\ choice \in Answers
  /\ setupStage # "ready" => SetupAt(before[choice.root], configs[choice.root])

LEMMA InitSetup == S!InstallerInit => SetupInv
<1> SUFFICES ASSUME S!InstallerInit PROVE SetupInv
  OBVIOUS
<1>1. candidate = 0 /\ configReading = FALSE /\ acc = S!Blank
  BY DEF S!InstallerInit, S!ConfigurationInit
<1>2. LoadInv
  <2>1. Gathered(acc) /\ candidate \in Nat /\ ~(candidate > 0) /\ configReading = FALSE
    BY <1>1, FollowsBlank
  <2> QED BY <2>1 DEF LoadInv
<1>3. S!Proper(configs) /\ choice \in Answers /\ setupStage = "ready"
  BY FilesAssumption DEF S!InstallerInit
<1> QED BY <1>2, <1>3 DEF SetupInv

\* One root changes, to files that there may be.
LEMMA ProperStays ==
  ASSUME S!Proper(configs), NEW r \in S!Roots, NEW root, S!ProperRoot(root),
         configs' = [configs EXCEPT ![r] = root]
  PROVE  S!Proper(configs') /\ configs'[r] = root
<1>1. configs = [r1 \in S!Roots |-> configs[r1]]
  BY DEF S!Proper
<1>2. configs' = [r1 \in S!Roots |-> configs'[r1]]
  BY <1>1
<1>3. configs'[r] = root /\ \A r1 \in S!Roots : r1 # r => configs'[r1] = configs[r1]
  BY <1>1
<1>4. \A r1 \in S!Roots : S!ProperRoot(configs'[r1])
  BY <1>3 DEF S!Proper
<1> QED BY <1>2, <1>3, <1>4 DEF S!Proper

LEMMA EditIsProper ==
  ASSUME S!Proper(configs), S!Edit
  PROVE  S!Proper(configs')
<1>1. PICK r \in S!Roots, k \in S!Kinds : \E content \in S!Contents(k) : configs' = [configs EXCEPT ![r][k] = content]
  BY DEF S!Edit
<1>2. PICK content \in S!Contents(k) : configs' = [configs EXCEPT ![r][k] = content]
  BY <1>1
<1>3. PICK root : root = [configs[r] EXCEPT ![k] = content]
  OBVIOUS
<1>4. S!ProperRoot(configs[r])
  BY DEF S!Proper
<1>5. configs[r] = [k1 \in S!Kinds |-> configs[r][k1]]
  BY <1>4 DEF S!ProperRoot
<1>6. root = [k1 \in S!Kinds |-> root[k1]] /\ root[k] = content /\ \A k1 \in S!Kinds : k1 # k => root[k1] = configs[r][k1]
  BY <1>3, <1>5
<1>7. S!IsConfig(content) =>
        /\ content = [section |-> content.section, plugin |-> content.plugin, schema |-> content.schema]
        /\ k = "plugin" => content.section # NoSection
  BY FilesAssumption DEF S!Contents, S!IsConfig
<1>8. S!ProperRoot(root)
  BY <1>4, <1>6, <1>7 DEF S!ProperRoot
<1>9. configs' = [configs EXCEPT ![r] = root]
  <2>1. configs = [r1 \in S!Roots |-> configs[r1]]
    BY DEF S!Proper
  <2> QED BY <1>2, <1>3, <2>1
<1> QED BY <1>8, <1>9, ProperStays

LEMMA WriteIsNext ==
  ASSUME Markers, SetupInv, S!WriteEdit
  PROVE  S!Proper(configs') /\ SetupAt(before[choice.root], configs[choice.root])'
<1> PICK b : b = before[choice.root] OBVIOUS
<1> PICK root : root = configs[choice.root] OBVIOUS
<1> PICK c : c = choice OBVIOUS
<1>1. /\ setupStage = "planned" /\ plan # <<>> /\ configs' = [configs EXCEPT ![c.root] = S!Written(@, Head(plan))]
      /\ plan' = Tail(plan) /\ UNCHANGED <<choice, setupStage, before>>
  BY DEF S!WriteEdit
<1>2. c.root \in S!Roots /\ S!Proper(configs) /\ SetupAt(b, root)
  BY <1>1, FilesAssumption DEF SetupInv
<1>3. configs' = [configs EXCEPT ![c.root] = S!Written(root, Head(plan))]
  BY <1>1, <1>2 DEF S!Proper
<1>4. PICK e1, e2, e3 : /\ e1 = S!FileEdit(S!Editable(b), b[S!Editable(b)], Copied(b, c)) /\ e2 = PluginEdit(b, c)
                        /\ e3 = S!FileEdit("tui", b["tui"], S!PluginAdded(b["tui"]))
  OBVIOUS
<1>5. S!Plan(b, c) = IF S!Interface(c) THEN <<e1, e2, e3>> ELSE <<e1, e2>>
  BY <1>4, Planned
<1>6. ASSUME NEW new, S!ProperRoot(new), S!Written(root, Head(plan)) = new
      PROVE  S!Proper(configs') /\ configs'[c.root] = new
  BY <1>2, <1>3, <1>6, ProperStays
<1>7. Ready(b, c)
  BY <1>1, <1>2 DEF SetupAt
<1>8. CASE root = b /\ plan = S!Plan(b, c)
  <2>1. Head(plan) = e1 /\ Tail(plan) = Tail(S!Plan(b, c))
    BY <1>5, <1>8
  <2>2. S!ProperRoot(First(b, c)) /\ S!Written(root, Head(plan)) = First(b, c)
    BY <1>4, <1>7, <1>8, <2>1, FirstFiles
  <2>3. S!Proper(configs') /\ configs'[c.root] = First(b, c)
    BY <1>6, <2>2
  <2> QED BY <1>1, <1>7, <2>1, <2>3 DEF SetupAt
<1>9. CASE root = First(b, c) /\ plan = Tail(S!Plan(b, c))
  <2>1. Head(plan) = e2 /\ Tail(plan) = Tail(Tail(S!Plan(b, c)))
    BY <1>5, <1>9
  <2>2. S!Written(root, Head(plan)) = Second(b, c)
    BY <1>4, <1>9, <2>1 DEF Second
  <2>3. S!ProperRoot(Second(b, c))
    BY <1>7, SecondFiles
  <2>4. S!Proper(configs') /\ configs'[c.root] = Second(b, c)
    BY <1>6, <2>2, <2>3
  <2> QED BY <1>1, <1>7, <2>1, <2>4 DEF SetupAt
<1>10. CASE root = Second(b, c) /\ plan = Tail(Tail(S!Plan(b, c)))
  <2>1. S!Interface(c) /\ Head(plan) = e3 /\ Tail(plan) = <<>>
    BY <1>1, <1>5, <1>10
  <2>2. S!ProperRoot(Third(b, c)) /\ S!Written(root, Head(plan)) = Third(b, c)
    <3>1. /\ S!ProperRoot(Third(b, c))
          /\ S!Written(Second(b, c), S!FileEdit("tui", b["tui"], S!PluginAdded(b["tui"]))) = Third(b, c)
      BY <1>7, <2>1, ThirdFiles
    <3>2. S!Written(root, Head(plan)) = S!Written(Second(b, c), S!FileEdit("tui", b["tui"], S!PluginAdded(b["tui"])))
      BY <1>4, <1>10, <2>1
    <3> QED BY <3>1, <3>2
  <2>3. S!Proper(configs') /\ configs'[c.root] = Third(b, c)
    BY <1>6, <2>2
  <2> QED BY <1>1, <1>7, <2>1, <2>3 DEF SetupAt
<1> QED BY <1>1, <1>2, <1>8, <1>9, <1>10 DEF SetupAt

LEMMA SetupStep == ASSUME Markers, SetupInv, [S!InstallerNext]_setupVars PROVE SetupInv'
<1> PICK b : b = before[choice.root] OBVIOUS
<1> PICK root : root = configs[choice.root] OBVIOUS
<1>1. choice' = choice /\ choice.root \in S!Roots
  BY FilesAssumption DEF SetupInv, S!InstallerNext, S!PlanInstall, S!Cancel, S!WriteEdit, S!EndInstall,
                         S!WriteFails, S!UserEdits, S!Loads, setupVars
<1>2. LoadInv'
  BY <1>1, LoadStep DEF SetupInv
<1>3. S!ProperRoot(root)
  BY <1>1 DEF SetupInv, S!Proper
<1>4. ASSUME UNCHANGED configs PROVE S!Proper(configs')
  BY <1>4 DEF SetupInv
<1>5. CASE S!PlanInstall
  <2>1. UNCHANGED <<configs, choice>> /\ before' = configs
    BY <1>5 DEF S!PlanInstall, S!fileVars
  <2>2. before'[choice'.root] = root /\ configs'[choice'.root] = root
    BY <2>1
  <2>3. \/ S!Throws(root, choice) /\ setupStage' = "failed"
        \/ ~S!Throws(root, choice) /\ setupStage' = "planned" /\ plan' = S!Plan(root, choice)
    BY <1>5 DEF S!PlanInstall
  <2>4. SetupAt(before[choice.root], configs[choice.root])'
    BY <1>3, <2>1, <2>2, <2>3 DEF SetupAt, Ready
  <2> QED BY <1>2, <1>4, <2>1, <2>4 DEF SetupInv
<1>6. CASE S!Cancel
  <2>1. /\ setupStage = "planned" /\ configs = before /\ setupStage' = "failed"
        /\ UNCHANGED <<configs, choice, plan, before>>
    BY <1>6 DEF S!Cancel, S!fileVars
  <2>2. SetupAt(before[choice.root], configs[choice.root])'
    BY <1>3, <2>1 DEF SetupAt
  <2> QED BY <1>2, <1>4, <2>1, <2>2 DEF SetupInv
<1>7. CASE S!WriteEdit
  BY <1>1, <1>2, <1>7, WriteIsNext DEF SetupInv
<1>8. CASE S!EndInstall
  <2>1. /\ setupStage = "planned" /\ plan = <<>> /\ setupStage' = "done"
        /\ UNCHANGED <<configs, choice, plan, before>>
    BY <1>8 DEF S!EndInstall, S!fileVars
  <2>2. SetupAt(b, root)
    BY <2>1 DEF SetupInv
  <2>3. PICK e1, e2, e3 : S!Plan(b, choice) = IF S!Interface(choice) THEN <<e1, e2, e3>> ELSE <<e1, e2>>
    BY Planned
  <2>4. /\ S!Plan(b, choice) # <<>> /\ Tail(S!Plan(b, choice)) # <<>>
        /\ S!Interface(choice) => Tail(Tail(S!Plan(b, choice))) # <<>>
    BY <2>3
  <2>5. SetupAt(before[choice.root], configs[choice.root])'
    BY <2>1, <2>2, <2>4 DEF SetupAt, Ready
  <2> QED BY <1>2, <1>4, <2>1, <2>5 DEF SetupInv
<1>9. CASE S!WriteFails
  <2>1. /\ setupStage = "planned" /\ plan # <<>> /\ setupStage' = "failed"
        /\ UNCHANGED <<configs, choice, plan, before>>
    BY <1>9 DEF S!WriteFails, S!fileVars
  <2>2. SetupAt(b, root)
    BY <2>1 DEF SetupInv
  <2>3. SetupAt(before[choice.root], configs[choice.root])'
    BY <2>1, <2>2 DEF SetupAt, Ready
  <2> QED BY <1>2, <1>4, <2>1, <2>3 DEF SetupInv
<1>10. CASE S!UserEdits
  <2>1. S!Edit /\ setupStage' = "ready" /\ choice' = choice
    BY <1>10 DEF S!UserEdits
  <2>2. S!Proper(configs')
    BY <2>1, EditIsProper DEF SetupInv
  <2> QED BY <1>2, <2>1, <2>2 DEF SetupInv
<1>11. CASE S!Loads \/ UNCHANGED setupVars
  <2>1. UNCHANGED <<configs, choice, setupStage, plan, before>>
    BY <1>11 DEF S!Loads, S!Load, S!LoadBegin, S!LookAt, S!ReadFile, S!LoadEnd, S!fileVars, setupVars
  <2>2. SetupAt(b, root) => SetupAt(before[choice.root], configs[choice.root])'
    BY <2>1 DEF SetupAt, Ready
  <2> QED BY <1>2, <1>4, <2>1, <2>2 DEF SetupInv
<1> QED BY <1>5, <1>6, <1>7, <1>8, <1>9, <1>10, <1>11 DEF S!InstallerNext

\* At every stage the user's settings take effect as before.
LEMMA SetupKeeps == ASSUME Markers, SetupInv PROVE S!SetupKeepsSettings
<1> PICK b : b = before[choice.root] OBVIOUS
<1> PICK root : root = configs[choice.root] OBVIOUS
<1> SUFFICES ASSUME setupStage # "ready" PROVE Keeps(S!Applying(b), S!Applying(root))
  BY DEF S!SetupKeepsSettings, Keeps
<1>1. SetupAt(b, root)
  BY DEF SetupInv
<1>2. CASE root = b
  BY <1>2 DEF Keeps
<1>3. CASE Ready(b, choice) /\ root = First(b, choice)
  BY <1>3, FirstKeeps
<1>4. CASE Ready(b, choice) /\ root = Second(b, choice)
  BY <1>4, SecondFiles, PluginWritten
<1>5. CASE Ready(b, choice) /\ S!Interface(choice) /\ root = Third(b, choice)
  BY <1>5, ThirdFiles, PluginWritten
<1> QED BY <1>1, <1>2, <1>3, <1>4, <1>5 DEF SetupAt

LEMMA SetupEnds == ASSUME Markers, SetupInv PROVE S!SetupSettles
<1> PICK b : b = before[choice.root] OBVIOUS
<1> PICK root : root = configs[choice.root] OBVIOUS
<1> SUFFICES ASSUME setupStage = "done"
             PROVE  /\ \A i \in DOMAIN S!Plan(root, choice) : ~S!Plan(root, choice)[i].changed
                    /\ root[S!Editable(root)].plugin = "quota"
                    /\ S!Applying(root)["enableToast"].v = choice.toast
  BY DEF S!SetupSettles
<1>1. /\ Ready(b, choice)
      /\ \/ root = Second(b, choice) /\ ~S!Interface(choice)
         \/ root = Third(b, choice) /\ S!Interface(choice)
  BY DEF SetupInv, SetupAt
<1>2. /\ S!Editable(root) = S!Editable(b) /\ root[S!Editable(b)] = Copied(b, choice)
      /\ S!IsConfig(root["plugin"]) /\ root["plugin"].section = S!QuotaEdit(b, choice).section
      /\ S!Interface(choice) => root["tui"] = S!PluginAdded(b["tui"])
  BY <1>1, SecondFiles, ThirdFiles
<1> QED BY <1>1, <1>2, NothingToWrite, PluginWritten

------------------------------------------------------------------------------
(* Local estimates: a journal keeps what was recorded, and the latest of it. *)

Recorders == {"idle", "reading", "writing", "done"}
Times == UNION {[kept -> Nat \cup {L!Unreadable}] : kept \in SUBSET Recording}
RecordingsDone == {r \in Recording : estimatePc[r] = "done"}
DoneOn(day) == {r \in RecordingsDone : recordedAt[r] \div Day = day}

EstimateTypes ==
  /\ estimateNow \in Nat
  /\ journal \in {NoFile} \cup L!Journal
  /\ estimatePc \in [Recording -> Recorders]
  /\ recordedAt \in [Recording -> Nat]
  /\ estimateLoaded \in [Recording -> {NoFile} \cup L!Journal]
  /\ exact \in BOOLEAN

\* What a file says was recorded by a recording that is done.
OnRecord(j) ==
  j # NoFile => /\ DOMAIN j.recent \subseteq RecordingsDone
                /\ j.count # L!Unreadable => j.count <= Cardinality(DoneOn(j.day))

\* The recordings that a list has, or that fall out of its windows, or that it has as
\* many later ones for as it can hold.
Accounted(list, d, t) ==
  \/ d \in list
  \/ recordedAt[d] < t - Longest
  \/ Cardinality({x \in list : recordedAt[d] <= recordedAt[x]}) >= Cap
Younger(age) == \A x, y \in DOMAIN age : age[x] < age[y] => recordedAt[y] <= recordedAt[x]

\* A file that has all recordings that are done, or the latest.
HoldsLatest(j) ==
  IF j = NoFile THEN RecordingsDone = {}
  ELSE /\ j.recent \in [DOMAIN j.recent -> Nat] /\ Younger(j.recent)
       /\ \E last \in RecordingsDone :
            /\ j.day = recordedAt[last] \div Day
            /\ \A d \in RecordingsDone : recordedAt[d] <= recordedAt[last] /\ Accounted(DOMAIN j.recent, d, recordedAt[last])
       /\ j.count = Cardinality(DoneOn(j.day))

\* Recordings that do not overlap.
OneByOne ==
  /\ \A r, s \in Recording :
       estimatePc[r] \in {"reading", "writing"} /\ estimatePc[s] \in {"reading", "writing"} => r = s
  /\ \A r \in Recording : estimatePc[r] # "idle" => recordedAt[r] <= estimateNow
  /\ \A r \in Recording : estimatePc[r] \in {"reading", "writing"} => \A d \in RecordingsDone : recordedAt[d] <= recordedAt[r]
  /\ \A r \in Recording : estimatePc[r] = "writing" => estimateLoaded[r] = journal
  /\ HoldsLatest(journal)

EstimateInv ==
  /\ EstimateTypes
  /\ OnRecord(journal) /\ \A r \in Recording : OnRecord(estimateLoaded[r])
  /\ exact => OneByOne

\* Times are times of some recordings.
LEMMA TimesAre ==
  \A age : age \in Times <=> DOMAIN age \subseteq Recording /\ age \in [DOMAIN age -> Nat \cup {L!Unreadable}]
BY DEF Times

LEMMA JournalsAre ==
  L!Journal = [day : Int, count : Nat \cup {L!Unreadable}, recent : Times] /\ NoFile \notin L!Journal
BY JournalAssumption DEF L!Journal, Times

LEMMA RecordingsFinite ==
  ASSUME NEW T \in SUBSET Recording
  PROVE  IsFiniteSet(T) /\ Cardinality(T) \in Nat /\ \A R \in SUBSET T : Cardinality(R) <= Cardinality(T)
BY JournalAssumption, FS_Subset, FS_CardinalityType

\* The sizes that the module takes are those that the library's theorems are about.
LEMMA SameSize == \A T : L!Cardinality(T) = Cardinality(T)
BY DEF L!Cardinality, Cardinality

\* A later time is on no earlier day.
LEMMA DaysGoOn ==
  ASSUME NEW a \in Nat, NEW b \in Nat, a <= b
  PROVE  a \div Day <= b \div Day /\ a \div Day \in Nat /\ b \div Day \in Nat
<1> DEFINE d == Day
<1>1. d \in Nat /\ d > 0
  BY JournalAssumption
<1> HIDE DEF d
<1>2. a \div d <= b \div d /\ a \div d \in Nat /\ b \div d \in Nat
  BY <1>1
<1> QED  BY <1>2 DEF d

\* What was used up leaves nothing.
LEMMA NothingRemains ==
  ASSUME NEW used \in Nat, NEW limit \in Nat, used >= limit
  PROVE  L!PercentRemaining(used, limit) = 0
<1>1. CASE limit = 0  BY <1>1 DEF L!PercentRemaining
<1>2. CASE limit > 0
  <2> DEFINE over == (limit - used) * 100
             percent == over \div limit
  <2>1. over \in Int /\ over <= 0  OBVIOUS
  <2>2. percent \in Int /\ percent <= 0
    <3> HIDE DEF over
    <3> QED  BY <1>2, <2>1
  <2>3. L!PercentRemaining(used, limit) = IF percent < 0 THEN 0 ELSE IF percent > 100 THEN 100 ELSE percent
    BY <1>2 DEF L!PercentRemaining
  <2> HIDE DEF percent
  <2> QED  BY <2>2, <2>3
<1> QED  BY <1>1, <1>2

\* The last of some times are those that few come after.
After(age, x) == {y \in DOMAIN age : age[y] < age[x]}
Since(list, b) == {x \in list : b <= recordedAt[x]}

LEMMA LastIs ==
  ASSUME NEW age
  PROVE  /\ DOMAIN L!Last(age) = {x \in DOMAIN age : Cardinality(After(age, x)) < Cap}
         /\ L!Last(age) = [r \in DOMAIN L!Last(age) |-> age[r]]
<1>1. L!Last(age) = [r \in {x \in DOMAIN age : Cardinality(After(age, x)) < Cap} |-> age[r]]
  BY SameSize DEF L!Last, After
<1> QED  BY <1>1

\* Of as many as fit that are not earlier than some time, as many as fit are kept.
LEMMA LastKeepsLatest ==
  ASSUME NEW age, DOMAIN age \subseteq Recording, age \in [DOMAIN age -> Nat], recordedAt \in [Recording -> Nat],
         Younger(age), NEW b \in Nat, Cardinality(Since(DOMAIN age, b)) >= Cap
  PROVE  Cardinality(Since(DOMAIN L!Last(age), b)) >= Cap
<1> DEFINE late == Since(DOMAIN age, b)
           kept == Since(DOMAIN L!Last(age), b)
           lost == {x \in late : x \notin kept}
<1>1. DOMAIN L!Last(age) = {x \in DOMAIN age : Cardinality(After(age, x)) < Cap}
  BY LastIs
<1>2. kept \in SUBSET Recording /\ \A x : After(age, x) \in SUBSET Recording
  BY <1>1 DEF After, Since
<1>3. CASE lost = {}
  <2>1. late = kept  BY <1>1, <1>3 DEF Since
  <2> QED  BY <2>1
<1>4. CASE lost # {}
  <2> DEFINE sizes == {Cardinality(After(age, x)) : x \in lost}
  <2>1. sizes \subseteq Nat /\ sizes # {}
    <3>1. \A x : Cardinality(After(age, x)) \in Nat
      BY <1>2, RecordingsFinite
    <3> QED  BY <3>1, <1>4
  <2>2. PICK n \in sizes : \A k \in sizes : <<k, n>> \notin OpToRel(<, Nat)
    <3> HIDE DEF sizes
    <3>1. IsWellFoundedOn(OpToRel(<, Nat), Nat)  BY NatLessThanWellFounded
    <3> QED  BY <2>1, <3>1, WFMin
  <2>3. PICK m \in lost : n = Cardinality(After(age, m))
    OBVIOUS
  <2>4. \A x \in lost : ~(Cardinality(After(age, x)) < Cardinality(After(age, m)))
    BY <2>1, <2>2, <2>3 DEF OpToRel
  <2>5. m \in DOMAIN age /\ b <= recordedAt[m] /\ Cardinality(After(age, m)) \in Nat /\ Cardinality(After(age, m)) >= Cap
    <3>1. m \in DOMAIN age /\ b <= recordedAt[m] /\ ~(Cardinality(After(age, m)) < Cap)
      BY <1>1, <2>3 DEF Since
    <3>2. Cardinality(After(age, m)) \in Nat
      BY <1>2, RecordingsFinite
    <3> QED  BY <3>1, <3>2, JournalAssumption
  <2>6. ASSUME NEW y \in After(age, m) PROVE y \in kept
    <3>1. y \in DOMAIN age /\ age[y] < age[m]
      BY <2>6 DEF After
    <3>2. y \in late
      BY <2>5, <3>1 DEF Younger, Since
    <3>3. After(age, y) \subseteq After(age, m) /\ y \in After(age, m) /\ y \notin After(age, y)
      BY <2>5, <3>1 DEF After
    <3>4. Cardinality(After(age, y)) < Cardinality(After(age, m))
      <4>1. IsFiniteSet(After(age, m))
        BY <1>2, RecordingsFinite
      <4> QED  BY <3>3, <4>1, FS_Subset, FS_CardinalityType
    <3> QED  BY <2>4, <3>2, <3>4
  <2>7. Cardinality(After(age, m)) <= Cardinality(kept) /\ Cardinality(kept) \in Nat
    <3>1. After(age, m) \in SUBSET kept
      BY <2>6
    <3> HIDE DEF kept
    <3> QED  BY <1>2, <3>1, RecordingsFinite
  <2>8. Cardinality(kept) >= Cap
    <3> HIDE DEF kept
    <3> QED  BY <2>5, <2>7, JournalAssumption
  <2> QED  BY <2>8
<1> QED  BY <1>3, <1>4

\* A list has a recording, or as many later ones as it can hold.
Covered(list, d) == d \in list \/ Cardinality(Since(list, recordedAt[d])) >= Cap

LEMMA LastCovers ==
  ASSUME NEW age, DOMAIN age \subseteq Recording, age \in [DOMAIN age -> Nat], recordedAt \in [Recording -> Nat],
         Younger(age), NEW d \in Recording, Covered(DOMAIN age, d)
  PROVE  Covered(DOMAIN L!Last(age), d)
<1>1. CASE Cardinality(Since(DOMAIN age, recordedAt[d])) >= Cap
  BY <1>1, LastKeepsLatest DEF Covered
<1>2. CASE d \in DOMAIN age
  <2>1. CASE Cardinality(After(age, d)) < Cap
    BY <1>2, <2>1, LastIs DEF Covered
  <2>2. CASE ~(Cardinality(After(age, d)) < Cap)
    <3>1. After(age, d) \in SUBSET Since(DOMAIN age, recordedAt[d])
      BY <1>2 DEF After, Since, Younger
    <3>2. Since(DOMAIN age, recordedAt[d]) \in SUBSET Recording /\ After(age, d) \in SUBSET Recording
      BY DEF Since, After
    <3>3. Cardinality(Since(DOMAIN age, recordedAt[d])) >= Cap
      BY <2>2, <3>1, <3>2, RecordingsFinite, JournalAssumption
    <3> QED  BY <3>3, LastKeepsLatest DEF Covered
  <2> QED  BY <2>1, <2>2
<1> QED  BY <1>1, <1>2 DEF Covered

\* Of a list, the last and those of a window keep their ages and their order.
LEMMA LastIsTimes ==
  ASSUME NEW age, DOMAIN age \subseteq Recording, age \in [DOMAIN age -> Nat]
  PROVE  /\ DOMAIN L!Last(age) \subseteq DOMAIN age /\ L!Last(age) \in [DOMAIN L!Last(age) -> Nat]
         /\ L!Last(age) \in Times
         /\ Younger(age) => Younger(L!Last(age))
<1>1. DOMAIN L!Last(age) \subseteq DOMAIN age /\ \A r \in DOMAIN L!Last(age) : L!Last(age)[r] = age[r]
  BY LastIs
<1>2. L!Last(age) = [r \in DOMAIN L!Last(age) |-> L!Last(age)[r]]
  BY LastIs
<1>3. L!Last(age) \in [DOMAIN L!Last(age) -> Nat]
  BY <1>1, <1>2
<1>4. L!Last(age) \in Times
  BY <1>1, <1>3, TimesAre
<1> QED  BY <1>1, <1>3, <1>4 DEF Younger

LEMMA WithinIs ==
  ASSUME NEW age, DOMAIN age \subseteq Recording, age \in [DOMAIN age -> Nat], NEW length, NEW t
  PROVE  /\ \A x : x \in DOMAIN L!Within(age, length, t) <=> x \in DOMAIN age /\ recordedAt[x] \in (t - length)..t
         /\ L!Within(age, length, t) \in [DOMAIN L!Within(age, length, t) -> Nat]
         /\ Younger(age) => Younger(L!Within(age, length, t))
BY DEF L!Within, Younger

\* What a read makes of a file: the day, a count, and times of a window that the file
\* has, that were all recorded if it is backed.
LEMMA ReadIs ==
  ASSUME EstimateTypes, NEW j \in {NoFile} \cup L!Journal, OnRecord(j), NEW t \in Nat
  PROVE  LET s == L!Read(j, t)
             list == IF j = NoFile THEN L!NoTimes
                     ELSE [r \in {x \in DOMAIN j.recent : j.recent[x] # L!Unreadable} |-> j.recent[r]]
         IN  /\ s.day = t \div Day /\ t \div Day \in Nat
             /\ s.recent = L!Last(L!Within(list, Longest, t))
             /\ s.count = IF j = NoFile \/ (j # NoFile /\ (j.count = L!Unreadable \/ (j.day # L!Unreadable /\ j.day # t \div Day)))
                          THEN 0 ELSE j.count
             /\ DOMAIN list \subseteq RecordingsDone /\ list \in [DOMAIN list -> Nat]
             /\ DOMAIN s.recent \subseteq {d \in RecordingsDone : recordedAt[d] \in (t - Longest)..t}
             /\ s.recent \in [DOMAIN s.recent -> Nat]
<1> DEFINE s == L!Read(j, t)
           list == IF j = NoFile THEN L!NoTimes
                   ELSE [r \in {x \in DOMAIN j.recent : j.recent[x] # L!Unreadable} |-> j.recent[r]]
           near == L!Within(list, Longest, t)
<1>1. t \div Day \in Nat
  BY DaysGoOn
<1>2. DOMAIN list \subseteq RecordingsDone /\ DOMAIN list \subseteq Recording /\ list \in [DOMAIN list -> Nat]
  <2>1. CASE j = NoFile  BY <2>1 DEF L!NoTimes
  <2>2. CASE j # NoFile
    <3>1. j.recent \in [DOMAIN j.recent -> Nat \cup {L!Unreadable}] /\ DOMAIN j.recent \subseteq RecordingsDone
      BY <2>2, JournalsAre, TimesAre DEF OnRecord
    <3> QED  BY <2>2, <3>1 DEF RecordingsDone
  <2> QED  BY <2>1, <2>2
<1>3. s.day = t \div Day /\ s.recent = L!Last(near)
      /\ s.count = IF j = NoFile \/ (j # NoFile /\ (j.count = L!Unreadable \/ (j.day # L!Unreadable /\ j.day # t \div Day)))
                   THEN 0 ELSE j.count
  BY DEF L!Read, L!Pruned, L!Normalized, L!Default
<1> HIDE DEF list, s
<1>4. (\A x : x \in DOMAIN near <=> x \in DOMAIN list /\ recordedAt[x] \in (t - Longest)..t) /\ near \in [DOMAIN near -> Nat]
  BY <1>2, WithinIs
<1> HIDE DEF near
<1>5. DOMAIN L!Last(near) \subseteq DOMAIN near /\ L!Last(near) \in [DOMAIN L!Last(near) -> Nat]
  BY <1>2, <1>4, LastIsTimes
<1>6. DOMAIN s.recent \subseteq {d \in RecordingsDone : recordedAt[d] \in (t - Longest)..t}
  BY <1>2, <1>3, <1>4, <1>5
<1>7. s.recent \in [DOMAIN s.recent -> Nat]
  BY <1>3, <1>5
<1> QED  BY <1>1, <1>2, <1>3, <1>6, <1>7 DEF s, list, near

\* A count of a day is of recordings of that day.
LEMMA ReadCounts ==
  ASSUME EstimateTypes, NEW j \in {NoFile} \cup L!Journal, OnRecord(j), NEW t \in Nat
  PROVE  L!Read(j, t).count \in Nat /\ L!Read(j, t).count <= Cardinality(DoneOn(t \div Day))
<1> DEFINE s == L!Read(j, t)
<1>1. t \div Day \in Nat /\ s.count = IF j = NoFile \/ (j # NoFile /\ (j.count = L!Unreadable \/ (j.day # L!Unreadable /\ j.day # t \div Day)))
                   THEN 0 ELSE j.count
  BY ReadIs
<1> HIDE DEF s
<1>2. \A day : DoneOn(day) \in SUBSET Recording /\ Cardinality(DoneOn(day)) \in Nat
  <2>1. \A day : DoneOn(day) \in SUBSET Recording
    BY DEF DoneOn, RecordingsDone
  <2> QED  BY <2>1, RecordingsFinite
<1>3. CASE s.count = 0
  BY <1>1, <1>2, <1>3 DEF s
<1>4. CASE s.count # 0
  <2>1. j \in L!Journal /\ j # NoFile /\ j.count # L!Unreadable /\ s.count = j.count /\ (j.day = L!Unreadable \/ j.day = t \div Day)
    BY <1>1, <1>4
  <2>2. j.count \in Nat /\ j.count <= Cardinality(DoneOn(j.day))
    BY <2>1, JournalsAre DEF OnRecord
  <2>3. CASE j.day = t \div Day
    BY <2>1, <2>2, <2>3 DEF s
  <2>4. CASE j.day = L!Unreadable
    <3>1. \A d \in RecordingsDone : recordedAt[d] \div Day # L!Unreadable
      BY DaysGoOn DEF EstimateTypes, RecordingsDone, L!Unreadable
    <3>2. DoneOn(j.day) = {}
      BY <2>4, <3>1 DEF DoneOn
    <3> QED  BY <1>4, <2>1, <2>2, <3>2, FS_EmptySet
  <2> QED  BY <2>1, <2>3, <2>4
<1> QED  BY <1>3, <1>4

\* Of a file with all recordings that are done, or the latest, and of times that go
\* forward, a read has the latest, and counts those of its day.
LEMMA ReadHasLatest ==
  ASSUME EstimateTypes, journal \in {NoFile} \cup L!Journal, OnRecord(journal), HoldsLatest(journal), NEW t \in Nat,
         \A d \in RecordingsDone : recordedAt[d] <= t
  PROVE  LET s == L!Read(journal, t)
         IN  /\ Younger(s.recent)
             /\ \A d \in RecordingsDone : recordedAt[d] < t - Longest \/ Covered(DOMAIN s.recent, d)
             /\ s.count = Cardinality(DoneOn(t \div Day))
<1> DEFINE s == L!Read(journal, t)
           list == IF journal = NoFile THEN L!NoTimes
                   ELSE [r \in {x \in DOMAIN journal.recent : journal.recent[x] # L!Unreadable} |-> journal.recent[r]]
           near == L!Within(list, Longest, t)
<1>1. /\ t \div Day \in Nat
      /\ s.recent = L!Last(near)
      /\ s.count = IF journal = NoFile \/ (journal # NoFile /\ (journal.count = L!Unreadable \/ (journal.day # L!Unreadable /\ journal.day # t \div Day)))
                   THEN 0 ELSE journal.count
      /\ DOMAIN list \subseteq RecordingsDone /\ list \in [DOMAIN list -> Nat]
  BY ReadIs
<1> HIDE DEF s
<1>2. DOMAIN list \subseteq Recording /\ recordedAt \in [Recording -> Nat]
  BY <1>1 DEF RecordingsDone, EstimateTypes
<1>3. CASE journal = NoFile
  <2>1. RecordingsDone = {}
    BY <1>3 DEF HoldsLatest
  <2>2. DOMAIN list = {}
    BY <1>3 DEF L!NoTimes
  <2>3. Younger(list)
    BY <2>2 DEF Younger
  <2> HIDE DEF list
  <2>4. Younger(near) /\ near \in [DOMAIN near -> Nat] /\ DOMAIN near \subseteq Recording
    BY <1>1, <1>2, <2>3, WithinIs
  <2> HIDE DEF near
  <2>5. Younger(s.recent)
    BY <1>1, <2>4, LastIsTimes
  <2>6. DoneOn(t \div Day) = {}
    BY <2>1 DEF DoneOn
  <2>7. s.count = Cardinality(DoneOn(t \div Day))
    BY <1>1, <1>3, <2>6, FS_EmptySet
  <2> QED  BY <2>1, <2>5, <2>7 DEF s
<1>4. CASE journal # NoFile
  <2>1. PICK last \in RecordingsDone :
          /\ journal.day = recordedAt[last] \div Day
          /\ \A d \in RecordingsDone : recordedAt[d] <= recordedAt[last] /\ Accounted(DOMAIN journal.recent, d, recordedAt[last])
    BY <1>4 DEF HoldsLatest
  <2>2. journal.recent \in [DOMAIN journal.recent -> Nat] /\ Younger(journal.recent)
        /\ journal.count = Cardinality(DoneOn(journal.day))
    BY <1>4 DEF HoldsLatest
  <2>3. DOMAIN list = DOMAIN journal.recent /\ Younger(list)
    <3>1. \A x \in DOMAIN journal.recent : journal.recent[x] # L!Unreadable
      BY <2>2 DEF L!Unreadable
    <3> QED  BY <1>4, <2>2, <3>1 DEF Younger
  <2>4. last \in Recording /\ recordedAt[last] \in Nat /\ recordedAt[last] <= t /\ RecordingsDone \subseteq Recording
    BY <1>2 DEF RecordingsDone
  <2> HIDE DEF list
  <2>5. (\A x : x \in DOMAIN near <=> x \in DOMAIN list /\ recordedAt[x] \in (t - Longest)..t) /\ near \in [DOMAIN near -> Nat]
        /\ Younger(near) /\ DOMAIN near \subseteq Recording
    BY <1>1, <1>2, <2>3, WithinIs
  <2> HIDE DEF near
  <2>6. Younger(s.recent)
    BY <1>1, <2>5, LastIsTimes
  <2>7. ASSUME NEW d \in RecordingsDone, ~(recordedAt[d] < t - Longest)
        PROVE  Covered(DOMAIN s.recent, d)
    <3>1. d \in Recording /\ recordedAt[d] \in Nat /\ recordedAt[d] <= t /\ Longest \in Nat
      BY <1>2, <2>4, JournalAssumption
    <3>2. d \in DOMAIN list \/ Cardinality(Since(DOMAIN list, recordedAt[d])) >= Cap
      <4>1. Accounted(DOMAIN list, d, recordedAt[last])
        BY <2>1, <2>3
      <4>2. ~(recordedAt[d] < recordedAt[last] - Longest)
        BY <2>4, <2>7, <3>1
      <4> QED  BY <4>1, <4>2 DEF Accounted, Since
    <3>3. Covered(DOMAIN near, d)
      <4>1. CASE d \in DOMAIN list
        BY <2>5, <2>7, <3>1, <4>1 DEF Covered
      <4>2. CASE Cardinality(Since(DOMAIN list, recordedAt[d])) >= Cap
        <5>1. \A x \in DOMAIN list : recordedAt[x] \in Nat /\ recordedAt[x] <= t
          BY <1>1, <1>2
        <5>2. Since(DOMAIN list, recordedAt[d]) = Since(DOMAIN near, recordedAt[d])
          BY <2>5, <2>7, <3>1, <5>1 DEF Since
        <5> QED  BY <4>2, <5>2 DEF Covered
      <4> QED  BY <3>2, <4>1, <4>2
    <3> QED  BY <1>1, <1>2, <2>5, <3>1, <3>3, LastCovers
  <2>8. s.count = Cardinality(DoneOn(t \div Day))
    <3>1. recordedAt[last] \div Day \in Nat /\ journal.day = recordedAt[last] \div Day /\ journal.day <= t \div Day
      BY <2>1, <2>4, DaysGoOn
    <3>2. DoneOn(journal.day) \in SUBSET Recording
      BY DEF DoneOn, RecordingsDone
    <3>3. journal.count \in Nat
      BY <2>2, <3>2, RecordingsFinite
    <3>4. CASE journal.day = t \div Day
      BY <1>1, <1>4, <2>2, <3>1, <3>3, <3>4 DEF L!Unreadable
    <3>5. CASE journal.day # t \div Day
      <4>1. ASSUME NEW d \in RecordingsDone PROVE recordedAt[d] \div Day # t \div Day
        <5>1. d \in Recording /\ recordedAt[d] \in Nat /\ recordedAt[d] <= recordedAt[last]
          BY <1>2, <2>1, <2>4
        <5>2. recordedAt[d] \div Day <= journal.day /\ recordedAt[d] \div Day \in Nat
          BY <2>4, <3>1, <5>1, DaysGoOn
        <5> QED  BY <1>1, <3>1, <3>5, <5>2
      <4>2. DoneOn(t \div Day) = {}
        BY <4>1 DEF DoneOn
      <4>3. s.count = 0
        BY <1>1, <1>4, <3>1, <3>5 DEF L!Unreadable
      <4> QED  BY <4>2, <4>3, FS_EmptySet
    <3> QED  BY <3>4, <3>5
  <2> QED  BY <2>6, <2>7, <2>8 DEF s
<1> QED  BY <1>3, <1>4

\* What a recording writes is a file of what it read, of its own time, and counted.
LEMMA RecordedIs ==
  ASSUME EstimateTypes, NEW r \in Recording, estimatePc[r] = "writing", OnRecord(estimateLoaded[r])
  PROVE  LET j == L!Recorded(r)
             s == L!Read(estimateLoaded[r], recordedAt[r])
             longer == L!Appended(s.recent, r)
         IN  /\ j \in L!Journal /\ j.day = recordedAt[r] \div Day /\ j.count = s.count + 1 /\ s.count \in Nat
             /\ s.count <= Cardinality(DoneOn(recordedAt[r] \div Day))
             /\ j.recent = L!Last(longer) /\ j.recent \in [DOMAIN j.recent -> Nat]
             /\ DOMAIN s.recent \subseteq RecordingsDone /\ r \notin DOMAIN s.recent
             /\ DOMAIN longer = DOMAIN s.recent \cup {r} /\ longer \in [DOMAIN longer -> Nat]
             /\ DOMAIN j.recent \subseteq RecordingsDone \cup {r} /\ r \in DOMAIN j.recent
<1> DEFINE j == L!Recorded(r)
           s == L!Read(estimateLoaded[r], recordedAt[r])
           longer == L!Appended(s.recent, r)
<1>1. estimateLoaded[r] \in {NoFile} \cup L!Journal /\ recordedAt[r] \in Nat
  BY DEF EstimateTypes
<1>2. /\ s.day = recordedAt[r] \div Day /\ recordedAt[r] \div Day \in Nat
      /\ DOMAIN s.recent \subseteq RecordingsDone /\ s.recent \in [DOMAIN s.recent -> Nat]
  BY <1>1, ReadIs
<1>3. s.count \in Nat /\ s.count <= Cardinality(DoneOn(recordedAt[r] \div Day))
  BY <1>1, ReadCounts
<1>4. j = [day |-> s.day, count |-> s.count + 1, recent |-> L!Last(longer)]
  BY DEF L!Recorded
<1> HIDE DEF j, s
<1>5. DOMAIN longer = DOMAIN s.recent \cup {r} /\ longer \in [DOMAIN longer -> Nat]
      /\ DOMAIN longer \subseteq Recording /\ longer[r] = 0
  BY <1>2 DEF L!Appended, RecordingsDone
<1>6. r \notin RecordingsDone
  BY DEF RecordingsDone
<1> HIDE DEF longer
<1>7. DOMAIN L!Last(longer) \subseteq DOMAIN longer /\ L!Last(longer) \in Times
      /\ L!Last(longer) \in [DOMAIN L!Last(longer) -> Nat]
  BY <1>5, LastIsTimes
<1>8. r \in DOMAIN L!Last(longer)
  <2>1. After(longer, r) = {}
    BY <1>5 DEF After
  <2>2. Cardinality(After(longer, r)) < Cap
    BY <2>1, FS_EmptySet, JournalAssumption
  <2> QED  BY <1>5, <2>2, LastIs
<1>9. j \in L!Journal
  BY <1>2, <1>3, <1>4, <1>7, JournalsAre
<1> QED  BY <1>2, <1>3, <1>4, <1>5, <1>6, <1>7, <1>8, <1>9 DEF j, s, longer

\* What is done stays done, at the time it was; so what is backed stays backed.
LEMMA RecordStays ==
  ASSUME EstimateTypes, RecordingsDone' \in SUBSET Recording,
         RecordingsDone \subseteq RecordingsDone', \A d \in RecordingsDone : recordedAt'[d] = recordedAt[d]
  PROVE  \A j \in {NoFile} \cup L!Journal : OnRecord(j) => OnRecord(j)'
<1> SUFFICES ASSUME NEW j \in {NoFile} \cup L!Journal, OnRecord(j), j # NoFile PROVE OnRecord(j)'
  BY DEF OnRecord
<1>1. DoneOn(j.day) \in SUBSET DoneOn(j.day)' /\ DoneOn(j.day)' \in SUBSET Recording
  BY DEF DoneOn
<1>2. Cardinality(DoneOn(j.day)) <= Cardinality(DoneOn(j.day)') /\ Cardinality(DoneOn(j.day)) \in Nat
      /\ Cardinality(DoneOn(j.day)') \in Nat
  BY <1>1, RecordingsFinite
<1>3. j.count \in Nat \cup {L!Unreadable}
  BY JournalsAre
<1> QED  BY <1>2, <1>3 DEF OnRecord, L!Unreadable

\* One more of its day is done with what a recording writes.
LEMMA OneMoreDone ==
  ASSUME EstimateTypes, NEW r \in Recording, r \notin RecordingsDone, UNCHANGED recordedAt,
         RecordingsDone' = RecordingsDone \cup {r}
  PROVE  /\ Cardinality(DoneOn(recordedAt[r] \div Day)') = Cardinality(DoneOn(recordedAt[r] \div Day)) + 1
         /\ Cardinality(DoneOn(recordedAt[r] \div Day)) \in Nat
<1> DEFINE day == recordedAt[r] \div Day
           T == DoneOn(day)
<1>1. T \in SUBSET Recording /\ r \notin T
  BY DEF DoneOn, RecordingsDone
<1>2. {d \in RecordingsDone' : recordedAt'[d] \div Day = day} = T \cup {r}
  BY DEF DoneOn
<1>3. IsFiniteSet(T) /\ Cardinality(T) \in Nat
  BY <1>1, RecordingsFinite
<1>4. Cardinality(T \cup {r}) = Cardinality(T) + 1
  BY <1>1, <1>3, FS_AddElement
<1> QED  BY <1>2, <1>3, <1>4 DEF DoneOn

LEMMA EstimatesStart == L!EstimateInit => EstimateInv
BY DEF L!EstimateInit, EstimateInv, EstimateTypes, OnRecord, OneByOne, HoldsLatest, Recorders, RecordingsDone

\* A recording that has its turn leaves a file with all that is done, or the latest.
LEMMA WriteKeepsLatest ==
  ASSUME EstimateInv, exact, NEW r \in Recording, L!WriteJournal(r)
  PROVE  HoldsLatest(journal)'
<1> DEFINE t == recordedAt[r]
           s == L!Read(journal, t)
           longer == L!Appended(s.recent, r)
           last == L!Last(longer)
<1>1. /\ EstimateTypes /\ OnRecord(journal) /\ OnRecord(estimateLoaded[r]) /\ HoldsLatest(journal)
      /\ estimatePc[r] = "writing" /\ estimateLoaded[r] = journal
      /\ \A d \in RecordingsDone : recordedAt[d] <= t
      /\ t \in Nat /\ recordedAt \in [Recording -> Nat] /\ journal \in {NoFile} \cup L!Journal
  BY DEF L!WriteJournal, L!Written, EstimateInv, EstimateTypes, OneByOne
<1>2. /\ journal' = L!Recorded(r) /\ recordedAt' = recordedAt /\ RecordingsDone' = RecordingsDone \cup {r}
      /\ r \notin RecordingsDone /\ RecordingsDone \subseteq Recording
  BY <1>1 DEF L!WriteJournal, L!Written, EstimateTypes, RecordingsDone
<1>3. /\ journal' \in L!Journal /\ journal'.day = t \div Day /\ journal'.count = s.count + 1
      /\ journal'.recent = last /\ last \in [DOMAIN last -> Nat]
      /\ DOMAIN s.recent \subseteq RecordingsDone /\ r \notin DOMAIN s.recent
      /\ DOMAIN longer = DOMAIN s.recent \cup {r} /\ longer \in [DOMAIN longer -> Nat]
      /\ r \in DOMAIN last
  <2> DEFINE image == L!Recorded(r)
             read == L!Read(estimateLoaded[r], t)
             grown == L!Appended(read.recent, r)
  <2>1. /\ image \in L!Journal /\ image.day = t \div Day /\ image.count = read.count + 1
        /\ image.recent = L!Last(grown) /\ image.recent \in [DOMAIN image.recent -> Nat]
        /\ DOMAIN read.recent \subseteq RecordingsDone /\ r \notin DOMAIN read.recent
        /\ DOMAIN grown = DOMAIN read.recent \cup {r} /\ grown \in [DOMAIN grown -> Nat]
        /\ r \in DOMAIN image.recent
    BY <1>1, RecordedIs
  <2>2. journal' = image /\ read = s
    BY <1>1, <1>2
  <2> HIDE DEF image, read
  <2>3. grown = longer
    BY <2>2
  <2> HIDE DEF s, longer, grown
  <2> QED  BY <2>1, <2>2, <2>3
<1>4. /\ Younger(s.recent) /\ s.recent \in [DOMAIN s.recent -> Nat]
      /\ \A d \in RecordingsDone : recordedAt[d] < t - Longest \/ Covered(DOMAIN s.recent, d)
      /\ s.count = Cardinality(DoneOn(t \div Day))
  BY <1>1, ReadHasLatest, ReadIs
<1>5. \A x \in DOMAIN longer : longer[x] = IF x = r THEN 0 ELSE s.recent[x] + 1
  BY <1>3 DEF L!Appended
<1> HIDE DEF s, longer
<1>6. Younger(longer)
  <2> SUFFICES ASSUME NEW x \in DOMAIN longer, NEW y \in DOMAIN longer, longer[x] < longer[y]
               PROVE  recordedAt[y] <= recordedAt[x]
    BY DEF Younger
  <2>1. y # r
    BY <1>3, <1>5
  <2>2. y \in DOMAIN s.recent /\ s.recent[y] \in Nat /\ longer[y] = s.recent[y] + 1
    BY <1>3, <1>4, <1>5, <2>1
  <2>3. CASE x = r
    BY <1>1, <1>3, <2>2, <2>3
  <2>4. CASE x # r
    <3>1. x \in DOMAIN s.recent /\ s.recent[x] \in Nat /\ longer[x] = s.recent[x] + 1
      BY <1>3, <1>4, <1>5, <2>4
    <3>2. s.recent[x] < s.recent[y]
      BY <2>2, <3>1
    <3> QED  BY <1>4, <2>2, <3>1, <3>2 DEF Younger
  <2> QED  BY <2>3, <2>4
<1>7. DOMAIN longer \subseteq Recording
  BY <1>2, <1>3
<1>8. Younger(last)
  BY <1>3, <1>6, <1>7, LastIsTimes
<1>9. ASSUME NEW d \in RecordingsDone'
      PROVE  recordedAt[d] <= t /\ Accounted(DOMAIN last, d, t)
  <2>1. CASE d = r
    BY <1>1, <1>3, <2>1 DEF Accounted
  <2>2. CASE d # r
    <3>1. d \in RecordingsDone /\ d \in Recording /\ recordedAt[d] <= t
      BY <1>1, <1>2, <1>9, <2>2
    <3>2. CASE recordedAt[d] < t - Longest
      BY <3>1, <3>2 DEF Accounted
    <3>3. CASE Covered(DOMAIN s.recent, d)
      <4>1. Covered(DOMAIN longer, d)
        <5>1. CASE d \in DOMAIN s.recent
          BY <1>3, <5>1 DEF Covered
        <5>2. CASE Cardinality(Since(DOMAIN s.recent, recordedAt[d])) >= Cap
          <6>1. Since(DOMAIN s.recent, recordedAt[d]) \in SUBSET Since(DOMAIN longer, recordedAt[d])
                /\ Since(DOMAIN longer, recordedAt[d]) \in SUBSET Recording
                /\ Since(DOMAIN s.recent, recordedAt[d]) \in SUBSET Recording
            BY <1>3, <1>7 DEF Since
          <6>2. Cardinality(Since(DOMAIN longer, recordedAt[d])) >= Cap
            BY <5>2, <6>1, RecordingsFinite, JournalAssumption
          <6> QED  BY <6>2 DEF Covered
        <5> QED  BY <3>3, <5>1, <5>2 DEF Covered
      <4>2. Covered(DOMAIN last, d)
        BY <1>1, <1>3, <1>6, <1>7, <3>1, <4>1, LastCovers
      <4> QED  BY <3>1, <4>2 DEF Covered, Accounted, Since
    <3> QED  BY <1>4, <3>1, <3>2, <3>3
  <2> QED  BY <2>1, <2>2
<1>10. journal'.count = Cardinality(DoneOn(t \div Day)')
  BY <1>1, <1>2, <1>3, <1>4, OneMoreDone
<1> HIDE DEF last
<1>11. journal' # NoFile /\ r \in RecordingsDone' /\ recordedAt'[r] = t
  BY <1>2, <1>3, JournalsAre
<1>12. journal'.count = Cardinality(DoneOn(journal.day)')
  BY <1>2, <1>3, <1>10 DEF DoneOn
<1>13. \A d \in RecordingsDone' : recordedAt'[d] <= recordedAt'[r] /\ Accounted(DOMAIN journal.recent, d, recordedAt[r])'
  BY <1>2, <1>3, <1>9 DEF Accounted
<1>14. Younger(journal.recent)'
  BY <1>2, <1>3, <1>8 DEF Younger
<1> QED  BY <1>2, <1>3, <1>11, <1>12, <1>13, <1>14 DEF HoldsLatest

\* A recording is done with its write, and with a write that fails.
LEMMA WrittenKeeps ==
  ASSUME EstimateTypes, OnRecord(journal), \A x \in Recording : OnRecord(estimateLoaded[x]),
         NEW r \in Recording, NEW f \in {NoFile} \cup L!Journal, L!Written(r, f),
         f = L!Recorded(r) \/ f \in {journal, NoFile}
  PROVE  /\ estimatePc' \in [Recording -> Recorders] /\ journal' \in {NoFile} \cup L!Journal
         /\ UNCHANGED <<estimateNow, recordedAt, estimateLoaded>>
         /\ OnRecord(journal)' /\ \A x \in Recording : OnRecord(estimateLoaded[x])'
         /\ RecordingsDone' = RecordingsDone \cup {r}
<1>1. /\ estimatePc[r] = "writing" /\ estimatePc' = [estimatePc EXCEPT ![r] = "done"]
      /\ journal' = f /\ UNCHANGED <<estimateNow, recordedAt, estimateLoaded>>
  BY DEF L!Written
<1>2. estimatePc' \in [Recording -> Recorders] /\ RecordingsDone' = RecordingsDone \cup {r}
      /\ r \notin RecordingsDone /\ RecordingsDone' \in SUBSET Recording
  BY <1>1 DEF EstimateTypes, Recorders, RecordingsDone
<1>3. \A j \in {NoFile} \cup L!Journal : OnRecord(j) => OnRecord(j)'
  BY <1>1, <1>2, RecordStays
<1>4. \A x \in Recording : OnRecord(estimateLoaded[x])'
  BY <1>1, <1>3 DEF EstimateTypes, OnRecord
<1>5. OnRecord(journal)'
  <2>1. CASE f \in {journal, NoFile}
    BY <1>1, <1>3, <2>1 DEF EstimateTypes, OnRecord
  <2>2. CASE f = L!Recorded(r)
    <3> DEFINE image == L!Recorded(r)
               read == L!Read(estimateLoaded[r], recordedAt[r])
    <3>1. /\ image.day = recordedAt[r] \div Day /\ image.count = read.count + 1 /\ read.count \in Nat
          /\ read.count <= Cardinality(DoneOn(recordedAt[r] \div Day))
          /\ DOMAIN image.recent \subseteq RecordingsDone \cup {r}
      BY <1>1, RecordedIs
    <3>2. Cardinality(DoneOn(recordedAt[r] \div Day)') = Cardinality(DoneOn(recordedAt[r] \div Day)) + 1
          /\ Cardinality(DoneOn(recordedAt[r] \div Day)) \in Nat
      BY <1>1, <1>2, OneMoreDone
    <3>3. journal' = image
      BY <1>1, <2>2
    <3> HIDE DEF image, read
    <3>4. DOMAIN journal'.recent \subseteq RecordingsDone' /\ journal'.count <= Cardinality(DoneOn(recordedAt[r] \div Day)')
      BY <1>2, <3>1, <3>2, <3>3
    <3>5. DoneOn(journal.day)' = DoneOn(recordedAt[r] \div Day)'
      BY <1>1, <3>1, <3>3 DEF DoneOn
    <3> QED  BY <3>4, <3>5 DEF OnRecord
  <2> QED  BY <2>1, <2>2
<1> QED  BY <1>1, <1>2, <1>4, <1>5

\* Where the recordings and the file are as they were, what is said of them is.
LEMMA UntouchedHasLatest ==
  ASSUME EstimateTypes, OnRecord(journal), UNCHANGED journal, RecordingsDone' = RecordingsDone,
         \A d \in RecordingsDone : recordedAt'[d] = recordedAt[d], HoldsLatest(journal)
  PROVE  HoldsLatest(journal)'
<1>1. CASE journal = NoFile
  BY <1>1 DEF HoldsLatest
<1>2. CASE journal # NoFile
  <2>1. DOMAIN journal.recent \subseteq RecordingsDone
    BY <1>2 DEF OnRecord
  <2>2. Younger(journal.recent)'
    BY <1>2, <2>1 DEF HoldsLatest, Younger
  <2>3. ASSUME NEW d \in RecordingsDone, NEW last \in RecordingsDone, Accounted(DOMAIN journal.recent, d, recordedAt[last])
        PROVE  Accounted(DOMAIN journal.recent, d, recordedAt[last])'
    <3>1. {x \in DOMAIN journal.recent : recordedAt'[d] <= recordedAt'[x]} = {x \in DOMAIN journal.recent : recordedAt[d] <= recordedAt[x]}
      BY <2>1
    <3> QED  BY <2>3, <3>1 DEF Accounted
  <2>4. \A day : DoneOn(day)' = DoneOn(day)
    BY DEF DoneOn
  <2>5. journal'.count = Cardinality(DoneOn(journal.day)')
    BY <1>2, <2>4 DEF HoldsLatest
  <2>6. PICK last \in RecordingsDone :
          /\ journal.day = recordedAt[last] \div Day
          /\ \A d \in RecordingsDone : recordedAt[d] <= recordedAt[last] /\ Accounted(DOMAIN journal.recent, d, recordedAt[last])
    BY <1>2 DEF HoldsLatest
  <2>7. \A d \in RecordingsDone' : recordedAt'[d] <= recordedAt'[last] /\ Accounted(DOMAIN journal.recent, d, recordedAt[last])'
    BY <2>3, <2>6
  <2> QED  BY <1>2, <2>2, <2>5, <2>6, <2>7 DEF HoldsLatest
<1> QED  BY <1>1, <1>2

\* A step keeps the types, and what files say backed by recordings that are done.
LEMMA StepKeepsRecord ==
  ASSUME EstimateInv, L!EstimateNext
  PROVE  EstimateTypes' /\ OnRecord(journal)' /\ \A x \in Recording : OnRecord(estimateLoaded[x])'
<1> USE DEF EstimateInv
<1>1. CASE L!Tick \/ L!ClockBack
  <2>1. UNCHANGED <<journal, estimatePc, recordedAt, estimateLoaded>> /\ estimateNow' \in Nat /\ exact' \in BOOLEAN
    <3>1. CASE L!Tick  BY <3>1 DEF L!Tick, EstimateTypes
    <3>2. CASE L!ClockBack
      <4>1. UNCHANGED <<journal, estimatePc, recordedAt, estimateLoaded>> /\ estimateNow' \in 0..(estimateNow - 1)
        BY <3>2 DEF L!ClockBack
      <4>2. exact' = FALSE
        BY <3>2 DEF L!ClockBack
      <4>3. exact' \in BOOLEAN
        BY <4>2, Zenon
      <4> QED  BY <4>1, <4>3 DEF EstimateTypes
    <3> QED  BY <1>1, <3>1, <3>2
  <2> QED  BY <2>1 DEF EstimateTypes, OnRecord, DoneOn, RecordingsDone
<1>2. CASE L!Damage
  <2>1. /\ UNCHANGED <<estimateNow, estimatePc, recordedAt, estimateLoaded>> /\ exact' \in BOOLEAN
        /\ journal \in L!Journal /\ journal # NoFile
    BY <1>2 DEF L!Damage, EstimateTypes
  <2>2. journal.recent \in [DOMAIN journal.recent -> Nat \cup {L!Unreadable}] /\ DOMAIN journal.recent \subseteq Recording
    BY <2>1, JournalsAre, TimesAre
  <2>3. journal' \in {NoFile} \cup L!Journal /\ OnRecord(journal)'
    <3>1. CASE journal' = NoFile
      BY <3>1 DEF OnRecord
    <3>2. CASE journal' = [journal EXCEPT !.count = L!Unreadable]
      BY <2>1, <2>2, <3>2, JournalsAre DEF OnRecord, RecordingsDone
    <3>3. CASE journal' = [journal EXCEPT !.day = L!Unreadable, !.count = L!Unreadable]
      <4>1. journal' = [day |-> L!Unreadable, count |-> L!Unreadable, recent |-> journal.recent]
        BY <2>1, <3>3, JournalsAre
      <4>2. L!Unreadable \in Int /\ journal.recent \in Times
        BY <2>1, JournalsAre DEF L!Unreadable
      <4>3. journal' \in L!Journal /\ journal'.count = L!Unreadable /\ journal'.recent = journal.recent
        BY <4>1, <4>2, JournalsAre
      <4> QED  BY <2>1, <4>3 DEF OnRecord, RecordingsDone
    <3>4. ASSUME NEW r \in DOMAIN journal.recent, journal' = [journal EXCEPT !.recent[r] = L!Unreadable]
          PROVE  journal' \in {NoFile} \cup L!Journal /\ OnRecord(journal)'
      <4> DEFINE times == [journal.recent EXCEPT ![r] = L!Unreadable]
      <4>1. times \in [DOMAIN journal.recent -> Nat \cup {L!Unreadable}] /\ DOMAIN times = DOMAIN journal.recent
        BY <2>2
      <4>2. times \in Times
        BY <2>2, <4>1, TimesAre
      <4>3. journal' = [journal EXCEPT !.recent = times]
        BY <3>4
      <4> HIDE DEF times
      <4>4. journal' \in L!Journal /\ journal'.recent = times /\ journal'.day = journal.day /\ journal'.count = journal.count
        BY <2>1, <4>2, <4>3, JournalsAre
      <4>5. RecordingsDone' = RecordingsDone /\ DoneOn(journal.day)' = DoneOn(journal.day)
        BY <2>1, <4>4 DEF RecordingsDone, DoneOn
      <4> QED  BY <2>1, <4>1, <4>4, <4>5 DEF OnRecord
    <3> QED  BY <1>2, <3>1, <3>2, <3>3, <3>4 DEF L!Damage
  <2> QED  BY <2>1, <2>3 DEF EstimateTypes, OnRecord, DoneOn, RecordingsDone
<1>3. ASSUME NEW r \in Recording, L!Complete(r)
      PROVE  EstimateTypes' /\ OnRecord(journal)' /\ \A x \in Recording : OnRecord(estimateLoaded[x])'
  <2>1. EstimateTypes' /\ UNCHANGED <<journal, estimateLoaded>>
    BY <1>3 DEF L!Complete, EstimateTypes, Recorders
  <2>2. RecordingsDone' = RecordingsDone /\ RecordingsDone \in SUBSET Recording
        /\ \A d \in RecordingsDone : recordedAt'[d] = recordedAt[d]
    BY <1>3 DEF L!Complete, EstimateTypes, RecordingsDone
  <2>3. \A j \in {NoFile} \cup L!Journal : OnRecord(j) => OnRecord(j)'
    BY <2>2, RecordStays
  <2> QED  BY <2>1, <2>3 DEF EstimateTypes, OnRecord
<1>4. ASSUME NEW r \in Recording, L!ReadJournal(r)
      PROVE  EstimateTypes' /\ OnRecord(journal)' /\ \A x \in Recording : OnRecord(estimateLoaded[x])'
  <2>1. /\ UNCHANGED <<estimateNow, journal, recordedAt, exact>> /\ estimatePc' \in [Recording -> Recorders]
        /\ estimateLoaded' = [estimateLoaded EXCEPT ![r] = journal] /\ RecordingsDone' = RecordingsDone
    BY <1>4 DEF L!ReadJournal, EstimateTypes, Recorders, RecordingsDone
  <2>2. \A day : DoneOn(day)' = DoneOn(day)
    BY <2>1 DEF DoneOn
  <2>3. EstimateTypes'
    BY <2>1 DEF EstimateTypes
  <2>4. \A x \in Recording : estimateLoaded'[x] = journal \/ estimateLoaded'[x] = estimateLoaded[x]
    BY <2>1 DEF EstimateTypes
  <2> QED  BY <2>1, <2>2, <2>3, <2>4 DEF OnRecord
<1>5. ASSUME NEW r \in Recording, L!WriteJournal(r) \/ L!WriteFails(r)
      PROVE  EstimateTypes' /\ OnRecord(journal)' /\ \A x \in Recording : OnRecord(estimateLoaded[x])'
  <2>1. exact' \in BOOLEAN
    BY <1>5 DEF L!WriteJournal, L!WriteFails, EstimateTypes
  <2>2. \E f \in {NoFile} \cup L!Journal : L!Written(r, f) /\ (f = L!Recorded(r) \/ f \in {journal, NoFile})
    <3>1. CASE L!WriteJournal(r)
      <4>1. L!Written(r, L!Recorded(r)) /\ estimatePc[r] = "writing"
        BY <3>1 DEF L!WriteJournal, L!Written
      <4>2. L!Recorded(r) \in L!Journal
        BY <4>1, RecordedIs
      <4> QED  BY <4>1, <4>2
    <3>2. CASE L!WriteFails(r)
      BY <3>2 DEF L!WriteFails, EstimateTypes
    <3> QED  BY <1>5, <3>1, <3>2
  <2>3. /\ estimatePc' \in [Recording -> Recorders] /\ journal' \in {NoFile} \cup L!Journal
        /\ UNCHANGED <<estimateNow, recordedAt, estimateLoaded>>
        /\ OnRecord(journal)' /\ \A x \in Recording : OnRecord(estimateLoaded[x])'
    BY <2>2, WrittenKeeps
  <2> QED  BY <2>1, <2>3 DEF EstimateTypes
<1> QED  BY <1>1, <1>2, <1>3, <1>4, <1>5 DEF L!EstimateNext

\* As long as all went in turn, it still does.
LEMMA StepKeepsOneByOne ==
  ASSUME EstimateInv, L!EstimateNext, exact'
  PROVE  OneByOne'
<1>1. EstimateTypes /\ OnRecord(journal) /\ (exact => OneByOne)
  BY DEF EstimateInv
<1>2. CASE L!Tick
  <2>1. UNCHANGED <<journal, estimatePc, recordedAt, estimateLoaded, exact>> /\ estimateNow' = estimateNow + 1
        /\ OneByOne
    BY <1>1, <1>2 DEF L!Tick
  <2>2. HoldsLatest(journal)'
    BY <1>1, <2>1, UntouchedHasLatest DEF OneByOne, RecordingsDone
  <2> QED  BY <1>1, <2>1, <2>2 DEF OneByOne, EstimateTypes, RecordingsDone
<1>3. ASSUME NEW r \in Recording, L!Complete(r)
      PROVE  OneByOne'
  <2>1. /\ OneByOne /\ \A x \in Recording \ {r} : estimatePc[x] \in {"idle", "done"}
        /\ estimatePc[r] = "idle" /\ estimatePc' = [estimatePc EXCEPT ![r] = "reading"]
        /\ recordedAt' = [recordedAt EXCEPT ![r] = estimateNow]
        /\ UNCHANGED <<estimateNow, journal, estimateLoaded>>
    BY <1>1, <1>3 DEF L!Complete, EstimateTypes
  <2>2. RecordingsDone' = RecordingsDone /\ \A d \in RecordingsDone : recordedAt'[d] = recordedAt[d] /\ d # r
    BY <1>1, <2>1 DEF EstimateTypes, RecordingsDone
  <2>3. HoldsLatest(journal)'
    BY <1>1, <2>1, <2>2, UntouchedHasLatest DEF OneByOne
  <2>4. \A x \in Recording : x # r => estimatePc'[x] = estimatePc[x] /\ recordedAt'[x] = recordedAt[x]
    BY <1>1, <2>1 DEF EstimateTypes
  <2>5. estimatePc'[r] = "reading" /\ recordedAt'[r] = estimateNow
    BY <1>1, <2>1 DEF EstimateTypes
  <2>6. \A d \in RecordingsDone : d \in Recording /\ recordedAt[d] <= estimateNow
    BY <1>1, <2>1 DEF OneByOne, RecordingsDone, EstimateTypes
  <2> QED  BY <1>1, <2>1, <2>2, <2>3, <2>4, <2>5, <2>6 DEF OneByOne, EstimateTypes
<1>4. ASSUME NEW r \in Recording, L!ReadJournal(r)
      PROVE  OneByOne'
  <2>1. /\ OneByOne /\ estimatePc[r] = "reading" /\ estimatePc' = [estimatePc EXCEPT ![r] = "writing"]
        /\ estimateLoaded' = [estimateLoaded EXCEPT ![r] = journal]
        /\ UNCHANGED <<estimateNow, journal, recordedAt>>
    BY <1>1, <1>4 DEF L!ReadJournal
  <2>2. RecordingsDone' = RecordingsDone
    BY <1>1, <2>1 DEF EstimateTypes, RecordingsDone
  <2>3. HoldsLatest(journal)'
    BY <1>1, <2>1, <2>2, UntouchedHasLatest DEF OneByOne
  <2> QED  BY <1>1, <2>1, <2>2, <2>3 DEF OneByOne, EstimateTypes
<1>5. ASSUME NEW r \in Recording, L!WriteJournal(r)
      PROVE  OneByOne'
  <2>1. /\ exact /\ OneByOne /\ estimatePc[r] = "writing" /\ estimatePc' = [estimatePc EXCEPT ![r] = "done"]
        /\ UNCHANGED <<estimateNow, recordedAt, estimateLoaded>>
    BY <1>1, <1>5 DEF L!WriteJournal, L!Written
  <2>2. HoldsLatest(journal)'
    BY <1>5, <2>1, WriteKeepsLatest
  <2>3. \A x \in Recording : estimatePc'[x] \notin {"reading", "writing"}
    BY <1>1, <2>1 DEF OneByOne, EstimateTypes
  <2>4. \A x \in Recording : estimatePc'[x] # "idle" => recordedAt'[x] <= estimateNow'
    BY <1>1, <2>1 DEF OneByOne, EstimateTypes
  <2> QED  BY <2>2, <2>3, <2>4 DEF OneByOne
<1>6. CASE L!ClockBack \/ L!Damage \/ \E r \in Recording : L!WriteFails(r)
  BY <1>6 DEF L!ClockBack, L!Damage, L!WriteFails
<1> QED  BY <1>2, <1>3, <1>4, <1>5, <1>6 DEF L!EstimateNext

\* What is shown as used was; recordings in turn leave the share that remains exact.
LEMMA EstimatesAreTrue == ASSUME EstimateInv PROVE L!SerialIsExact /\ L!NeverOvercounts
<1> DEFINE s == L!Read(journal, estimateNow)
<1>1. /\ EstimateTypes /\ OnRecord(journal) /\ journal \in {NoFile} \cup L!Journal /\ estimateNow \in Nat
      /\ recordedAt \in [Recording -> Nat]
  BY DEF EstimateInv, EstimateTypes
<1>2. DOMAIN s.recent \subseteq {d \in RecordingsDone : recordedAt[d] \in (estimateNow - Longest)..estimateNow}
      /\ s.recent \in [DOMAIN s.recent -> Nat] /\ DOMAIN s.recent \subseteq Recording
  BY <1>1, ReadIs DEF RecordingsDone
<1>3. s.count \in Nat /\ s.count <= Cardinality(DoneOn(estimateNow \div Day))
  BY <1>1, ReadCounts
<1>4. \A r \in RecordingsDone : r \in Recording /\ estimatePc[r] # "idle"
  BY DEF RecordingsDone
<1> DEFINE floor(w) == estimateNow - RollingWindow[w].length
           used(w) == {x \in DOMAIN s.recent : recordedAt[x] \in floor(w)..estimateNow}
           completed(w) == {r \in Recording : estimatePc[r] # "idle" /\ recordedAt[r] \in floor(w)..estimateNow}
           today == {r \in Recording : estimatePc[r] # "idle" /\ recordedAt[r] \div Day = estimateNow \div Day}
<1>5. ASSUME NEW w
      PROVE  /\ L!Used(journal, w, estimateNow) = Cardinality(used(w)) /\ L!CompletedIn(w) = Cardinality(completed(w))
             /\ used(w) \in SUBSET completed(w) /\ completed(w) \in SUBSET Recording /\ used(w) \in SUBSET Recording
             /\ Cardinality(used(w)) \in Nat /\ Cardinality(completed(w)) \in Nat
             /\ Cardinality(used(w)) <= Cardinality(completed(w))
  <2>1. DOMAIN L!InWindow(s, w, estimateNow) = used(w)
    BY DEF L!InWindow, L!Within
  <2>2. L!Used(journal, w, estimateNow) = Cardinality(used(w))
    BY <2>1, SameSize DEF L!Used
  <2>3. L!CompletedIn(w) = Cardinality(completed(w))
    BY SameSize DEF L!CompletedIn
  <2> HIDE DEF s
  <2>4. used(w) \in SUBSET completed(w) /\ completed(w) \in SUBSET Recording /\ used(w) \in SUBSET Recording
    BY <1>2, <1>4
  <2> HIDE DEF used, completed
  <2> QED  BY <2>2, <2>3, <2>4, RecordingsFinite
<1>6. /\ L!UsedToday(journal, estimateNow) = s.count /\ L!CompletedToday = Cardinality(today)
      /\ DoneOn(estimateNow \div Day) \in SUBSET today /\ today \in SUBSET Recording
      /\ Cardinality(DoneOn(estimateNow \div Day)) <= Cardinality(today)
      /\ Cardinality(DoneOn(estimateNow \div Day)) \in Nat /\ Cardinality(today) \in Nat
  <2>1. L!UsedToday(journal, estimateNow) = s.count
    BY DEF L!UsedToday
  <2>2. L!CompletedToday = Cardinality(today)
    BY SameSize DEF L!CompletedToday
  <2> HIDE DEF s
  <2>3. DoneOn(estimateNow \div Day) \in SUBSET today /\ today \in SUBSET Recording
        /\ DoneOn(estimateNow \div Day) \in SUBSET Recording
    BY <1>4 DEF DoneOn
  <2> HIDE DEF today
  <2> QED  BY <2>1, <2>2, <2>3, RecordingsFinite
<1>7. L!NeverOvercounts
  <2> HIDE DEF s, used, completed, today
  <2>1. L!UsedToday(journal, estimateNow) <= L!CompletedToday
    BY <1>3, <1>6
  <2> QED  BY <1>5, <2>1 DEF L!NeverOvercounts
<1>8. ASSUME exact, \A r \in Recording : estimatePc[r] \in {"idle", "done"}
      PROVE  /\ \A w \in DOMAIN RollingWindow :
                  L!PercentRemaining(L!Used(journal, w, estimateNow), RollingWindow[w].limit)
                    = L!PercentRemaining(L!CompletedIn(w), RollingWindow[w].limit)
             /\ L!UsedToday(journal, estimateNow) = L!CompletedToday
  <2>1. OneByOne /\ HoldsLatest(journal) /\ \A d \in RecordingsDone : d \in Recording /\ recordedAt[d] <= estimateNow
    BY <1>8 DEF EstimateInv, OneByOne, RecordingsDone
  <2>2. /\ \A d \in RecordingsDone : recordedAt[d] < estimateNow - Longest \/ Covered(DOMAIN s.recent, d)
        /\ s.count = Cardinality(DoneOn(estimateNow \div Day))
    BY <1>1, <2>1, ReadHasLatest
  <2>3. \A r \in Recording : estimatePc[r] # "idle" => r \in RecordingsDone
    BY <1>8 DEF RecordingsDone
  <2> HIDE DEF s
  <2>4. today = DoneOn(estimateNow \div Day)
    BY <1>4, <2>3 DEF DoneOn
  <2>5. ASSUME NEW w \in DOMAIN RollingWindow
        PROVE  L!PercentRemaining(L!Used(journal, w, estimateNow), RollingWindow[w].limit)
                 = L!PercentRemaining(L!CompletedIn(w), RollingWindow[w].limit)
    <3> DEFINE limit == RollingWindow[w].limit
    <3>1. RollingWindow[w].length \in Nat /\ RollingWindow[w].length <= Longest /\ limit \in Nat /\ limit <= Cap
          /\ Cap \in Nat /\ Longest \in Nat
      BY JournalAssumption
    <3>2. CASE used(w) = completed(w)
      BY <1>5, <3>2
    <3>3. CASE used(w) # completed(w)
      <4>1. PICK d \in completed(w) : d \notin used(w)
        BY <1>5, <3>3
      <4>2. d \in RecordingsDone /\ recordedAt[d] \in Nat /\ recordedAt[d] >= floor(w) /\ recordedAt[d] <= estimateNow /\ d \notin DOMAIN s.recent
        BY <1>1, <2>1, <2>3, <3>1, <4>1
      <4>3. Cardinality(Since(DOMAIN s.recent, recordedAt[d])) >= Cap
        BY <1>1, <2>2, <3>1, <4>2 DEF Covered
      <4>4. Since(DOMAIN s.recent, recordedAt[d]) \in SUBSET used(w)
        <5>1. \A x \in DOMAIN s.recent : recordedAt[x] \in Nat /\ recordedAt[x] <= estimateNow
          BY <1>1, <1>2, <2>1
        <5> QED  BY <1>1, <3>1, <4>2, <5>1 DEF Since
      <4>5. Cardinality(used(w)) >= limit /\ Cardinality(completed(w)) >= limit
        <5> HIDE DEF used, completed, limit
        <5>1. Cardinality(Since(DOMAIN s.recent, recordedAt[d])) <= Cardinality(used(w))
              /\ Cardinality(Since(DOMAIN s.recent, recordedAt[d])) \in Nat
          BY <1>5, <4>4, RecordingsFinite
        <5> QED  BY <1>5, <3>1, <4>3, <5>1
      <4> HIDE DEF used, completed
      <4> QED  BY <1>5, <3>1, <4>5, NothingRemains
    <3> QED  BY <3>2, <3>3
  <2> HIDE DEF used, completed, today
  <2> QED  BY <1>6, <2>2, <2>4, <2>5
<1>9. L!SerialIsExact
  BY <1>8 DEF L!SerialIsExact
<1> QED  BY <1>7, <1>9

LEMMA EstimatesStep == ASSUME EstimateInv, [L!EstimateNext]_estimateVars PROVE EstimateInv'
<1>1. CASE L!EstimateNext
  BY <1>1, StepKeepsRecord, StepKeepsOneByOne DEF EstimateInv
<1>2. CASE UNCHANGED estimateVars
  <2>1. EstimateTypes'
    BY <1>2 DEF estimateVars, EstimateInv, EstimateTypes
  <2>2. RecordingsDone' = RecordingsDone
    BY <1>2 DEF estimateVars, RecordingsDone
  <2>3. (OnRecord(journal) /\ \A r \in Recording : OnRecord(estimateLoaded[r]))'
    BY <1>2, <2>2 DEF estimateVars, EstimateInv, OnRecord, DoneOn
  <2>4. ASSUME exact' PROVE OneByOne'
    <3>1. OneByOne
      BY <1>2, <2>4 DEF estimateVars, EstimateInv
    <3>2. HoldsLatest(journal)'
      BY <1>2, <2>2, <3>1 DEF estimateVars, OneByOne, HoldsLatest, Younger, Accounted, DoneOn
    <3> QED  BY <1>2, <2>2, <3>1, <3>2 DEF estimateVars, OneByOne
  <2> QED  BY <2>1, <2>3, <2>4 DEF EstimateInv
<1> QED  BY <1>1, <1>2

------------------------------------------------------------------------------
(* The parts together.                                                     *)

\* Every step is one of a part, or of none, and leaves the others' files alone.
LEMMA PartSteps ==
  ASSUME [StoresNext]_storesVars
  PROVE  /\ part' = part
         /\ [IdentityNext]_identityVars
         /\ part = "pricing" => [P!PricingNext]_pricingVars
         /\ part = "helper" => [H!ClientNext]_clientVars
         /\ part = "apikeys" => [A!Next]_storeVars
         /\ part = "estimates" => [L!EstimateNext]_estimateVars
         /\ part = "budgets" => [B!BudgetNext]_budgetVars
         /\ part = "setup" => [S!InstallerNext]_setupVars
<1>1. CASE Identity  BY <1>1 DEF Identity
<1>2. CASE ApiKeys  BY <1>2 DEF ApiKeys
<1>3. CASE Pricing  BY <1>3 DEF Pricing
<1>4. CASE Helper  BY <1>4 DEF Helper
<1>5. CASE Budgets  BY <1>5 DEF Budgets
<1>6. CASE Setup  BY <1>6 DEF Setup
<1>7. CASE UNCHANGED storesVars  BY <1>7 DEF storesVars
<1>8. CASE Estimates  BY <1>8 DEF Estimates
<1> QED BY <1>1, <1>2, <1>3, <1>4, <1>5, <1>6, <1>7, <1>8 DEF StoresNext

\* What the publication of the identity key keeps, whichever part runs.
THEOREM IdentitySafe == StoresSpec => []IdentityInv
<1>1. StoresInit => IdentityInv
  BY InitIdentity DEF StoresInit
<1>2. IdentityInv /\ [StoresNext]_storesVars => IdentityInv'
  BY PartSteps, NextKeepsIdentity
<1> QED BY <1>1, <1>2, PTL DEF StoresSpec

\* All processes that have a key have the one that was first published
\* (createOrReadIdentityKey, resolved-auth-identity.ts:134).
THEOREM OneKeyAlways == StoresSpec => []OneKey
<1>1. IdentityInv => OneKey BY DEF IdentityInv
<1> QED BY IdentitySafe, <1>1, PTL

\* The file only ever holds the published key, whole, or what something else left.
THEOREM PublishedWholeAlways == StoresSpec => []PublishedWhole
<1>1. IdentityInv => PublishedWhole BY DEF IdentityInv
<1> QED BY IdentitySafe, <1>1, PTL

\* However many processes share the files: until two refreshes overlap or the snapshot
\* is lost, every etag that is kept, in the file or in a refresh, stands for prices as
\* new as it says, and every snapshot for prices as new as its stamp.
THEOREM PricingSafe == StoresSpec => [](part = "pricing" => PricingInv)
<1>1. StoresInit => (part = "pricing" => PricingInv)
  BY InitPricing DEF StoresInit
<1>2. (part = "pricing" => PricingInv) /\ [StoresNext]_storesVars => (part = "pricing" => PricingInv)'
  BY PartSteps, PricingStep
<1> QED BY <1>1, <1>2, PTL DEF StoresSpec

\* StampIsTrue, for every number of processes, refreshes, lists and faults: until two
\* refreshes overlap or the snapshot is lost, no prices, in the file or in memory, are
\* older than the list of the time they are stamped with (maybeRefreshPricingSnapshot,
\* modelsdev-pricing.ts).
THEOREM StampsAreTrue == StoresSpec => []StampIsTrue
<1>1. (part = "pricing" => PricingInv) => StampIsTrue
  BY DEF PricingInv, AllTrue, FilesAreTrue, LoadedIsTrue, Dated, StampIsTrue, P!StampIsTrue
<1> QED BY <1>1, PricingSafe, PTL

\* A child has one request, that it alone was sent; requests are sent in turn, and what
\* was carried out before what was resolved is settled.
THEOREM HelperSafe == StoresSpec => [](part = "helper" => HelperInv)
<1>1. StoresInit => (part = "helper" => HelperInv)
  BY InitHelper DEF StoresInit
<1>2. (part = "helper" => HelperInv) /\ [StoresNext]_storesVars => (part = "helper" => HelperInv)'
  BY PartSteps, HelperStep
<1> QED BY <1>1, <1>2, PTL DEF StoresSpec

\* The helper keeps the promise of HistoryService (V).
THEOREM PromiseOfHelper == StoresSpec => ServesInTurn
<1>1. StoresInit => V!Init
  <2>1. ASSUME StoresInit, part = "helper" PROVE V!Init
    BY <2>1 DEF StoresInit, H!ClientInit, V!Init
  <2>2. ASSUME part # "helper" PROVE V!Init
    <3>1. <<>> = [r \in {} |-> "pending"]
      OBVIOUS
    <3> QED BY <2>2, <3>1 DEF V!Init
  <2> QED BY <2>1, <2>2
<1>2. (part = "helper" => HelperInv) /\ [StoresNext]_storesVars => [V!Next]_V!vars
  <2> SUFFICES ASSUME part = "helper" => HelperInv, [StoresNext]_storesVars PROVE V!Next \/ UNCHANGED V!vars
    OBVIOUS
  <2>1. part' = part
    BY DEF StoresNext, Identity, ApiKeys, Estimates, Pricing, Helper, Budgets, Setup, storesVars
  <2>2. CASE part = "helper" /\ Helper
    BY <2>1, <2>2, HelperServes DEF Helper
  <2>3. CASE part = "helper" /\ ~Helper
    <3>1. UNCHANGED <<asked, outcome, helperDisposed, carried>>
      BY <2>3 DEF StoresNext, Identity, ApiKeys, Estimates, Pricing, Budgets, Setup, storesVars, clientVars
    <3> QED BY <2>1, <2>3, <3>1, ServiceSteps
  <2>4. CASE part # "helper"
    BY <2>1, <2>4 DEF V!vars
  <2> QED BY <2>2, <2>3, <2>4
<1> QED BY <1>1, <1>2, HelperSafe, PTL DEF StoresSpec, ServesInTurn, V!Spec

\* Of any number of calls that overlap at any step, and of locks, crashes and writes that
\* fail amid them: until a creation or a change of the passphrase meets another call, a
\* wrong passphrase is tried that nothing tells, or the file is lost, the file is under
\* one key, that of the passphrase chosen last; but for the providers of calls that are
\* under way, that failed or that met another one, it holds what was acknowledged, and so
\* do the memory and the copies that calls have read (apikey-store.ts).
THEOREM ApiKeysSafe == StoresSpec => [](part = "apikeys" => ApiInv)
<1>1. StoresInit => (part = "apikeys" => ApiInv)
  BY InitApi DEF StoresInit
<1>2. (part = "apikeys" => ApiInv) /\ [StoresNext]_storesVars => (part = "apikeys" => ApiInv)'
  BY PartSteps, ApiStep
<1> QED BY <1>1, <1>2, PTL DEF StoresSpec

\* Acknowledged, for every number of callers, requests, passphrases, providers and keys:
\* what was saved and acknowledged is in the file, and what the unlocked store shows too
\* (setApiKey, deleteApiKey and changeApiKeyStorePassphrase, apikey-store.ts); calls that
\* overlap cost only each other's providers; and what the helper answered was done once
\* and in its turn (history-client.ts).
THEOREM AcknowledgedAlways == StoresSpec => []Acknowledged
<1>1. (part = "apikeys" => ApiInv) /\ (part = "helper" => HelperInv) => Acknowledged
  BY ApiAcknowledged, ApiMemory DEF ApiInv, Acknowledged, HelperInv
<1> QED BY <1>1, ApiKeysSafe, HelperSafe, PTL

\* One evaluation at a time, at the head of the queue; what it has read is the file's
\* unless another waits, and what is published was made of one reading and one answer.
THEOREM BudgetsSafe == StoresSpec => [](part = "budgets" => BudgetInv)
<1>1. StoresInit => (part = "budgets" => BudgetInv)
  BY InitBudget DEF StoresInit
<1>2. (part = "budgets" => BudgetInv) /\ [StoresNext]_storesVars => (part = "budgets" => BudgetInv)'
  BY PartSteps, BudgetStep
<1> QED BY <1>1, <1>2, PTL DEF StoresSpec

\* BudgetsAreTrue, for any rules, sources, windows and number of edits: once all is
\* quiet what is published is about the rules in the file (HistoryBudgetRuntime,
\* history-budget-runtime.ts), and no verdict that is given as certain depends on what
\* is unknown (evaluateDesktopBudgets, budget-evaluation.ts).
THEOREM BudgetsTrueAlways == StoresSpec => []BudgetsAreTrue
<1>1. (part = "budgets" => BudgetInv) => BudgetsAreTrue
  BY BudgetsTrue DEF BudgetsAreTrue
<1> QED BY <1>1, BudgetsSafe, PTL

\* What is loaded so far is what the files say so far, and the files of the setup's root
\* are those that the plan was made from, after its first writes.
THEOREM SettingsSafe == ASSUME Markers PROVE StoresSpec => [](part = "setup" => SetupInv)
<1>1. StoresInit => (part = "setup" => SetupInv)
  BY InitSetup DEF StoresInit
<1>2. (part = "setup" => SetupInv) /\ [StoresNext]_storesVars => (part = "setup" => SetupInv)'
  BY PartSteps, SetupStep
<1> QED BY <1>1, <1>2, PTL DEF StoresSpec

\* LoadIsExpected, for any roots, files and sections: a load amid which nothing is edited
\* gives each setting the value that the files say, by their priority (loadConfig,
\* config.ts).
THEOREM LoadedAsExpected == ASSUME Markers PROVE StoresSpec => []LoadIsExpected
<1>1. (part = "setup" => SetupInv) => LoadIsExpected
  BY LoadExpected DEF SetupInv, LoadIsExpected
<1> QED BY <1>1, SettingsSafe, PTL

\* SetupKeepsSettings, for any files and answers: after every write of the setup, also
\* where a later one fails, what the user had takes effect as before, and a setup that is
\* done has nothing to write (planInitInstaller, applyInitInstallerPlan, init-installer.ts).
THEOREM SettingsKept == ASSUME Markers PROVE StoresSpec => []SetupKeepsSettings
<1>1. (part = "setup" => SetupInv) => SetupKeepsSettings
  BY SetupKeeps, SetupEnds DEF SetupKeepsSettings
<1> QED BY <1>1, SettingsSafe, PTL
\* Files of what is counted locally say what was recorded, and those of recordings one
\* after the other have the latest of it, all that fit.
THEOREM EstimatesSafe == StoresSpec => [](part = "estimates" => EstimateInv)
<1>1. StoresInit => (part = "estimates" => EstimateInv)
  BY EstimatesStart DEF StoresInit
<1>2. (part = "estimates" => EstimateInv) /\ [StoresNext]_storesVars => (part = "estimates" => EstimateInv)'
  BY PartSteps, EstimatesStep
<1> QED BY <1>1, <1>2, PTL DEF StoresSpec

\* SerialIsExact, for any number of recordings, windows and limits that the journal has
\* room for, and days: recordings one after the other leave the share that remains of
\* each exact, and none that overlap, fail or have their clock set back add to what was
\* used (recordQwenCompletion, recordAlibabaCodingPlanCompletion, qwen-local-quota.ts).
THEOREM SerialAlwaysExact == StoresSpec => []SerialIsExact
<1>1. (part = "estimates" => EstimateInv) => SerialIsExact
  BY EstimatesAreTrue DEF SerialIsExact
<1> QED BY <1>1, EstimatesSafe, PTL

===============================================================================
