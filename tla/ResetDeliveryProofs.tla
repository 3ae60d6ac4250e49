------------------------- MODULE ResetDeliveryProofs -------------------------
(***************************************************************************)
(* Proofs about ResetDelivery, for any number of events, windows, desktops *)
(* and concurrent plugin captures, and any lease and freshness times.      *)
(*                                                                         *)
(* The argument counts tokens.  Every claim of an event takes the next     *)
(* token; while the event is not up for claiming, the last token is the    *)
(* only one that may still settle it, and it has not been released.  So    *)
(* the number of claims is exactly the number of reasons there were for    *)
(* one: the detection, the user's retries and the released attempts.       *)
(***************************************************************************)
EXTENDS ResetDelivery, FiniteSetTheorems, TLAPS

Owing(e) == events[e].state \in {"absent", "pending"}

\* The token bookkeeping of one event.
TokenInv(e) ==
  /\ seen[e] \subseteq 1..claims[e]
  /\ released[e] \subseteq 1..claims[e]
  /\ events[e].state = "delivering" => events[e].owner = claims[e]
  /\ ~Owing(e) => claims[e] \in Nat \ {0} /\ claims[e] \notin released[e]
  /\ events[e].state = "delivered" => claims[e] \in seen[e]
  /\ claims[e] + (IF Owing(e) THEN 1 ELSE 0) = 1 + retries[e] + Cardinality(released[e])

JournalInv == JournalTypeOK /\ \A e \in Event : TokenInv(e)

\* What a consumer knows about its claim.
JobInv(c) ==
  /\ job[c] # NoJob => job[c].token \in 1..claims[job[c].event]
  /\ pc[c] \in {"delivering", "settling"} => job[c] # NoJob
  /\ pc[c] = "settling" /\ outcome[c] = "shown" => job[c].token \in seen[job[c].event]

ProcessInv == ProcessTypeOK /\ \A c \in Consumer : JobInv(c)

IInv == JournalInv /\ ProcessInv

------------------------------------------------------------------------------
(* Lemmas about the journal's operations.                                  *)

\* The type assumptions on the time constants, in the form the provers need.
LEMMA Times == /\ LeaseTime \in Nat \ {0} /\ AdvertTime \in Nat \ {0}
               /\ FreshTime \in Nat \ {0} /\ Horizon \in Nat \ {0}
BY DeliveryAssumption

\* Writing well-typed columns keeps a row well-typed.
LEMMA RowUpdate ==
  ASSUME NEW r \in Row, NEW s \in State, NEW o \in Nat, NEW l \in -1..LeaseTime,
         NEW ch \in {"none", "desktop", "plugin"}
  PROVE  /\ [r EXCEPT !.state = s, !.owner = o, !.leaseLeft = l] \in Row
         /\ [r EXCEPT !.state = s, !.channel = ch, !.owner = o, !.leaseLeft = l] \in Row
BY DEF Row

\* A detected reset starts from a well-typed row.
LEMMA RowRecorded ==
  ASSUME NEW r \in Row, NEW n \in 1..Horizon
  PROVE  [r EXCEPT !.state = "pending", !.resetIn = n] \in Row
<1>1. n \in 0..Horizon /\ "pending" \in State
  BY Times DEF State
<1> QED
  BY <1>1 DEF Row

\* The passing of time keeps a row well-typed.
LEMMA RowAged ==
  ASSUME NEW r \in Row
  PROVE  /\ Aged(r) \in Row /\ Aged(r).state = r.state /\ Aged(r).owner = r.owner
         /\ r.leaseLeft \in Int /\ Aged(r).leaseLeft \in Int /\ Aged(r).leaseLeft <= r.leaseLeft
<1> DEFINE a == IF r.age <= FreshTime THEN r.age + 1 ELSE r.age
           n == IF r.resetIn > 0 THEN r.resetIn - 1 ELSE r.resetIn
           l == IF r.leaseLeft >= 0 THEN r.leaseLeft - 1 ELSE r.leaseLeft
<1>1. a \in 0..(FreshTime + 1) /\ n \in 0..Horizon /\ l \in -1..LeaseTime
  BY Times DEF Row
<1>2. Aged(r) = [r EXCEPT !.age = a, !.resetIn = n, !.leaseLeft = l]
  BY DEF Aged
<1>3. r.leaseLeft \in Int /\ l \in Int /\ l <= r.leaseLeft
  BY Times DEF Row
<1> HIDE DEF a, n, l
<1> QED
  BY <1>1, <1>2, <1>3 DEF Row

\* There are as many tokens as there were claims.
LEMMA TokensUpTo ==
  ASSUME NEW n \in Nat
  PROVE  IsFiniteSet(1..n) /\ Cardinality(1..n) = n
BY FS_Interval

\* Token sets are finite, so that their sizes are numbers.
LEMMA TokensFinite ==
  ASSUME NEW n \in Nat, NEW S \in SUBSET (1..n)
  PROVE  IsFiniteSet(S) /\ Cardinality(S) \in Nat /\ Cardinality(S) <= n
<1>1. IsFiniteSet(1..n) /\ Cardinality(1..n) = n
  BY TokensUpTo
<1> QED
  BY <1>1, FS_Subset, FS_CardinalityType

\* Marking expired leases as uncertain keeps the token bookkeeping.
LEMMA ExpireLeasesKeeps ==
  ASSUME JournalInv, ExpireLeases, UNCHANGED <<seen, retries>>
  PROVE  JournalInv'
<1> USE DEF JournalInv, ExpireLeases
<1>1. JournalTypeOK'
  BY SMTT(40) DEF JournalTypeOK, ExpireLease, Row, State
<1>2. ASSUME NEW e \in Event PROVE TokenInv(e)'
  <2>1. events'[e] = ExpireLease(events[e]) /\ TokenInv(e)
    OBVIOUS
  <2> QED
    BY <2>1 DEF TokenInv, Owing, ExpireLease, Expired, JournalTypeOK, Row, State
<1> QED
  BY <1>1, <1>2

\* Leasing a pending event hands out the next token.
LEMMA LeaseEventKeeps ==
  ASSUME JournalInv, NEW c, NEW e \in Event, events[e].state = "pending",
         LeaseEvent(c, e), UNCHANGED <<seen, retries>>
  PROVE  JournalInv'
<1> USE DEF JournalInv, LeaseEvent
<1>1. JournalTypeOK'
  <2>1. [events[e] EXCEPT !.state = "delivering", !.owner = claims[e] + 1,
                          !.leaseLeft = LeaseTime] \in Row
    <3>1. events[e] \in Row /\ "delivering" \in State /\ claims[e] + 1 \in Nat
          /\ LeaseTime \in -1..LeaseTime
      BY Times DEF JournalTypeOK, State
    <3> QED
      BY ZenonT(30), <3>1, RowUpdate
  <2>2. \A f \in Event : ExpireLease(events[f]) \in Row
    BY SMTT(40) DEF JournalTypeOK, ExpireLease, Row, State
  <2> QED
    BY <2>1, <2>2 DEF JournalTypeOK
<1>2. ASSUME NEW f \in Event, f # e PROVE TokenInv(f)'
  <2>1. events'[f] = ExpireLease(events[f]) /\ claims'[f] = claims[f] /\ TokenInv(f)
    BY <1>2 DEF JournalTypeOK
  <2> QED
    BY <2>1 DEF TokenInv, Owing, ExpireLease, Expired, JournalTypeOK, Row, State
<1>3. TokenInv(e)'
  <2>1. /\ events'[e].state = "delivering" /\ events'[e].owner = claims[e] + 1
        /\ claims'[e] = claims[e] + 1 /\ claims[e] \in Nat /\ TokenInv(e)
    BY DEF JournalTypeOK, Row, State
  <2>2. Cardinality(released[e]) \in Nat
    BY <2>1, TokensFinite DEF TokenInv
  <2> QED
    BY <2>1, <2>2 DEF TokenInv, Owing, JournalTypeOK
<1> QED
  BY <1>1, <1>2, <1>3

\* Settling acts on the holder of the last token only, and adds that token to
\* the released ones at most once.
LEMMA SettleKeeps ==
  ASSUME JournalInv, ProcessInv, NEW c \in Consumer, pc[c] = "settling",
         SettleResetEvent(c), UNCHANGED <<seen, retries>>
  PROVE  JournalInv'
<1> USE DEF JournalInv
<1>1. CASE ~HoldsLease(c)
  <2>1. UNCHANGED <<events, adverts, claims, released>>
    BY <1>1 DEF SettleResetEvent, db
  <2> QED
    BY <2>1 DEF JournalTypeOK, TokenInv, Owing
<1>2. CASE HoldsLease(c)
  <2> PICK e \in Event, t \in Nat : job[c].event = e /\ job[c].token = t
    BY DEF ProcessInv, ProcessTypeOK, JobInv, Job
  <2>1. outcome[c] = "shown" => t \in seen[e]
    BY DEF ProcessInv, JobInv
  <2>2. events[e].state = "delivering" /\ events[e].owner = t
    BY <1>2 DEF HoldsLease
  <2>3. TokenInv(e) /\ t = claims[e] /\ t \in Nat \ {0} /\ t \notin released[e]
    BY <2>1, <2>2 DEF TokenInv, Owing
  <2>4. CASE outcome[c] = "shown"
    <3>1. /\ events' = [events EXCEPT ![e] =
                 [@ EXCEPT !.state = "delivered", !.channel = ChannelOf(c),
                           !.owner = 0, !.leaseLeft = -1]]
          /\ UNCHANGED <<adverts, claims, released>>
      BY <1>2, <2>4 DEF SettleResetEvent
    <3>2. JournalTypeOK'
      <4>1. [events[e] EXCEPT !.state = "delivered", !.channel = ChannelOf(c),
                              !.owner = 0, !.leaseLeft = -1] \in Row
        <5>1. events[e] \in Row /\ "delivered" \in State /\ 0 \in Nat /\ -1 \in -1..LeaseTime
              /\ ChannelOf(c) \in {"none", "desktop", "plugin"}
          BY Times DEF JournalTypeOK, State, ChannelOf
        <5> QED
          BY ZenonT(30), <5>1, RowUpdate
      <4> QED
        BY SMTT(40), <3>1, <4>1, <2>1 DEF JournalTypeOK
    <3>3. ASSUME NEW f \in Event, f # e PROVE TokenInv(f)'
      <4>1. events'[f] = events[f] /\ TokenInv(f)
        BY <3>1, <3>3, <2>1 DEF JournalTypeOK
      <4> QED
        BY <3>1, <4>1 DEF TokenInv, Owing
    <3>4. TokenInv(e)'
      <4>1. events'[e].state = "delivered"
        BY <3>1, <2>1 DEF JournalTypeOK, Row
      <4> QED
        BY <3>1, <4>1, <2>1, <2>2, <2>3, <2>4 DEF TokenInv, Owing
    <3> QED
      BY <3>2, <3>3, <3>4
  <2>5. CASE outcome[c] # "shown"
    <3>1. /\ events' = [events EXCEPT ![e] =
                 [@ EXCEPT !.state = "pending", !.channel = "none",
                           !.owner = 0, !.leaseLeft = -1]]
          /\ released' = [released EXCEPT ![e] = @ \cup {t}]
          /\ UNCHANGED <<adverts, claims>>
      BY <1>2, <2>5 DEF SettleResetEvent
    <3>2. JournalTypeOK'
      <4>1. [events[e] EXCEPT !.state = "pending", !.channel = "none",
                              !.owner = 0, !.leaseLeft = -1] \in Row
        <5>1. events[e] \in Row /\ "pending" \in State /\ 0 \in Nat /\ -1 \in -1..LeaseTime
              /\ "none" \in {"none", "desktop", "plugin"}
          BY Times DEF JournalTypeOK, State
        <5> QED
          BY ZenonT(30), <5>1, RowUpdate
      <4> QED
        BY SMTT(40), <3>1, <4>1, <2>1 DEF JournalTypeOK
    <3>3. ASSUME NEW f \in Event, f # e PROVE TokenInv(f)'
      <4>1. events'[f] = events[f] /\ released'[f] = released[f] /\ TokenInv(f)
        BY <3>1, <3>3, <2>1 DEF JournalTypeOK
      <4> QED
        BY <3>1, <4>1 DEF TokenInv, Owing
    <3>4. TokenInv(e)'
      <4>1. events'[e].state = "pending" /\ released'[e] = released[e] \cup {t}
        BY <3>1, <2>1 DEF JournalTypeOK, Row
      <4>2. IsFiniteSet(released[e]) /\ Cardinality(released[e]) \in Nat
        BY <2>1, <2>3, TokensFinite DEF TokenInv, JournalTypeOK
      <4>3. Cardinality(released'[e]) = Cardinality(released[e]) + 1
        <5>1. t \notin released[e]
          BY <2>3
        <5>2. Cardinality(released[e] \cup {t}) = Cardinality(released[e]) + 1
          BY <4>2, <5>1, FS_AddElement
        <5> QED
          BY <5>2, <4>1
      <4>4. claims[e] = 1 + retries[e] + Cardinality(released[e])
        BY <2>2, <2>3 DEF TokenInv, Owing, JournalTypeOK
      <4>5. claims[e] + 1 = 1 + retries[e] + Cardinality(released'[e])
        BY <4>2, <4>3, <4>4 DEF JournalTypeOK
      <4>6. released'[e] \subseteq 1..claims[e] /\ seen[e] \subseteq 1..claims[e]
        BY <4>1, <2>3 DEF TokenInv, JournalTypeOK
      <4> QED
        BY <3>1, <4>1, <4>5, <4>6 DEF TokenInv, Owing
    <3> QED
      BY <3>2, <3>3, <3>4
  <2> QED
    BY <2>4, <2>5
<1> QED
  BY <1>1, <1>2

\* Advertising does not touch the events.
LEMMA AdvertiseKeeps ==
  ASSUME JournalInv, NEW d \in Desktop, NEW windows \in SUBSET Window,
         AdvertiseResetDesktop(d, windows), UNCHANGED <<seen, retries>>
  PROVE  JournalInv'
BY Times DEF JournalInv, JournalTypeOK, AdvertiseResetDesktop, TokenInv, Owing

\* A retry turns one more reason into one more claim that may follow.
LEMMA RetryKeeps ==
  ASSUME JournalInv, NEW e \in Event, Retryable(e), RetryUncertainReset(e),
         UNCHANGED seen
  PROVE  JournalInv'
<1> USE DEF JournalInv, RetryUncertainReset
<1>1. JournalTypeOK'
  <2>1. [events[e] EXCEPT !.state = "pending", !.owner = 0, !.leaseLeft = -1] \in Row
    <3>1. events[e] \in Row /\ "pending" \in State /\ 0 \in Nat /\ -1 \in -1..LeaseTime
          /\ "none" \in {"none", "desktop", "plugin"}
      BY Times DEF JournalTypeOK, State
    <3> QED
      BY ZenonT(30), <3>1, RowUpdate
  <2> QED
    BY SMTT(40), <2>1 DEF JournalTypeOK
<1>2. ASSUME NEW f \in Event, f # e PROVE TokenInv(f)'
  <2>1. events'[f] = events[f] /\ retries'[f] = retries[f] /\ TokenInv(f)
    BY <1>2 DEF JournalTypeOK
  <2> QED
    BY <2>1 DEF TokenInv, Owing
<1>3. TokenInv(e)'
  <2>1. events'[e].state = "pending" /\ retries'[e] = retries[e] + 1 /\ retries[e] \in Nat
    BY DEF JournalTypeOK, Row
  <2>2. ~Owing(e) /\ TokenInv(e) /\ claims[e] \in Nat
    BY DEF Retryable, Expired, Owing, JournalTypeOK
  <2>3. Cardinality(released[e]) \in Nat
    BY <2>2, TokensFinite DEF TokenInv
  <2> QED
    BY <2>1, <2>2, <2>3 DEF TokenInv, Owing
<1> QED
  BY <1>1, <1>2, <1>3

\* A notice that appears is one of the claims' notices.
LEMMA ShowKeeps ==
  ASSUME JournalInv, ProcessInv, NEW c \in Consumer, pc[c] = "delivering", Show(c),
         UNCHANGED <<events, adverts, claims, released, retries>>
  PROVE  JournalInv'
<1>1. /\ job[c] \in Job /\ job[c].event \in Event
      /\ job[c].token \in 1..claims[job[c].event]
  BY DEF ProcessInv, ProcessTypeOK, JobInv, Job
<1> QED
  BY <1>1 DEF JournalInv, JournalTypeOK, Show, TokenInv, Owing

\* Recording a reset and the passage of time keep the bookkeeping: neither
\* touches a token.
LEMMA RecordKeeps ==
  ASSUME JournalInv, NEW e \in Event, NEW resetIn \in 1..Horizon, RecordReset(e, resetIn)
  PROVE  JournalInv'
<1> USE DEF JournalInv, RecordReset
<1>1. JournalTypeOK'
  <2>1. [events[e] EXCEPT !.state = "pending", !.resetIn = resetIn] \in Row
    BY ZenonT(30), RowRecorded DEF JournalTypeOK
  <2> QED
    BY <2>1 DEF JournalTypeOK
<1>2. ASSUME NEW f \in Event PROVE TokenInv(f)'
  <2>1. /\ (Owing(f))' <=> Owing(f)
        /\ events'[f].state \in {"delivering", "delivered"} => events'[f] = events[f]
    BY DEF Owing, JournalTypeOK, Row
  <2> QED
    BY <2>1 DEF TokenInv, Owing
<1> QED
  BY <1>1, <1>2

\* The clock touches no token and no claim.
LEMMA TickKeeps ==
  ASSUME JournalInv, Tick
  PROVE  JournalInv'
<1> USE DEF JournalInv, Tick
<1>1. JournalTypeOK'
  <2>1. ASSUME NEW e \in Event PROVE events'[e] \in Row
    BY RowAged DEF JournalTypeOK
  <2>2. ASSUME NEW d \in Desktop PROVE adverts'[d] \in [watched : SUBSET Window, left : 0..AdvertTime]
    <3>1. adverts[d] \in [watched : SUBSET Window, left : 0..AdvertTime]
      BY DEF JournalTypeOK
    <3>2. adverts'[d] = [adverts[d] EXCEPT !.left = IF @ > 0 THEN @ - 1 ELSE @]
      OBVIOUS
    <3>3. (IF adverts[d].left > 0 THEN adverts[d].left - 1 ELSE adverts[d].left) \in 0..AdvertTime
      BY <3>1, Times
    <3> QED
      BY <3>1, <3>2, <3>3
  <2> QED
    BY <2>1, <2>2 DEF JournalTypeOK
<1>2. ASSUME NEW f \in Event PROVE TokenInv(f)'
  <2>1. events'[f].state = events[f].state /\ events'[f].owner = events[f].owner
    BY RowAged DEF JournalTypeOK
  <2> QED
    BY <2>1 DEF TokenInv, Owing
<1> QED
  BY <1>1, <1>2

------------------------------------------------------------------------------
(* Lemmas about the processes.                                             *)

\* Tokens and appearances are only ever added.
Growing ==
  /\ claims' \in [Event -> Nat]
  /\ \A e \in Event : claims[e] <= claims'[e] /\ seen[e] \subseteq seen'[e]

\* A claim in hand stays one of the claims made, as claims are never taken back.
LEMMA JobsSurvive ==
  ASSUME JournalInv, ProcessInv, Growing, ProcessTypeOK', NEW c,
         \A x \in Consumer \ {c} :
           pc'[x] = pc[x] /\ job'[x] = job[x] /\ outcome'[x] = outcome[x],
         c \in Consumer => JobInv(c)'
  PROVE  ProcessInv'
<1>1. ASSUME NEW x \in Consumer, x # c PROVE JobInv(x)'
  <2>1. JobInv(x) /\ pc'[x] = pc[x] /\ job'[x] = job[x] /\ outcome'[x] = outcome[x]
    BY <1>1 DEF ProcessInv
  <2>2. CASE job[x] = NoJob
    BY <2>1, <2>2 DEF JobInv
  <2>3. CASE job[x] # NoJob
    <3>1. job[x].event \in Event
      BY <2>3 DEF ProcessInv, ProcessTypeOK, Job
    <3>2. claims[job[x].event] \in Nat /\ claims'[job[x].event] \in Nat
      BY <3>1 DEF Growing, JournalInv, JournalTypeOK
    <3>3. 1..claims[job[x].event] \subseteq 1..claims'[job[x].event]
      BY <3>1, <3>2 DEF Growing
    <3> QED
      BY <2>1, <2>3, <3>1, <3>3 DEF JobInv, Growing
  <2> QED
    BY <2>2, <2>3
<1> QED
  BY <1>1 DEF ProcessInv

\* A step that leaves the consumers alone keeps what they know.
LEMMA ProcessesUntouched ==
  ASSUME JournalInv, ProcessInv, Growing, ProcessTypeOK', UNCHANGED <<pc, job, outcome>>
  PROVE  ProcessInv'
<1>1. ASSUME NEW x \in Consumer PROVE JobInv(x)'
  <2>2. JobInv(x)
    BY DEF ProcessInv
  <2>3. CASE job[x] = NoJob
    BY <2>2, <2>3 DEF JobInv
  <2>4. CASE job[x] # NoJob
    <3>1. job[x].event \in Event
      BY <2>4 DEF ProcessInv, ProcessTypeOK, Job
    <3>2. 1..claims[job[x].event] \subseteq 1..claims'[job[x].event]
      BY <3>1 DEF Growing, JournalInv, JournalTypeOK
    <3> QED
      BY <2>2, <2>4, <3>1, <3>2 DEF JobInv, Growing
  <2> QED
    BY <2>3, <2>4
<1> QED
  BY <1>1 DEF ProcessInv

\* A consumer that drops its claim knows nothing any more.
LEMMA DroppedJob ==
  ASSUME NEW c \in Consumer, job \in [Consumer -> Job \cup {NoJob}],
         DropJob(c), pc'[c] \notin {"delivering", "settling"}
  PROVE  JobInv(c)'
BY DEF DropJob, JobInv

------------------------------------------------------------------------------
(* Every step keeps the invariant: one lemma per group of actions.         *)

\* The empty journal and idle processes satisfy the invariant.
LEMMA InitInv == Init => IInv
<1> SUFFICES ASSUME Init PROVE IInv
  OBVIOUS
<1> USE DEF Init
<1>1. JournalTypeOK
  BY Times DEF JournalTypeOK, Row, State
<1>2. ProcessTypeOK
  BY DEF ProcessTypeOK
<1>3. \A e \in Event : TokenInv(e)
  BY FS_EmptySet DEF TokenInv, Owing
<1>4. \A c \in Consumer : JobInv(c)
  BY DEF JobInv
<1> QED
  BY <1>1, <1>2, <1>3, <1>4 DEF IInv, JournalInv, ProcessInv

\* Steps of the environment.
LEMMA EnvironmentInv ==
  ASSUME IInv, Tick \/ Environment
  PROVE  IInv'
<1> USE DEF IInv, runtime
<1>1. CASE Tick
  <2>1. Growing /\ ProcessTypeOK'
    BY <1>1 DEF Tick, Growing, JournalInv, JournalTypeOK, ProcessInv, ProcessTypeOK
  <2>2. ProcessInv'
    BY <1>1, <2>1, ProcessesUntouched DEF Tick
  <2> QED
    BY <1>1, <2>2, TickKeeps
<1>2. ASSUME NEW e \in Event, NEW resetIn \in 1..Horizon, RecordReset(e, resetIn) PROVE IInv'
  <2>1. Growing /\ ProcessTypeOK'
    BY <1>2 DEF RecordReset, Growing, JournalInv, JournalTypeOK, ProcessInv, ProcessTypeOK
  <2>2. ProcessInv'
    BY <1>2, <2>1, ProcessesUntouched DEF RecordReset
  <2> QED
    BY <1>2, <2>2, RecordKeeps
<1>3. ASSUME NEW c \in Consumer, NEW windows \in SUBSET Window, ReloadSettings(c, windows)
      PROVE  IInv'
  <2>1. Growing /\ ProcessTypeOK'
    <3>1. Growing
      BY <1>3 DEF ReloadSettings, db, Growing, JournalInv, JournalTypeOK
    <3>2. watched' \in [Consumer -> SUBSET Window]
      BY <1>3 DEF ReloadSettings, ProcessInv, ProcessTypeOK
    <3>3. failed' \in [Desktop -> BOOLEAN] /\ denied' \in [Desktop -> BOOLEAN]
      BY <1>3 DEF ReloadSettings, ProcessInv, ProcessTypeOK
    <3> QED
      BY <1>3, <3>1, <3>2, <3>3 DEF ReloadSettings, ProcessInv, ProcessTypeOK
  <2>2. ProcessInv'
    BY <1>3, <2>1, ProcessesUntouched DEF ReloadSettings
  <2>3. JournalInv'
    BY <1>3 DEF ReloadSettings, db, JournalInv, JournalTypeOK, TokenInv, Owing
  <2> QED
    BY <2>2, <2>3
<1>4. ASSUME NEW c \in Consumer, Stop(c) PROVE IInv'
  <2>1. Growing /\ ProcessTypeOK'
    BY <1>4 DEF Stop, DropJob, db, Growing, JournalInv, JournalTypeOK, ProcessInv, ProcessTypeOK
  <2>2. JobInv(c)'
    BY <1>4, DroppedJob DEF Stop, ProcessInv, ProcessTypeOK
  <2>3. ProcessInv'
    BY <1>4, <2>1, <2>2, JobsSurvive DEF Stop, DropJob, ProcessInv, ProcessTypeOK
  <2>4. JournalInv'
    BY <1>4 DEF Stop, db, JournalInv, JournalTypeOK, TokenInv, Owing
  <2> QED
    BY <2>3, <2>4
<1>5. ASSUME NEW d \in Desktop, NEW e \in Event, Retry(d, e) PROVE IInv'
  <2>1. Growing /\ ProcessTypeOK'
    <3>1. Growing
      BY <1>5 DEF Retry, RetryUncertainReset, Growing, JournalInv, JournalTypeOK
    <3>2. failed' \in [Desktop -> BOOLEAN] /\ denied' \in [Desktop -> BOOLEAN]
      BY <1>5 DEF Retry, ProcessInv, ProcessTypeOK
    <3> QED
      BY <1>5, <3>1, <3>2 DEF Retry, ProcessInv, ProcessTypeOK
  <2>2. ProcessInv'
    BY <1>5, <2>1, ProcessesUntouched DEF Retry
  <2>3. JournalInv'
    BY <1>5, RetryKeeps DEF Retry
  <2> QED
    BY <2>2, <2>3
<1> QED
  BY <1>1, <1>2, <1>3, <1>4, <1>5, DeliveryAssumption DEF Environment

\* Claiming and showing, which both channels share.
LEMMA DeliveryInv ==
  ASSUME IInv, NEW c \in Consumer,
         \/ \E windows : TakeEvent(c, windows)
         \/ DeliverShown(c) \/ DeliverFailed(c)
  PROVE  IInv'
<1> USE DEF IInv, runtime, db
<1>1. ASSUME NEW windows, TakeEvent(c, windows) PROVE IInv'
  <2> PICK e \in Oldest(Claimable(c, windows)) :
        /\ LeaseEvent(c, e)
        /\ job' = [job EXCEPT ![c] = [event |-> e, token |-> claims[e] + 1]]
        /\ pc' = [pc EXCEPT ![c] = "delivering"]
        /\ UNCHANGED <<runtime, watched, seen, retries, denied>>
    BY <1>1 DEF TakeEvent
  <2>1. e \in Event /\ events[e].state = "pending"
    BY DEF Oldest, Claimable
  <2>2. JournalInv'
    BY <2>1, LeaseEventKeeps
  <2>3. claims[e] \in Nat
    BY <2>1 DEF JournalInv, JournalTypeOK
  <2>4. [event |-> e, token |-> claims[e] + 1] \in Job
    BY <2>1, <2>3 DEF Job
  <2>5. Growing /\ ProcessTypeOK'
    BY <2>1, <2>3, <2>4 DEF LeaseEvent, Growing, JournalInv, JournalTypeOK, ProcessInv, ProcessTypeOK
  <2>6. job'[c] = [event |-> e, token |-> claims[e] + 1] /\ pc'[c] = "delivering"
    BY DEF ProcessInv, ProcessTypeOK
  <2>7. claims'[e] = claims[e] + 1
    BY <2>1 DEF LeaseEvent, JournalInv, JournalTypeOK
  <2>8. JobInv(c)'
    BY <2>1, <2>3, <2>4, <2>6, <2>7, DeliveryAssumption DEF JobInv
  <2>9. ProcessInv'
    BY <2>5, <2>8, JobsSurvive DEF ProcessInv, ProcessTypeOK
  <2> QED
    BY <2>2, <2>9
<1>2. ASSUME pc[c] = "delivering", Show(c) \/ UNCHANGED seen, NEW result,
             Conclude(c, result), result = "shown" => Show(c),
             result \in {"shown", "failed"}
      PROVE  IInv'
  <2> PICK e \in Event, t \in Nat : job[c] \in Job /\ job[c].event = e /\ job[c].token = t
    BY <1>2 DEF ProcessInv, ProcessTypeOK, JobInv, Job
  <2>1. JournalInv'
    <3>1. CASE Show(c)
      BY <1>2, <3>1, ShowKeeps DEF Conclude
    <3>2. CASE UNCHANGED seen
      BY <1>2, <3>2 DEF Conclude, JournalInv, JournalTypeOK, TokenInv, Owing
    <3> QED
      BY <1>2, <3>1, <3>2
  <2>2. Growing
    BY <1>2 DEF Conclude, Show, Growing, JournalInv, JournalTypeOK
  <2>3. ProcessTypeOK'
    BY <1>2 DEF Conclude, ProcessInv, ProcessTypeOK
  <2>4. JobInv(c)'
    <3>1. job'[c] = job[c] /\ job[c] # NoJob /\ t \in 1..claims'[e]
      BY <1>2, DeliveryAssumption DEF Conclude, ProcessInv, JobInv
    <3>2. outcome'[c] = result
      BY <1>2 DEF Conclude, ProcessInv, ProcessTypeOK
    <3>3. result = "shown" => t \in seen'[e]
      BY <1>2 DEF Show, JournalInv, JournalTypeOK
    <3> QED
      BY <3>1, <3>2, <3>3 DEF JobInv
  <2>5. ProcessInv'
    BY <1>2, <2>2, <2>3, <2>4, JobsSurvive DEF Conclude, ProcessInv, ProcessTypeOK
  <2> QED
    BY <2>1, <2>5
<1>3. CASE DeliverShown(c)
  BY <1>2, <1>3 DEF DeliverShown
<1>4. CASE DeliverFailed(c)
  BY <1>2, <1>4 DEF DeliverFailed
<1> QED
  BY <1>1, <1>3, <1>4

\* A step in which consumer c goes on without a claim, or with none yet.
LEMMA WithoutJob ==
  ASSUME IInv, NEW c \in Consumer, NEW next \in {"idle", "advertising", "claiming", "withdrawing"},
         pc' = [pc EXCEPT ![c] = next], DropJob(c),
         JournalInv', Growing,
         UNCHANGED watched, UNCHANGED denied,
         plan' \in [Desktop -> SUBSET Window], failed' \in [Desktop -> BOOLEAN],
         advertised' \in [Desktop -> BOOLEAN]
  PROVE  IInv'
<1> USE DEF IInv
<1>1. ProcessTypeOK'
  BY DEF DropJob, ProcessInv, ProcessTypeOK
<1>2. JobInv(c)'
  BY DroppedJob DEF ProcessInv, ProcessTypeOK
<1>3. ProcessInv'
  BY <1>1, <1>2, JobsSurvive DEF DropJob, ProcessInv, ProcessTypeOK
<1> QED
  BY <1>3

\* The database work a consumer may have waited for.
LEMMA WorkKeeps ==
  ASSUME IInv, NEW c \in Consumer, UNCHANGED <<seen, retries>>,
         \/ UNCHANGED db
         \/ ExpireLeases
         \/ \E d \in Desktop : \E windows \in SUBSET Window : AdvertiseResetDesktop(d, windows)
         \/ \E windows : \E e \in Oldest(Claimable(c, windows)) : LeaseEvent(c, e)
         \/ pc[c] = "settling" /\ SettleResetEvent(c)
  PROVE  JournalInv' /\ Growing
<1> USE DEF IInv
<1>1. CASE UNCHANGED db
  BY <1>1 DEF db, Growing, JournalInv, JournalTypeOK, TokenInv, Owing
<1>2. CASE ExpireLeases
  <2>1. Growing
    BY <1>2 DEF ExpireLeases, Growing, JournalInv, JournalTypeOK
  <2> QED
    BY <1>2, <2>1, ExpireLeasesKeeps
<1>3. ASSUME NEW d \in Desktop, NEW windows \in SUBSET Window, AdvertiseResetDesktop(d, windows)
      PROVE  JournalInv' /\ Growing
  <2>1. Growing
    BY <1>3 DEF AdvertiseResetDesktop, Growing, JournalInv, JournalTypeOK
  <2> QED
    BY <1>3, <2>1, AdvertiseKeeps
<1>4. ASSUME NEW windows, NEW e \in Oldest(Claimable(c, windows)), LeaseEvent(c, e)
      PROVE  JournalInv' /\ Growing
  <2>1. e \in Event /\ events[e].state = "pending"
    BY DEF Oldest, Claimable
  <2>2. Growing
    <3>1. claims \in [Event -> Nat] /\ UNCHANGED seen /\ claims' = [claims EXCEPT ![e] = @ + 1]
      BY ZenonT(30), <1>4 DEF LeaseEvent, JournalInv, JournalTypeOK
    <3> QED
      BY <3>1, <2>1 DEF Growing
  <2> QED
    BY <1>4, <2>1, <2>2, LeaseEventKeeps
<1>5. CASE pc[c] = "settling" /\ SettleResetEvent(c)
  <2>1. Growing
    BY <1>5 DEF SettleResetEvent, db, Growing, JournalInv, JournalTypeOK
  <2> QED
    BY <1>5, <2>1, SettleKeeps
<1> QED
  BY <1>1, <1>2, <1>3, <1>4, <1>5

\* Steps of a desktop runtime.
LEMMA DesktopInv ==
  ASSUME IInv, NEW d \in Desktop, DesktopStep(d)
  PROVE  IInv'
<1> d \in Consumer
  BY DEF Consumer
<1> DEFINE Runtime == /\ plan' \in [Desktop -> SUBSET Window]
                      /\ failed' \in [Desktop -> BOOLEAN]
                      /\ advertised' \in [Desktop -> BOOLEAN]
<1>0. /\ plan \in [Desktop -> SUBSET Window] /\ plan[d] \in SUBSET Window
      /\ failed \in [Desktop -> BOOLEAN] /\ advertised \in [Desktop -> BOOLEAN]
      /\ watched \in [Consumer -> SUBSET Window] /\ {} \in SUBSET Window
  BY DEF IInv, ProcessInv, ProcessTypeOK
<1>1. ASSUME NEW supported \in BOOLEAN, BeginTick(d, supported) PROVE IInv'
  <2>1. Growing /\ ProcessTypeOK'
    <3>1. Growing
      BY <1>1 DEF BeginTick, db, Growing, IInv, JournalInv, JournalTypeOK
    <3>2. plan' \in [Desktop -> SUBSET Window]
      BY <1>0, <1>1 DEF BeginTick
    <3> QED
      BY <1>1, <3>1, <3>2 DEF BeginTick, IInv, ProcessInv, ProcessTypeOK
  <2>2. JournalInv'
    BY <1>1 DEF BeginTick, db, IInv, JournalInv, JournalTypeOK, TokenInv, Owing
  <2>3. JobInv(d)'
    <3>1. pc'[d] = "advertising" /\ job'[d] = job[d] /\ JobInv(d)
      BY <1>1 DEF BeginTick, IInv, ProcessInv, ProcessTypeOK
    <3> QED
      BY <1>1, <3>1 DEF BeginTick, db, JobInv
  <2>4. ProcessInv'
    BY <1>1, <2>1, <2>3, JobsSurvive DEF BeginTick, IInv, ProcessInv, ProcessTypeOK
  <2> QED
    BY <2>2, <2>4 DEF IInv
<1>2. CASE Advertise(d)
  <2>1. JournalInv' /\ Growing
    BY <1>0, <1>2, WorkKeeps DEF Advertise
  <2>2. ProcessTypeOK'
    BY <1>2 DEF Advertise, IInv, ProcessInv, ProcessTypeOK
  <2>3. JobInv(d)'
    <3>1. pc'[d] \in {"idle", "claiming"} /\ job'[d] = job[d] /\ JobInv(d) /\ claims' = claims
      BY <1>2 DEF Advertise, AdvertiseResetDesktop, IInv, ProcessInv, ProcessTypeOK
    <3> QED
      BY <1>2, <3>1 DEF Advertise, JobInv
  <2>4. ProcessInv'
    BY <1>2, <2>1, <2>2, <2>3, JobsSurvive DEF Advertise, IInv, ProcessInv, ProcessTypeOK
  <2> QED
    BY <2>1, <2>4 DEF IInv
<1>3. CASE ClaimDesktop(d)
  BY <1>3, DeliveryInv DEF ClaimDesktop
<1>4. CASE ClaimNothing(d)
  <2>1. JournalInv' /\ Growing
    BY <1>4, WorkKeeps DEF ClaimNothing
  <2> QED
    BY <1>0, <1>4, <2>1, WithoutJob DEF ClaimNothing, EndTick
<1>5. CASE DeliverShown(d) \/ DeliverFailed(d)
  BY <1>5, DeliveryInv
<1>6. CASE DeliverUncertain(d)
  <2>1. JournalInv'
    <3>1. CASE Show(d)
      BY <1>6, <3>1, ShowKeeps DEF DeliverUncertain, db, IInv
    <3>2. CASE UNCHANGED seen
      BY <1>6, <3>2, WorkKeeps DEF DeliverUncertain
    <3> QED
      BY <1>6, <3>1, <3>2 DEF DeliverUncertain
  <2>2. Growing
    BY <1>6 DEF DeliverUncertain, Show, db, Growing, IInv, JournalInv, JournalTypeOK
  <2> QED
    BY <1>0, <1>6, <2>1, <2>2, WithoutJob DEF DeliverUncertain, EndTick
<1>7. CASE SettleDesktop(d)
  <2>1. JournalInv' /\ Growing
    BY <1>7, WorkKeeps DEF SettleDesktop
  <2>2. failed' \in [Desktop -> BOOLEAN]
    BY <1>0, <1>7 DEF SettleDesktop
  <2>3. PICK next \in {"idle", "withdrawing"} : pc' = [pc EXCEPT ![d] = next]
    BY <1>7 DEF SettleDesktop
  <2> QED
    BY <1>0, <1>7, <2>1, <2>2, <2>3, WithoutJob DEF SettleDesktop
<1>8. CASE Withdraw(d)
  <2>1. JournalInv' /\ Growing
    BY <1>0, <1>8, WorkKeeps DEF Withdraw
  <2>2. advertised' \in [Desktop -> BOOLEAN]
    BY <1>0, <1>8 DEF Withdraw
  <2> QED
    BY <1>0, <1>8, <2>1, <2>2, WithoutJob DEF Withdraw, EndTick
<1>9. CASE RequestFails(d)
  <2>1. JournalInv' /\ Growing
    BY <1>0, <1>9, WorkKeeps DEF RequestFails, RequestedWork
  <2> QED
    BY <1>0, <1>9, <2>1, WithoutJob DEF RequestFails, EndTick
<1> QED
  BY <1>1, <1>2, <1>3, <1>4, <1>5, <1>6, <1>7, <1>8, <1>9 DEF DesktopStep

\* Steps of a plugin capture.
LEMMA PluginInv ==
  ASSUME IInv, NEW p \in Plugin, PluginStep(p)
  PROVE  IInv'
<1> p \in Consumer
  BY DEF Consumer
<1>1. CASE ClaimPlugin(p)
  BY <1>1, DeliveryInv DEF ClaimPlugin
<1>2. CASE DeliverShown(p) \/ DeliverFailed(p)
  BY <1>2, DeliveryInv
<1>3. CASE SettlePlugin(p)
  <2>1. JournalInv' /\ Growing
    BY <1>3, WorkKeeps DEF SettlePlugin
  <2>2. /\ plan' \in [Desktop -> SUBSET Window] /\ failed' \in [Desktop -> BOOLEAN]
        /\ advertised' \in [Desktop -> BOOLEAN]
    BY <1>3 DEF SettlePlugin, IInv, ProcessInv, ProcessTypeOK
  <2> QED
    BY <1>3, <2>1, <2>2, WithoutJob DEF SettlePlugin, EndTick
<1> QED
  BY <1>1, <1>2, <1>3 DEF PluginStep

------------------------------------------------------------------------------
(* The invariant and what follows from it.                                 *)

\* Every step keeps the invariant.
LEMMA NextInv ==
  ASSUME IInv, [Next]_vars
  PROVE  IInv'
<1>1. CASE Tick \/ Environment
  BY <1>1, EnvironmentInv
<1>2. CASE \E d \in Desktop : DesktopStep(d)
  BY <1>2, DesktopInv
<1>3. CASE \E p \in Plugin : PluginStep(p)
  BY <1>3, PluginInv
<1>4. CASE UNCHANGED vars
  BY <1>4 DEF vars, db, runtime, IInv, JournalInv, JournalTypeOK, TokenInv, Owing,
              ProcessInv, ProcessTypeOK, JobInv
<1> QED
  BY <1>1, <1>2, <1>3, <1>4 DEF Next

\* The token bookkeeping holds in every reachable state, whatever interleaving
\* of desktops, plugins, helper failures and clock ticks led there.
THEOREM InductiveInvariant == Spec => []IInv
BY InitInv, NextInv, PTL DEF Spec

\* Type correctness of the journal and of the processes around it.
THEOREM TypeCorrect == Spec => []TypeOK
<1>1. IInv => TypeOK
  BY DEF IInv, JournalInv, ProcessInv, TypeOK
<1> QED
  BY <1>1, InductiveInvariant, PTL

\* A notice is never repeated without a reason: see NoUnaskedDuplicate.
THEOREM NoUnaskedDuplicates == Spec => []NoUnaskedDuplicate
<1>1. ASSUME IInv, NEW e \in Event PROVE Cardinality(seen[e] \ released[e]) <= 1 + retries[e]
  <2>1. /\ claims[e] \in Nat /\ retries[e] \in Nat /\ TokenInv(e)
        /\ seen[e] \subseteq 1..claims[e] /\ released[e] \subseteq 1..claims[e]
    BY <1>1 DEF IInv, JournalInv, JournalTypeOK, TokenInv
  <2> DEFINE All == 1..claims[e]
  <2>2. IsFiniteSet(All) /\ Cardinality(All) = claims[e]
    BY <2>1, TokensUpTo
  <2>3. /\ IsFiniteSet(All \ released[e])
        /\ Cardinality(All \ released[e]) = claims[e] - Cardinality(All \cap released[e])
    BY <2>2, FS_Difference
  <2>4. All \cap released[e] = released[e]
    BY <2>1
  <2>5. Cardinality(released[e]) \in Nat
    BY <2>1, TokensFinite
  <2>6. claims[e] - Cardinality(released[e]) <= 1 + retries[e]
    BY <2>1, <2>5 DEF TokenInv
  <2>7. Cardinality(seen[e] \ released[e]) <= Cardinality(All \ released[e])
    <3>1. seen[e] \ released[e] \in SUBSET (All \ released[e])
      BY <2>1
    <3> QED
      BY <2>3, <3>1, FS_Subset
  <2>8. Cardinality(seen[e] \ released[e]) \in Nat /\ Cardinality(All \ released[e]) \in Nat
    <3>1. IsFiniteSet(seen[e] \ released[e])
      BY <2>1, <2>3, FS_Subset
    <3> QED
      BY <2>3, <3>1, FS_CardinalityType
  <2>9. Cardinality(All \ released[e]) = claims[e] - Cardinality(released[e])
    BY <2>3, <2>4
  <2> HIDE DEF All
  <2> QED
    BY <2>1, <2>5, <2>6, <2>7, <2>8, <2>9
<1>2. IInv => NoUnaskedDuplicate
  BY <1>1 DEF NoUnaskedDuplicate
<1> QED
  BY <1>2, InductiveInvariant, PTL

\* An acknowledgement is never credited to an attempt that showed nothing.
THEOREM DeliveredWasReallySeen == Spec => []DeliveredWasSeen
<1>1. IInv => DeliveredWasSeen
  BY DEF IInv, JournalInv, TokenInv, DeliveredWasSeen
<1> QED
  BY <1>1, InductiveInvariant, PTL

------------------------------------------------------------------------------
(* What a step may never do.                                               *)

\* A settlement that takes effect comes from the holder of a running lease.
LEMMA SettleEffect ==
  ASSUME IInv, NEW c \in Consumer, pc[c] = "settling", SettleResetEvent(c), NEW e \in Event,
         events'[e].state # events[e].state
  PROVE  /\ events[e].state = "delivering" /\ events[e].leaseLeft >= 0
         /\ job[c].event = e /\ job[c].token = events[e].owner
<1>1. HoldsLease(c)
  BY DEF SettleResetEvent, db
<1>2. job[c].event = e
  BY <1>1 DEF SettleResetEvent, IInv, JournalInv, JournalTypeOK
<1> QED
  BY <1>1, <1>2 DEF HoldsLease

\* Apart from settlements and retries, rows only become delivering when pending
\* and uncertain when their lease has run out.
StateMoves(e) ==
  \/ events'[e].state = events[e].state
  \/ events[e].state = "absent" /\ events'[e].state = "pending"
  \/ events[e].state = "pending" /\ events'[e].state = "delivering"
  \/ Expired(events[e]) /\ events'[e].state = "uncertain"
  \/ events[e].state = "delivering" /\ events[e].leaseLeft >= 0
       /\ events'[e].state \in {"pending", "delivered"}
  \/ Retryable(e) /\ events'[e].state = "pending" /\ retries'[e] = retries[e] + 1

\* What the database work of a request may do to the state of an event.
LEMMA WorkMoves ==
  ASSUME IInv, NEW c \in Consumer, NEW e \in Event,
         \/ UNCHANGED db
         \/ ExpireLeases
         \/ \E d \in Desktop : \E windows : AdvertiseResetDesktop(d, windows)
         \/ \E windows : \E f \in Oldest(Claimable(c, windows)) : LeaseEvent(c, f)
         \/ pc[c] = "settling" /\ SettleResetEvent(c)
  PROVE  StateMoves(e)
<1>1. CASE UNCHANGED db
  BY <1>1 DEF db, StateMoves
<1>2. CASE ExpireLeases
  BY <1>2 DEF ExpireLeases, ExpireLease, StateMoves, IInv, JournalInv, JournalTypeOK, Row
<1>3. CASE \E d \in Desktop : \E windows : AdvertiseResetDesktop(d, windows)
  BY <1>3 DEF AdvertiseResetDesktop, StateMoves
<1>4. ASSUME NEW windows, NEW f \in Oldest(Claimable(c, windows)), LeaseEvent(c, f)
      PROVE  StateMoves(e)
  <2>1. f \in Event /\ events[f].state = "pending"
    BY DEF Oldest, Claimable
  <2>2. CASE e = f
    BY ZenonT(30), <1>4, <2>1, <2>2 DEF LeaseEvent, StateMoves, IInv, JournalInv, JournalTypeOK, Row
  <2>3. CASE e # f
    BY ZenonT(30), <1>4, <2>1, <2>3 DEF LeaseEvent, ExpireLease, StateMoves, IInv, JournalInv, JournalTypeOK, Row
  <2> QED
    BY <2>2, <2>3
<1>5. CASE pc[c] = "settling" /\ SettleResetEvent(c)
  <2>1. CASE events'[e].state = events[e].state
    BY <2>1 DEF StateMoves
  <2>2. CASE events'[e].state # events[e].state
    <3>1. /\ events[e].state = "delivering" /\ events[e].leaseLeft >= 0 /\ job[c].event = e
      BY <1>5, <2>2, SettleEffect
    <3>2. HoldsLease(c)
      BY <1>5, <2>2 DEF SettleResetEvent, db
    <3>3. events'[e].state \in {"pending", "delivered"}
      <4>1. events[e] \in Row /\ events \in [Event -> Row]
        BY DEF IInv, JournalInv, JournalTypeOK
      <4>2. PICK s \in {"pending", "delivered"} :
              events' = [events EXCEPT ![e] =
                 [@ EXCEPT !.state = s,
                           !.channel = IF outcome[c] = "shown" THEN ChannelOf(c) ELSE "none",
                           !.owner = 0, !.leaseLeft = -1]]
        BY <1>5, <3>1, <3>2 DEF SettleResetEvent
      <4> QED
        BY <4>1, <4>2 DEF Row
    <3> QED
      BY <3>1, <3>3 DEF StateMoves
  <2> QED
    BY <2>1, <2>2
<1> QED
  BY <1>1, <1>2, <1>3, <1>4, <1>5

\* What any step may do to the state of an event.
LEMMA NextMoves ==
  ASSUME IInv, [Next]_vars, NEW e \in Event
  PROVE  StateMoves(e)
<1> USE DEF StateMoves
<1>1. CASE UNCHANGED vars
  BY <1>1 DEF vars, db
<1>2. CASE Tick
  BY <1>2, RowAged DEF Tick, IInv, JournalInv, JournalTypeOK
<1>3. CASE Environment
  <2>1. ASSUME NEW f \in Event, NEW resetIn \in 1..Horizon, RecordReset(f, resetIn) PROVE StateMoves(e)
    BY <2>1 DEF RecordReset, IInv, JournalInv, JournalTypeOK, Row
  <2>2. ASSUME NEW c \in Consumer, Stop(c) \/ \E windows : ReloadSettings(c, windows) PROVE StateMoves(e)
    BY <2>2 DEF Stop, ReloadSettings, db
  <2>3. ASSUME NEW d \in Desktop, NEW f \in Event, Retry(d, f) PROVE StateMoves(e)
    BY <2>3 DEF Retry, RetryUncertainReset, IInv, JournalInv, JournalTypeOK, Row
  <2> QED
    BY <1>3, <2>1, <2>2, <2>3, DeliveryAssumption DEF Environment
<1>4. ASSUME NEW c \in Consumer, DeliverShown(c) \/ DeliverFailed(c) \/ DeliverUncertain(c)
      PROVE  StateMoves(e)
  BY <1>4 DEF DeliverShown, DeliverFailed, DeliverUncertain, Conclude, db
<1>5. ASSUME NEW d \in Desktop, DesktopStep(d) PROVE StateMoves(e)
  <2> d \in Consumer
    BY DEF Consumer
  <2>1. CASE \E supported \in BOOLEAN : BeginTick(d, supported)
    BY <2>1 DEF BeginTick, db
  <2>2. CASE Advertise(d) \/ Withdraw(d)
    BY <2>2, WorkMoves DEF Advertise, Withdraw
  <2>3. CASE ClaimDesktop(d) \/ ClaimNothing(d)
    BY <2>3, WorkMoves DEF ClaimDesktop, TakeEvent, ClaimNothing
  <2>4. CASE SettleDesktop(d)
    BY <2>4, WorkMoves DEF SettleDesktop
  <2>5. CASE RequestFails(d)
    BY <2>5, WorkMoves DEF RequestFails, RequestedWork
  <2> QED
    BY <1>4, <1>5, <2>1, <2>2, <2>3, <2>4, <2>5 DEF DesktopStep
<1>6. ASSUME NEW p \in Plugin, PluginStep(p) PROVE StateMoves(e)
  <2> p \in Consumer
    BY DEF Consumer
  <2>1. CASE ClaimPlugin(p)
    BY <2>1, WorkMoves DEF ClaimPlugin, TakeEvent
  <2>2. CASE SettlePlugin(p)
    BY <2>2, WorkMoves DEF SettlePlugin
  <2> QED
    BY <1>4, <1>6, <2>1, <2>2 DEF PluginStep
<1> HIDE DEF StateMoves
<1> QED
  BY <1>1, <1>2, <1>3, <1>5, <1>6 DEF Next

\* No late settlement, claim or clock tick takes an event out of doubt: only the
\* user's retry does.
THEOREM LapsedLeaseFinal == Spec => LapsedLeaseIsFinal
<1>1. ASSUME IInv, [Next]_vars, NEW e \in Event,
             \/ events[e].state = "uncertain"
             \/ events[e].state = "delivering" /\ events[e].leaseLeft < 0
      PROVE  \/ events'[e].state \in {"uncertain", events[e].state}
             \/ retries'[e] > retries[e]
  <2>1. StateMoves(e)
    BY <1>1, NextMoves
  <2>2. retries[e] \in Nat /\ events[e].leaseLeft \in Int
    BY <1>1 DEF IInv, JournalInv, JournalTypeOK, Row
  <2> QED
    BY <1>1, <2>1, <2>2 DEF StateMoves
<1>2. IInv /\ [Next]_vars => [\A e \in Event : LapsedLeaseStep(e)]_vars
  BY <1>1 DEF LapsedLeaseStep
<1> QED
  BY <1>2, InductiveInvariant, PTL DEF Spec, LapsedLeaseIsFinal

\* Delivered is for ever.
THEOREM DeliveredFinal == Spec => DeliveredIsFinal
<1>1. ASSUME IInv, [Next]_vars, NEW e \in Event, events[e].state = "delivered"
      PROVE  events'[e].state = "delivered"
  BY <1>1, NextMoves DEF StateMoves, Expired, Retryable
<1>2. IInv /\ [Next]_vars
        => [\A e \in Event : events[e].state = "delivered" => events'[e].state = "delivered"]_vars
  BY <1>1
<1> QED
  BY <1>2, InductiveInvariant, PTL DEF Spec, DeliveredIsFinal

------------------------------------------------------------------------------
(* Precedence of the desktop.                                              *)

\* What a desktop that is about to claim has advertised is what it claims.
Announced == \A d \in Desktop : pc[d] = "claiming" => adverts[d].watched = plan[d]

\* What may befall a desktop's advertisement and its tick.
TickMoves(d) ==
  \/ pc'[d] # "claiming"
  \/ /\ pc[d] = "claiming" /\ pc'[d] = "claiming" /\ plan'[d] = plan[d]
     /\ adverts'[d].watched = adverts[d].watched
  \/ /\ pc[d] = "advertising" /\ plan[d] # {} /\ plan'[d] = plan[d]
     /\ adverts'[d].watched = plan[d]

\* A step of another consumer that moves nobody else leaves d as it is.
LEMMA OthersTick ==
  ASSUME IInv, NEW d \in Desktop, NEW c \in Consumer, c # d,
         pc' = [pc EXCEPT ![c] = pc'[c]],
         plan' = [plan EXCEPT ![c] = plan'[c]],
         \/ UNCHANGED adverts
         \/ \E windows : AdvertiseResetDesktop(c, windows)
  PROVE  TickMoves(d)
<1>1. d \in Consumer  BY DEF Consumer
<1>2. pc'[d] = pc[d]  BY <1>1 DEF IInv, ProcessInv, ProcessTypeOK
<1>3. plan'[d] = plan[d]  BY DEF IInv, ProcessInv, ProcessTypeOK
<1>4. adverts'[d] = adverts[d]
  BY DEF AdvertiseResetDesktop, IInv, JournalInv, JournalTypeOK
<1> QED
  BY <1>2, <1>3, <1>4 DEF TickMoves

\* The database work of a request leaves the advertisements alone, or writes
\* that of the desktop that requests it.
LEMMA WorkAdvertises ==
  ASSUME NEW c \in Desktop, RequestedWork(c) \/ UNCHANGED db
  PROVE  UNCHANGED adverts \/ \E windows : AdvertiseResetDesktop(c, windows)
BY DEF RequestedWork, db, LeaseEvent, SettleResetEvent

LEMMA DesktopTick ==
  ASSUME IInv, NEW d \in Desktop, NEW c \in Desktop, DesktopStep(c)
  PROVE  TickMoves(d)
<1> d \in Consumer /\ c \in Consumer
  BY DEF Consumer
<1> USE DEF IInv, ProcessInv, ProcessTypeOK
<1>1. ASSUME NEW supported \in BOOLEAN, BeginTick(c, supported) PROVE TickMoves(d)
  <2>1. CASE c = d  BY <1>1, <2>1 DEF BeginTick, TickMoves
  <2>2. CASE c # d
    <3>1. pc' = [pc EXCEPT ![c] = pc'[c]] /\ plan' = [plan EXCEPT ![c] = plan'[c]]
      BY <1>1 DEF BeginTick
    <3> QED  BY <1>1, <2>2, <3>1, OthersTick DEF BeginTick, db
  <2> QED  BY <2>1, <2>2
<1>2. CASE Advertise(c)
  <2>1. CASE c = d
    <3>1. plan'[d] = plan[d] /\ pc[d] = "advertising"  BY <1>2, <2>1 DEF Advertise
    <3>2. plan[d] = {} => pc'[d] # "claiming"  BY <1>2, <2>1 DEF Advertise
    <3>3. plan[d] # {} => adverts'[d].watched = plan[d]
      BY <1>2, <2>1 DEF Advertise, AdvertiseResetDesktop, JournalInv, JournalTypeOK
    <3> QED  BY <3>1, <3>2, <3>3 DEF TickMoves
  <2>2. CASE c # d
    <3>1. pc' = [pc EXCEPT ![c] = pc'[c]] /\ plan' = [plan EXCEPT ![c] = plan'[c]]
      BY <1>2 DEF Advertise
    <3>2. AdvertiseResetDesktop(c, plan[c])  BY <1>2 DEF Advertise
    <3> QED  BY <2>2, <3>1, <3>2, OthersTick
  <2> QED  BY <2>1, <2>2
<1>3. ASSUME \/ ClaimDesktop(c) \/ ClaimNothing(c) \/ DeliverShown(c) \/ DeliverFailed(c)
             \/ DeliverUncertain(c) \/ SettleDesktop(c) \/ Withdraw(c) \/ RequestFails(c)
      PROVE  TickMoves(d)
  <2>1. pc'[c] # "claiming" /\ pc' = [pc EXCEPT ![c] = pc'[c]] /\ plan' = plan
    BY <1>3 DEF ClaimDesktop, TakeEvent, ClaimNothing, EndTick, DeliverShown, DeliverFailed,
                Conclude, DeliverUncertain, SettleDesktop, Withdraw, RequestFails, runtime
  <2>2. UNCHANGED adverts \/ \E windows : AdvertiseResetDesktop(c, windows)
    BY <1>3, WorkAdvertises
       DEF ClaimDesktop, TakeEvent, LeaseEvent, ClaimNothing, ExpireLeases, DeliverShown,
           DeliverFailed, Conclude, DeliverUncertain, SettleDesktop, SettleResetEvent,
           Withdraw, RequestFails, db
  <2>3. plan' = [plan EXCEPT ![c] = plan'[c]]  BY <2>1
  <2>4. CASE c = d  BY <2>1, <2>4 DEF TickMoves
  <2>5. CASE c # d  BY <2>1, <2>2, <2>3, <2>5, OthersTick
  <2> QED  BY <2>4, <2>5
<1> QED
  BY <1>1, <1>2, <1>3 DEF DesktopStep

LEMMA NextTick ==
  ASSUME IInv, [Next]_vars, NEW d \in Desktop
  PROVE  TickMoves(d)
<1> d \in Consumer
  BY DEF Consumer
<1> USE DEF IInv, ProcessInv, ProcessTypeOK
<1>1. CASE UNCHANGED vars
  BY <1>1 DEF vars, db, runtime, TickMoves
<1>2. CASE Tick
  BY <1>2 DEF Tick, runtime, TickMoves, JournalInv, JournalTypeOK
<1>3. CASE Environment
  <2>1. ASSUME NEW f \in Event, NEW resetIn \in 1..Horizon, RecordReset(f, resetIn)
        PROVE  TickMoves(d)
    BY <2>1 DEF RecordReset, runtime, TickMoves
  <2>2. ASSUME NEW c \in Consumer, NEW windows, ReloadSettings(c, windows)
        PROVE  TickMoves(d)
    BY <2>2 DEF ReloadSettings, db, TickMoves
  <2>3. ASSUME NEW c \in Consumer, Stop(c) PROVE TickMoves(d)
    <3>1. pc'[c] # "claiming" /\ \A x \in Consumer : x # c => pc'[x] = pc[x]
      BY <2>3 DEF Stop
    <3> QED  BY <2>3, <3>1 DEF Stop, db, TickMoves
  <2>4. ASSUME NEW c \in Desktop, NEW f \in Event, Retry(c, f) PROVE TickMoves(d)
    BY <2>4 DEF Retry, RetryUncertainReset, TickMoves
  <2> QED
    BY <1>3, <2>1, <2>2, <2>3, <2>4, DeliveryAssumption DEF Environment
<1>4. ASSUME NEW c \in Desktop, DesktopStep(c) PROVE TickMoves(d)
  BY <1>4, DesktopTick
<1>5. ASSUME NEW p \in Plugin, PluginStep(p) PROVE TickMoves(d)
  <2> p \in Consumer /\ p # d
    BY DeliveryAssumption DEF Consumer
  <2>1. pc'[d] = pc[d]
    BY <1>5 DEF PluginStep, ClaimPlugin, TakeEvent, DeliverShown, DeliverFailed, Conclude,
                SettlePlugin, EndTick
  <2>2. plan' = plan /\ adverts' = adverts
    BY <1>5 DEF PluginStep, ClaimPlugin, TakeEvent, LeaseEvent, runtime, DeliverShown,
                DeliverFailed, Conclude, SettlePlugin, SettleResetEvent, db
  <2> QED
    BY <2>1, <2>2 DEF TickMoves
<1> QED
  BY <1>1, <1>2, <1>3, <1>4, <1>5 DEF Next

\* A plugin that starts to deliver has claimed an event of its windows that no
\* desktop advertises.
LEMMA PluginTakes ==
  ASSUME IInv, [Next]_vars, NEW p \in Plugin, pc[p] = "idle", pc'[p] = "delivering",
         PreferDesktop
  PROVE  WindowOf[job'[p].event] \notin Preferred
<1> p \in Consumer /\ p \notin Desktop
  BY DeliveryAssumption DEF Consumer
<1> USE DEF IInv, ProcessInv, ProcessTypeOK
<1>1. ASSUME ClaimPlugin(p) PROVE WindowOf[job'[p].event] \notin Preferred
  <2>1. PICK e \in Oldest(Claimable(p, watched[p])) :
          job' = [job EXCEPT ![p] = [event |-> e, token |-> claims[e] + 1]]
    BY <1>1 DEF ClaimPlugin, TakeEvent
  <2>2. job'[p].event = e  BY <2>1
  <2>3. WindowOf[e] \notin Preferred  BY DEF Oldest, Claimable
  <2> QED  BY <2>2, <2>3
<1>2. ASSUME UNCHANGED vars \/ Tick PROVE FALSE
  BY <1>2 DEF vars, Tick
<1>3. ASSUME Environment PROVE FALSE
  BY <1>3 DEF Environment, RecordReset, ReloadSettings, Stop, Retry
<1>4. ASSUME NEW c \in Consumer, c # p, DesktopStep(c) \/ PluginStep(c) PROVE FALSE
  BY <1>4 DEF DesktopStep, PluginStep, BeginTick, Advertise, ClaimDesktop, ClaimPlugin, TakeEvent,
              ClaimNothing, EndTick, DeliverShown, DeliverFailed, Conclude, DeliverUncertain,
              SettleDesktop, SettlePlugin, Withdraw, RequestFails
<1>5. ASSUME DeliverShown(p) \/ DeliverFailed(p) \/ SettlePlugin(p) PROVE FALSE
  BY <1>5 DEF DeliverShown, DeliverFailed, SettlePlugin
<1> QED
  BY <1>1, <1>2, <1>3, <1>4, <1>5 DEF Next, PluginStep, Consumer

\* Whatever requests fail and whatever other desktops do, a plugin that prefers
\* the desktop does not start to deliver on the windows of one that is about
\* to claim.
THEOREM DesktopGoesFirst == Spec => DesktopFirst
<1>1. Init => Announced
  BY DEF Init, Announced, Consumer
<1>2. IInv /\ Announced /\ [Next]_vars => Announced'
  BY NextTick DEF TickMoves, Announced
<1>3. IInv /\ Announced /\ [Next]_vars =>
        [\A p \in Plugin, d \in Desktop :
           (/\ PreferDesktop
            /\ pc[p] = "idle" /\ pc'[p] = "delivering"
            /\ pc[d] = "claiming" /\ adverts[d].left > 0)
           => WindowOf[job'[p].event] \notin plan[d]]_vars
  <2> SUFFICES ASSUME IInv, Announced, [Next]_vars, NEW p \in Plugin, NEW d \in Desktop,
                      PreferDesktop, pc[p] = "idle", pc'[p] = "delivering",
                      pc[d] = "claiming", adverts[d].left > 0
               PROVE  WindowOf[job'[p].event] \notin plan[d]
    OBVIOUS
  <2>1. plan[d] \subseteq Preferred  BY DEF Announced, Preferred
  <2> QED  BY <2>1, PluginTakes
<1> QED
  BY <1>1, <1>2, <1>3, InductiveInvariant, PTL DEF Spec, DesktopFirst

------------------------------------------------------------------------------
(* Refinement: every step is a step of ResetNotice or changes nothing that  *)
(* ResetNotice talks about.                                                *)

Promised == [Notice!Next]_(Notice!vars)

\* The phases seen by ResetNotice, as a function.
Shown == [e \in Event |-> Exposed(e)]

\* A step that leaves the journal and the screens alone keeps every promise.
LEMMA Stutters ==
  ASSUME UNCHANGED <<claims, seen, released, retries>>,
         \A e \in Event : Exposed(e)' = Exposed(e)
  PROVE  Promised
<1>1. Shown' = Shown
  BY DEF Shown
<1> QED
  BY <1>1 DEF Promised, Notice!vars, Shown

\* The empty journal promises nothing yet.
LEMMA InitPromised == Init => Notice!Init
BY DEF Init, Notice!Init, Exposed, Expired

\* The clock only ever puts attempts in doubt.
LEMMA TickPromised ==
  ASSUME IInv, Tick
  PROVE  Promised
<1> DEFINE S == {e \in Event : Exposed(e) = "delivering" /\ Exposed(e)' = "uncertain"}
<1>1. ASSUME NEW e \in Event
      PROVE  Exposed(e)' = IF e \in S THEN "uncertain" ELSE Exposed(e)
  <2>1. events'[e].state = events[e].state
    BY RowAged DEF Tick, IInv, JournalInv, JournalTypeOK
  <2>2. events[e].leaseLeft \in Int /\ events'[e].leaseLeft \in Int
        /\ events'[e].leaseLeft <= events[e].leaseLeft
    <3>1. events[e] \in Row /\ (events'[e] = events[e] \/ events'[e] = Aged(events[e]))
      BY DEF Tick, IInv, JournalInv, JournalTypeOK
    <3> QED
      BY <3>1, RowAged DEF Row
  <2> QED
    BY <2>1, <2>2 DEF Exposed, Expired
<1>2. Shown' = [e \in Event |-> IF e \in S THEN "uncertain" ELSE Shown[e]]
  BY <1>1 DEF Shown
<1>3. Notice!Doubt(S)
  BY <1>2 DEF Notice!Doubt, Shown, Tick
<1> QED
  BY <1>3 DEF Promised, Notice!Next

\* A claim begins the next attempt.
LEMMA LeasePromised ==
  ASSUME IInv, NEW c, NEW windows, NEW e \in Oldest(Claimable(c, windows)), LeaseEvent(c, e),
         UNCHANGED <<seen, retries>>
  PROVE  Promised
<1>1. e \in Event /\ events[e].state = "pending"
  BY DEF Oldest, Claimable
<1>2. Exposed(e) = "pending"
  BY <1>1 DEF Exposed, Expired
<1>3. Exposed(e)' = "delivering"
  <2>1. events'[e].state = "delivering" /\ events'[e].leaseLeft = LeaseTime
    BY ZenonT(30), <1>1 DEF LeaseEvent, IInv, JournalInv, JournalTypeOK, Row
  <2> QED
    BY <2>1, Times DEF Exposed, Expired
<1>4. ASSUME NEW f \in Event, f # e PROVE Exposed(f)' = Exposed(f)
  <2>1. events'[f] = ExpireLease(events[f])
    BY <1>4 DEF LeaseEvent
  <2> QED
    BY <2>1 DEF ExpireLease, Exposed, Expired, IInv, JournalInv, JournalTypeOK, Row
<1>5. Shown' = [Shown EXCEPT ![e] = "delivering"]
  BY <1>1, <1>3, <1>4 DEF Shown
<1>6. Notice!Begin(e)
  BY <1>1, <1>2, <1>5 DEF Notice!Begin, Shown, LeaseEvent
<1> QED
  BY <1>1, <1>6 DEF Promised, Notice!Next

\* A settlement acknowledges, releases, or comes too late to do either.
LEMMA SettlePromised ==
  ASSUME IInv, NEW c \in Consumer, pc[c] = "settling", SettleResetEvent(c),
         UNCHANGED <<seen, retries>>
  PROVE  Promised
<1>1. CASE ~HoldsLease(c)
  BY <1>1, Stutters DEF SettleResetEvent, db, Exposed
<1>2. CASE HoldsLease(c)
  <2> PICK e \in Event, t \in Nat : job[c].event = e /\ job[c].token = t
    BY DEF IInv, ProcessInv, ProcessTypeOK, JobInv, Job
  <2>1. /\ events[e].state = "delivering" /\ events[e].owner = t
        /\ outcome[c] = "shown" => t \in seen[e]
    BY <1>2 DEF HoldsLease, IInv, ProcessInv, JobInv
  <2>2. t = claims[e] /\ t \notin released[e]
    BY <2>1 DEF IInv, JournalInv, TokenInv, Owing
  <2>3. Exposed(e) \in {"delivering", "uncertain"}
    BY <2>1 DEF Exposed
  <2> DEFINE next == IF outcome[c] = "shown" THEN "delivered" ELSE "pending"
  <2>4. events' = [events EXCEPT ![e] =
                 [@ EXCEPT !.state = next,
                           !.channel = IF outcome[c] = "shown" THEN ChannelOf(c) ELSE "none",
                           !.owner = 0, !.leaseLeft = -1]]
    BY <1>2 DEF SettleResetEvent
  <2> HIDE DEF next
  <2>5. events'[e].state = next
    BY <2>4 DEF IInv, JournalInv, JournalTypeOK, Row
  <2>6. next \in {"delivered", "pending"}
    BY DEF next
  <2>7. Shown' = [Shown EXCEPT ![e] = next]
    <3>1. Exposed(e)' = next
      BY <2>5, <2>6 DEF Exposed, Expired
    <3>2. ASSUME NEW f \in Event, f # e PROVE Exposed(f)' = Exposed(f)
      BY <3>2, <2>4 DEF Exposed, IInv, JournalInv, JournalTypeOK
    <3> QED
      BY <3>1, <3>2 DEF Shown
  <2>8. CASE outcome[c] = "shown"
    <3>1. UNCHANGED <<claims, released>>
      BY <1>2, <2>8 DEF SettleResetEvent
    <3>2. Notice!Acknowledge(e)
      BY <2>1, <2>2, <2>3, <2>7, <2>8, <3>1 DEF Notice!Acknowledge, Shown, next
    <3> QED
      BY <3>2 DEF Promised, Notice!Next
  <2>9. CASE outcome[c] # "shown"
    <3>1. UNCHANGED claims /\ released' = [released EXCEPT ![e] = @ \cup {t}]
      BY <1>2, <2>9 DEF SettleResetEvent
    <3>2. Notice!Release(e)
      BY <2>2, <2>3, <2>7, <2>9, <3>1 DEF Notice!Release, Shown, next
    <3> QED
      BY <3>2 DEF Promised, Notice!Next
  <2> QED
    BY <2>8, <2>9
<1> QED
  BY <1>1, <1>2

\* The database work of a request keeps the promise, whether its reply arrives or not.
LEMMA WorkPromised ==
  ASSUME IInv, NEW c \in Consumer, UNCHANGED <<seen, retries>>,
         \/ UNCHANGED db
         \/ ExpireLeases
         \/ \E d \in Desktop : \E windows : AdvertiseResetDesktop(d, windows)
         \/ \E windows : \E e \in Oldest(Claimable(c, windows)) : LeaseEvent(c, e)
         \/ pc[c] = "settling" /\ SettleResetEvent(c)
  PROVE  Promised
<1>1. CASE UNCHANGED db
  BY <1>1, Stutters DEF db, Exposed
<1>2. CASE ExpireLeases
  <2>1. ASSUME NEW e \in Event PROVE Exposed(e)' = Exposed(e)
    <3>1. events'[e] = ExpireLease(events[e]) /\ events[e] \in Row
      BY <1>2 DEF ExpireLeases, IInv, JournalInv, JournalTypeOK
    <3> QED
      BY <3>1 DEF ExpireLease, Exposed, Expired, Row
  <2> QED
    BY <1>2, <2>1, Stutters DEF ExpireLeases
<1>3. CASE \E d \in Desktop : \E windows : AdvertiseResetDesktop(d, windows)
  BY <1>3, Stutters DEF AdvertiseResetDesktop, Exposed
<1>4. CASE \E windows : \E e \in Oldest(Claimable(c, windows)) : LeaseEvent(c, e)
  BY <1>4, LeasePromised
<1>5. CASE pc[c] = "settling" /\ SettleResetEvent(c)
  BY <1>5, SettlePromised
<1> QED
  BY <1>1, <1>2, <1>3, <1>4, <1>5

\* A notice that appears is one attempt's, and changes nothing else.
LEMMA ShowPromised ==
  ASSUME IInv, NEW c \in Consumer, pc[c] = "delivering", Show(c) \/ UNCHANGED seen,
         UNCHANGED <<db, retries>>
  PROVE  Promised
<1>1. CASE UNCHANGED seen
  BY <1>1, Stutters DEF db, Exposed
<1>2. CASE Show(c)
  <2>1. job[c].event \in Event /\ job[c].token \in 1..claims[job[c].event]
    BY DEF IInv, ProcessInv, ProcessTypeOK, JobInv, Job
  <2>2. Notice!Appear(job[c].event, job[c].token)
    BY <1>2, <2>1 DEF Notice!Appear, Show, db, Exposed
  <2> QED
    BY <2>1, <2>2 DEF Promised, Notice!Next
<1> QED
  BY <1>1, <1>2

\* Detections, retries, reloads and crashes keep the promise.
LEMMA EnvironmentPromised ==
  ASSUME IInv, Environment
  PROVE  Promised
<1>1. ASSUME NEW e \in Event, NEW resetIn \in 1..Horizon, RecordReset(e, resetIn) PROVE Promised
  <2>1. Exposed(e) = "absent" /\ Exposed(e)' = "pending"
    BY <1>1 DEF RecordReset, Exposed, Expired, IInv, JournalInv, JournalTypeOK, Row
  <2>2. \A f \in Event : f # e => Exposed(f)' = Exposed(f)
    BY <1>1 DEF RecordReset, Exposed, IInv, JournalInv, JournalTypeOK
  <2>3. Shown' = [Shown EXCEPT ![e] = "pending"]
    BY <2>1, <2>2 DEF Shown
  <2>4. Notice!Raise(e)
    BY <1>1, <2>1, <2>3 DEF RecordReset, Notice!Raise, Shown
  <2> QED
    BY <2>4 DEF Promised, Notice!Next
<1>2. ASSUME NEW c, Stop(c) \/ \E windows : ReloadSettings(c, windows) PROVE Promised
  BY <1>2, Stutters DEF Stop, ReloadSettings, db, Exposed
<1>3. ASSUME NEW d \in Desktop, NEW e \in Event, Retry(d, e) PROVE Promised
  <2>1. Exposed(e) = "uncertain"
    BY <1>3 DEF Retry, Retryable, Exposed
  <2>2. Exposed(e)' = "pending"
    BY <1>3 DEF Retry, RetryUncertainReset, Exposed, Expired, IInv, JournalInv, JournalTypeOK, Row
  <2>3. \A f \in Event : f # e => Exposed(f)' = Exposed(f)
    BY <1>3 DEF Retry, RetryUncertainReset, Exposed, IInv, JournalInv, JournalTypeOK
  <2>4. Shown' = [Shown EXCEPT ![e] = "pending"]
    BY <2>2, <2>3 DEF Shown
  <2>5. Notice!Allow(e)
    BY <1>3, <2>1, <2>4 DEF Retry, RetryUncertainReset, Notice!Allow, Shown
  <2> QED
    BY <2>5 DEF Promised, Notice!Next
<1> QED
  BY <1>1, <1>2, <1>3 DEF Environment

\* Every step is one the promise allows, or none it can see.
LEMMA NextPromised ==
  ASSUME IInv, [Next]_vars
  PROVE  Promised
<1>1. CASE UNCHANGED vars
  BY <1>1, Stutters DEF vars, db, Exposed
<1>2. CASE Tick
  BY <1>2, TickPromised
<1>3. CASE Environment
  BY <1>3, EnvironmentPromised
<1>4. ASSUME NEW c \in Consumer, DeliverShown(c) \/ DeliverFailed(c) \/ DeliverUncertain(c)
      PROVE  Promised
  BY <1>4, ShowPromised DEF DeliverShown, DeliverFailed, DeliverUncertain, Conclude
<1>5. ASSUME NEW d \in Desktop, DesktopStep(d) PROVE Promised
  <2> d \in Consumer
    BY DEF Consumer
  <2>1. CASE \E supported \in BOOLEAN : BeginTick(d, supported)
    BY <2>1, WorkPromised DEF BeginTick
  <2>2. CASE Advertise(d) \/ Withdraw(d)
    BY <2>2, WorkPromised DEF Advertise, Withdraw
  <2>3. CASE ClaimDesktop(d) \/ ClaimNothing(d)
    BY <2>3, WorkPromised DEF ClaimDesktop, TakeEvent, ClaimNothing
  <2>4. CASE SettleDesktop(d)
    BY <2>4, WorkPromised DEF SettleDesktop
  <2>5. CASE RequestFails(d)
    BY <2>5, WorkPromised DEF RequestFails, RequestedWork
  <2> QED
    BY <1>4, <1>5, <2>1, <2>2, <2>3, <2>4, <2>5 DEF DesktopStep
<1>6. ASSUME NEW p \in Plugin, PluginStep(p) PROVE Promised
  <2> p \in Consumer
    BY DEF Consumer
  <2>1. CASE ClaimPlugin(p)
    BY <2>1, WorkPromised DEF ClaimPlugin, TakeEvent
  <2>2. CASE SettlePlugin(p)
    BY <2>2, WorkPromised DEF SettlePlugin
  <2> QED
    BY <1>4, <1>6, <2>1, <2>2 DEF PluginStep
<1> QED
  BY <1>1, <1>2, <1>3, <1>5, <1>6 DEF Next

\* The journal with its leases, channels, helpers and crashes implements the
\* promise of ResetNotice: every step is one the promise allows.
THEOREM PromiseKept == Spec => KeepsPromise
BY InitPromised, NextPromised, InductiveInvariant, PTL
   DEF Spec, KeepsPromise, Notice!Spec, Promised
==============================================================================
