-------------------------- MODULE ProviderCacheProofs --------------------------
(***************************************************************************)
(* The safety invariants of ProviderCache, and that it implements          *)
(* QuotaService, proved for any number of processes, calls and accounts.   *)
(***************************************************************************)
EXTENDS ProviderCache, TLAPS

Probing == {"probing", "saving", "clearing"}

\* An observation that may be cached for account a: made with that account, and
\* so labelled, by a call that uses the cache.
Cacheable(o, a) ==
  /\ o \in Observation
  /\ o.account = a /\ o.label = a
  /\ kind[o.by] = "fetch" /\ stage[o.by] # "idle"

\* Nothing else is in a file, in memory, or in the hands of a call.
Caches ==
  /\ \A a \in Account : disk[a] \notin {Nothing, Foreign} => Cacheable(disk[a], a)
  /\ \A p \in Process, a \in Account :
       memory[p][a] # Nothing => Cacheable(memory[p][a], a)
  /\ \A c \in Call : seen[c] # Nothing => Cacheable(seen[c], account[c])

\* What a call has done by each stage.
Requests ==
  \A c \in Call :
    /\ now[c] <= clock
    /\ stage[c] \in {"idle", "preparing"} => seen[c] = Nothing /\ answer[c] = Nothing
    /\ stage[c] \in {"prepared", "looking", "joined", "saving", "clearing"} => Cached(c)
    /\ stage[c] \in {"reading", "discarding", "read"} =>
         account[c] # None /\ kind[c] # "bypass"
    /\ stage[c] = "discarding" => seen[c] = Nothing
    /\ stage[c] = "read" /\ kind[c] = "fetch" /\ seen[c] # Nothing => Fresh(c, seen[c])
    /\ stage[c] = "saving" => seen[c] # Nothing /\ clock - seen[c].at < TTL

\* Work is published exactly while it is under way.
Flights ==
  /\ \A p \in Process, a \in Account : flight[p][a] # None =>
       /\ flight[p][a][1] = p /\ account[flight[p][a]] = a
       /\ Cached(flight[p][a]) /\ stage[flight[p][a]] \in Probing
  /\ \A c \in Call : Cached(c) /\ stage[c] \in Probing => Flight(c) = c

\* Whoever joined awaits work that is published.
Joins == \A c \in Call : stage[c] = "joined" => Flight(c) # None

\* An answer is as the properties want it, and its maker has begun.
AnswerOK(c) ==
  /\ account[c] # None => answer[c].account = account[c]
  /\ answer[c].label \in {None, answer[c].account}
  /\ kind[c] = "fetch" => Fresh(c, answer[c])
  /\ kind[c] = "bypass" => answer[c].by = c
  /\ stage[answer[c].by] # "idle"
  /\ answer[c].by = c \/ kind[answer[c].by] = "fetch"

Answers == \A c \in Call : answer[c] # Nothing => AnswerOK(c)

IInv == TypeOK /\ Caches /\ Requests /\ Flights /\ Joins /\ Answers

------------------------------------------------------------------------------
\* At the start nothing is cached, published or asked.
LEMMA InitInv == Init => IInv
<1> SUFFICES ASSUME Init PROVE IInv  OBVIOUS
<1>1. TypeOK  BY CacheAssumption DEF Init, TypeOK, Stage
<1>2. Caches /\ Requests  BY CacheAssumption DEF Init, Caches, Requests
<1>3. Flights /\ Joins /\ Answers  BY DEF Init, Flights, Joins, Answers, Probing
<1> QED  BY <1>1, <1>2, <1>3 DEF IInv

\* Past preparing, a call that uses files or work of others has an account.
LEMMA Frozen ==
  ASSUME IInv, NEW c \in Call,
         \/ stage[c] \in {"prepared", "looking", "joined", "saving", "clearing"}
         \/ stage[c] \in {"reading", "discarding", "read"}
         \/ Cached(c)
  PROVE  account[c] \in Account
BY DEF IInv, TypeOK, Requests, Cached

\* Remembering changes memory for one process and account.
LEMMA RememberSets ==
  ASSUME TypeOK, NEW c \in Call, account[c] \in Account,
         NEW o \in Observation \cup {Nothing}, Remember(c, o)
  PROVE  /\ memory' \in [Process -> [Account -> Observation \cup {Nothing}]]
         /\ \A p \in Process, a \in Account :
              memory'[p][a] = IF p = c[1] /\ a = account[c] THEN o ELSE memory[p][a]
<1>1. c[1] \in Process  BY DEF Call
<1> QED  BY <1>1 DEF TypeOK, Remember

\* Publishing and withdrawing changes the work of one process and account.
LEMMA FlySets ==
  ASSUME TypeOK, NEW c \in Call, account[c] \in Account, NEW f \in Call \cup {None}, Fly(c, f)
  PROVE  /\ flight' \in [Process -> [Account -> Call \cup {None}]]
         /\ \A p \in Process, a \in Account :
              flight'[p][a] = IF p = c[1] /\ a = account[c] THEN f ELSE flight[p][a]
<1>1. c[1] \in Process  BY DEF Call
<1> QED  BY <1>1 DEF TypeOK, Fly

\* What may be cached stays so: calls that have begun keep their kind.
LEMMA CacheableStays ==
  ASSUME \A d \in Call : stage[d] # "idle" => stage'[d] # "idle" /\ kind'[d] = kind[d]
  PROVE  \A o, e : Cacheable(o, e) => Cacheable(o, e)'
BY DEF Cacheable, Observation

\* An answer once given stays right.
LEMMA AnswerStays ==
  ASSUME IInv, NEW d \in Call, answer[d] # Nothing,
         answer'[d] = answer[d], now'[d] = now[d],
         \A e \in Call : stage[e] # "preparing" => account'[e] = account[e],
         \A e \in Call : stage[e] # "idle" => stage'[e] # "idle" /\ kind'[e] = kind[e]
  PROVE  AnswerOK(d)'
<1>1. stage[d] \notin {"idle", "preparing"} /\ AnswerOK(d)  BY DEF IInv, Requests, Answers
<1>2. answer[d].by \in Call  BY DEF IInv, TypeOK, Observation
<1> QED  BY <1>1, <1>2 DEF AnswerOK, Fresh

\* Steps that publish and withdraw nothing.
LEMMA FlightsStay ==
  ASSUME IInv, flight' = flight,
         \A d \in Call : stage[d] # "preparing" => account'[d] = account[d],
         \A d \in Call : stage[d] # "idle" => kind'[d] = kind[d],
         \A d \in Call : (Cached(d) /\ stage[d] \in Probing)' <=> Cached(d) /\ stage[d] \in Probing
  PROVE  Flights'
<1>1. ASSUME NEW p \in Process, NEW a \in Account, flight[p][a] # None
      PROVE  /\ flight[p][a][1] = p /\ account'[flight[p][a]] = a
             /\ (Cached(flight[p][a]) /\ stage[flight[p][a]] \in Probing)'
  <2>1. flight[p][a] \in Call  BY <1>1 DEF IInv, TypeOK
  <2>2. /\ flight[p][a][1] = p /\ account[flight[p][a]] = a
        /\ Cached(flight[p][a]) /\ stage[flight[p][a]] \in Probing
    BY <1>1 DEF IInv, Flights
  <2> QED  BY <2>1, <2>2 DEF Probing
<1>2. ASSUME NEW d \in Call, (Cached(d) /\ stage[d] \in Probing)' PROVE flight'[d[1]][account'[d]] = d
  <2>1. Cached(d) /\ stage[d] \in Probing  BY <1>2
  <2> QED  BY <2>1 DEF IInv, Flights, Flight, Probing
<1> QED  BY <1>1, <1>2 DEF Flights, Flight

\* Work that is joined stays.
LEMMA JoinsStay ==
  ASSUME flight' = flight,
         \A d \in Call : stage'[d] = "joined" => account'[d] = account[d] /\ Flight(d) # None
  PROVE  Joins'
BY DEF Joins, Flight

\* Memory and published work hold what they should.
LEMMA Lookups ==
  ASSUME TypeOK, NEW c \in Call, account[c] \in Account
  PROVE  Memory(c) \in Observation \cup {Nothing} /\ Flight(c) \in Call \cup {None}
         /\ Disk(c) \in Observation \cup {Nothing, Foreign}
<1>1. c[1] \in Process  BY DEF Call
<1> QED  BY <1>1 DEF TypeOK, Memory, Flight, Disk

\* What memory answers is right for the call.
LEMMA MemoryIsOK ==
  ASSUME IInv, NEW p \in Process, NEW a \in Account, memory[p][a] # Nothing
  PROVE  Cacheable(memory[p][a], a)
BY DEF IInv, Caches

\* A cacheable observation answers a call that does not bypass.
LEMMA CacheableIsOK ==
  ASSUME NEW d \in Call, account'[d] \in Account,
         Cacheable(answer[d], account[d])', kind'[d] # "bypass",
         kind'[d] = "fetch" => Fresh(d, answer[d])'
  PROVE  AnswerOK(d)'
BY DEF AnswerOK, Cacheable

\* A call that withdraws its work lets go of everybody who joined it.
LEMMA WithdrawKeeps ==
  ASSUME IInv, NEW c \in Call, Cached(c), stage[c] \in Probing, Fly(c, None),
         account' = account, kind' = kind,
         \A d \in Call : stage'[d] = IF d = c \/ d \in Awaiting(c) THEN "done" ELSE stage[d]
  PROVE  /\ flight' \in [Process -> [Account -> Call \cup {None}]]
         /\ Flights' /\ Joins'
<1>1. account[c] \in Account /\ c[1] \in Process  BY Frozen DEF Call
<1>2. /\ flight' \in [Process -> [Account -> Call \cup {None}]]
      /\ \A p \in Process, a \in Account :
           flight'[p][a] = IF p = c[1] /\ a = account[c] THEN None ELSE flight[p][a]
  BY <1>1, FlySets DEF IInv
<1>3. Flights'
  <2>1. ASSUME NEW p \in Process, NEW a \in Account, flight'[p][a] # None
        PROVE  /\ flight'[p][a][1] = p /\ account'[flight'[p][a]] = a
               /\ Cached(flight[p][a])' /\ stage'[flight'[p][a]] \in Probing
    <3>1. flight'[p][a] = flight[p][a] /\ ~(p = c[1] /\ a = account[c])  BY <1>2, <2>1
    <3>2. PICK f \in Call : f = flight[p][a]  BY <2>1, <3>1 DEF IInv, TypeOK
    <3>3. f[1] = p /\ account[f] = a /\ Cached(f) /\ stage[f] \in Probing
      BY <2>1, <3>1, <3>2 DEF IInv, Flights
    <3>4. f # c /\ f \notin Awaiting(c)  BY <3>1, <3>3 DEF Awaiting, Probing
    <3> QED  BY <3>1, <3>2, <3>3, <3>4 DEF Cached
  <2>2. ASSUME NEW d \in Call, Cached(d)', stage'[d] \in Probing
        PROVE  Flight(d)' = d
    <3>1. Cached(d) /\ stage[d] \in Probing /\ d # c  BY <2>2 DEF Cached, Probing
    <3>2. Flight(d) = d /\ Flight(c) = c  BY <3>1 DEF IInv, Flights
    <3>3. d[1] \in Process /\ account[d] \in Account  BY <3>1, Frozen DEF Call
    <3> QED  BY <1>2, <3>1, <3>2, <3>3 DEF Flight
  <2> QED  BY <2>1, <2>2 DEF Flights
<1>4. Joins'
  <2> SUFFICES ASSUME NEW d \in Call, stage'[d] = "joined" PROVE Flight(d)' # None
    BY DEF Joins
  <2>1. stage[d] = "joined" /\ ~(d[1] = c[1] /\ account[d] = account[c])  BY DEF Awaiting
  <2>2. d[1] \in Process /\ account[d] \in Account /\ Flight(d) # None
    BY <2>1, Frozen DEF Call, IInv, Joins
  <2> QED  BY <1>2, <2>1, <2>2 DEF Flight
<1> QED  BY <1>2, <1>3, <1>4

\* A call that begins has nothing yet.
LEMMA BeginInv ==
  ASSUME IInv, NEW c \in Call, NEW k \in {"fetch", "bypass", "read"}, Begin(c, k)
  PROVE  IInv'
<1> USE DEF IInv, Begin, Goto, request
<1>1. TypeOK'
  BY CacheAssumption DEF TypeOK, Stage
<1>2. \A d \in Call : stage[d] # "idle" => stage'[d] # "idle" /\ kind'[d] = kind[d]
  BY DEF TypeOK
<1>3. \A o, e : Cacheable(o, e) => Cacheable(o, e)'
  BY <1>2, CacheableStays
<1>4. Caches'
  BY <1>3 DEF TypeOK, Caches
<1>5. Requests'
  BY <1>2 DEF TypeOK, Requests, Cached, Fresh
<1>6. Flights'
  <2>1. \A d \in Call : (Cached(d) /\ stage[d] \in Probing)' <=> Cached(d) /\ stage[d] \in Probing
    BY DEF TypeOK, Cached, Probing, Requests
  <2>2. \A d \in Call : stage[d] # "preparing" => account'[d] = account[d]
    BY DEF TypeOK
  <2> QED  BY <1>2, <2>1, <2>2, FlightsStay DEF IInv
<1>7. Joins'
  <2>1. \A d \in Call : stage'[d] = "joined" => account'[d] = account[d] /\ Flight(d) # None
    BY DEF TypeOK, Joins
  <2> QED  BY <2>1, JoinsStay
<1>8. Answers'
  <2>1. \A d \in Call : answer'[d] # Nothing => answer[d] # Nothing /\ answer'[d] = answer[d] /\ now'[d] = now[d]
    BY DEF TypeOK, Requests
  <2>2. \A d \in Call : stage[d] # "preparing" => account'[d] = account[d]
    BY DEF TypeOK
  <2> QED  BY <1>2, <2>1, <2>2, AnswerStays DEF Answers, IInv
<1> QED  BY <1>1, <1>4, <1>5, <1>6, <1>7, <1>8

\* The account is frozen before anything is looked up.
LEMMA PrepareInv ==
  ASSUME IInv, NEW c \in Call, NEW a \in Account \cup {None}, Prepare(c, a)
  PROVE  IInv'
<1> USE DEF IInv, Prepare, Goto, Return, request
<1>0. /\ stage[c] = "preparing" /\ a \in Account \cup {None}
      /\ account' = [account EXCEPT ![c] = a] /\ now' = [now EXCEPT ![c] = clock]
      /\ kind' = kind /\ seen' = seen /\ memory' = memory /\ flight' = flight
      /\ disk' = disk /\ clock' = clock /\ selected' = selected
  OBVIOUS
<1>00. PICK s \in Stage, o \in Observation \cup {Nothing} :
         /\ stage' = [stage EXCEPT ![c] = s] /\ answer' = [answer EXCEPT ![c] = o]
         /\ s \in {"done", "reading", "probing", "prepared"}
         /\ s = "done" => kind[c] = "read"
         /\ o # Nothing => s = "done" /\ a \in Account /\ o = memory[c[1]][a]
         /\ s = "reading" => kind[c] = "read" /\ a # None
         /\ s = "probing" => kind[c] = "bypass" \/ a = None
         /\ s = "prepared" => kind[c] = "fetch" /\ a # None
  <2>1. (answer[c] = Nothing /\ answer' = [answer EXCEPT ![c] = Nothing]) \/ kind[c] = "read"
    BY DEF Requests, TypeOK
  <2>2. CASE kind[c] # "read"
    <3>1. answer' = [answer EXCEPT ![c] = Nothing]  BY <2>1, <2>2
    <3> QED  BY <2>2, <3>1 DEF Stage, TypeOK
  <2>3. CASE kind[c] = "read"
    <3>1. CASE a = None
      BY <2>3, <3>1 DEF Stage
    <3>2. CASE a # None
      <4>1. memory[c[1]][a] \in Observation \cup {Nothing}  BY <3>2 DEF TypeOK, Call
      <4>2. CASE memory[c[1]][a] # Nothing  BY <2>3, <3>2, <4>1, <4>2 DEF Stage
      <4>3. CASE memory[c[1]][a] = Nothing
        <5>1. answer' = [answer EXCEPT ![c] = Nothing]  BY <2>3, <3>2, <4>3 DEF Requests, TypeOK
        <5>2. stage' = [stage EXCEPT ![c] = "reading"]  BY <2>3, <3>2, <4>3
        <5> QED  BY <2>3, <3>2, <5>1, <5>2 DEF Stage
      <4> QED  BY <4>2, <4>3
    <3> QED  BY <3>1, <3>2
  <2> QED  BY <2>2, <2>3
<1> HIDE DEF Prepare
<1>1. TypeOK'
  <2>1. stage' \in [Call -> Stage]  BY <1>00 DEF TypeOK
  <2>2. answer' \in [Call -> Observation \cup {Nothing}]  BY <1>00 DEF TypeOK
  <2>3. account' \in [Call -> Account \cup {None}] /\ now' \in [Call -> 0..Horizon]
    BY <1>0 DEF TypeOK
  <2> QED  BY <1>0, <2>1, <2>2, <2>3 DEF TypeOK
<1>2. \A d \in Call : stage[d] # "idle" => stage'[d] # "idle" /\ kind'[d] = kind[d]
  BY <1>0, <1>00 DEF TypeOK
<1>3. \A x, e : Cacheable(x, e) => Cacheable(x, e)'
  BY <1>2, CacheableStays
<1>4. Caches'
  <2>1. \A d \in Call : seen'[d] # Nothing => account'[d] = account[d]
    BY <1>0 DEF TypeOK, Requests
  <2> QED  BY <1>0, <1>3, <2>1 DEF Caches
<1>5. Requests'
  <2>1. ASSUME NEW d \in Call \ {c}
        PROVE  stage'[d] = stage[d] /\ now'[d] = now[d] /\ account'[d] = account[d] /\ answer'[d] = answer[d]
    BY <1>0, <1>00 DEF TypeOK
  <2>2. now'[c] = clock /\ account'[c] = a /\ stage'[c] = s /\ seen[c] = Nothing
    BY <1>0, <1>00 DEF TypeOK, Requests
  <2>3. clock \in Int  BY DEF TypeOK
  <2> QED  BY <1>0, <1>00, <2>1, <2>2, <2>3 DEF Requests, Cached, Fresh
<1>6. Flights'
  <2>1. \A d \in Call : (Cached(d) /\ stage[d] \in Probing)' <=> Cached(d) /\ stage[d] \in Probing
    BY <1>0, <1>00 DEF TypeOK, Cached, Probing
  <2>2. \A d \in Call : stage[d] # "preparing" => account'[d] = account[d]
    BY <1>0 DEF TypeOK
  <2> QED  BY <1>0, <1>2, <2>1, <2>2, FlightsStay
<1>7. Joins'
  <2>1. \A d \in Call : stage'[d] = "joined" => account'[d] = account[d] /\ Flight(d) # None
    BY <1>0, <1>00 DEF TypeOK, Joins
  <2> QED  BY <1>0, <2>1, JoinsStay
<1>8. Answers'
  <2>1. ASSUME NEW d \in Call \ {c}, answer'[d] # Nothing PROVE AnswerOK(d)'
    <3>1. answer'[d] = answer[d] /\ now'[d] = now[d]  BY <1>0, <1>00 DEF TypeOK
    <3>2. \A e \in Call : stage[e] # "preparing" => account'[e] = account[e]  BY <1>0 DEF TypeOK
    <3> QED  BY <1>2, <2>1, <3>1, <3>2, AnswerStays
  <2>2. ASSUME answer'[c] # Nothing PROVE AnswerOK(c)'
    <3>1. /\ answer'[c] = o /\ a \in Account /\ o = memory[c[1]][a] /\ kind'[c] = "read"
          /\ account'[c] = a
      BY <1>0, <1>00, <2>2 DEF TypeOK
    <3>2. Cacheable(o, a)  BY <2>2, <3>1, MemoryIsOK DEF Call
    <3>3. Cacheable(answer[c], account[c])'  BY <1>3, <3>1, <3>2 DEF Cacheable
    <3> QED  BY <3>1, <3>3, CacheableIsOK
  <2> QED  BY <2>1, <2>2 DEF Answers
<1> QED  BY <1>1, <1>4, <1>5, <1>6, <1>7, <1>8

\* Pruning only removes.
LEMMA PruneInv ==
  ASSUME IInv, NEW c \in Call, NEW old \in SUBSET Account, Prune(c, old)
  PROVE  IInv'
<1> USE DEF IInv, Prune, Goto, request
<1>1. TypeOK'
  BY CacheAssumption DEF TypeOK, Stage
<1>2. \A d \in Call : stage[d] # "idle" => stage'[d] # "idle" /\ kind'[d] = kind[d]
  BY DEF TypeOK
<1>3. \A o, e : Cacheable(o, e) => Cacheable(o, e)'
  BY <1>2, CacheableStays
<1>4. Caches'
  BY <1>3 DEF TypeOK, Caches
<1>5. Requests'
  BY <1>2 DEF TypeOK, Requests, Cached, Fresh
<1>6. Flights'
  <2>1. \A d \in Call : (Cached(d) /\ stage[d] \in Probing)' <=> Cached(d) /\ stage[d] \in Probing
    BY DEF TypeOK, Cached, Probing, Requests
  <2>2. \A d \in Call : stage[d] # "preparing" => account'[d] = account[d]
    BY DEF TypeOK
  <2> QED  BY <1>2, <2>1, <2>2, FlightsStay DEF IInv
<1>7. Joins'
  <2>1. \A d \in Call : stage'[d] = "joined" => account'[d] = account[d] /\ Flight(d) # None
    BY DEF TypeOK, Joins
  <2> QED  BY <2>1, JoinsStay
<1>8. Answers'
  <2>1. \A d \in Call : answer'[d] # Nothing => answer[d] # Nothing /\ answer'[d] = answer[d] /\ now'[d] = now[d]
    BY DEF TypeOK, Requests
  <2>2. \A d \in Call : stage[d] # "preparing" => account'[d] = account[d]
    BY DEF TypeOK
  <2> QED  BY <1>2, <2>1, <2>2, AnswerStays DEF Answers, IInv
<1> QED  BY <1>1, <1>4, <1>5, <1>6, <1>7, <1>8

\* Memory answers, or published work is joined.
LEMMA LookInv ==
  ASSUME IInv, NEW c \in Call, Look(c)
  PROVE  IInv'
<1> USE DEF IInv, Look, Goto, Return, request
<1>0. account[c] \in Account /\ Memory(c) \in Observation \cup {Nothing} /\ c[1] \in Process
  BY Frozen, Lookups DEF Call
<1>1. TypeOK'
  <2>1. stage' \in [Call -> Stage]  BY DEF TypeOK, Stage
  <2>2. answer' \in [Call -> Observation \cup {Nothing}]  BY <1>0 DEF TypeOK
  <2> QED  BY <2>1, <2>2 DEF TypeOK
<1>2. \A d \in Call : stage[d] # "idle" => stage'[d] # "idle" /\ kind'[d] = kind[d]
  BY DEF TypeOK
<1>3. \A o, e : Cacheable(o, e) => Cacheable(o, e)'
  BY <1>2, CacheableStays
<1>4. Caches'
  BY <1>3 DEF TypeOK, Caches
<1>5. Requests'
  BY <1>2 DEF TypeOK, Requests, Cached, Fresh
<1>6. Flights'
  <2>1. \A d \in Call : (Cached(d) /\ stage[d] \in Probing)' <=> Cached(d) /\ stage[d] \in Probing
    BY DEF TypeOK, Cached, Probing, Requests
  <2>2. \A d \in Call : stage[d] # "preparing" => account'[d] = account[d]
    BY DEF TypeOK
  <2> QED  BY <1>2, <2>1, <2>2, FlightsStay DEF IInv
<1>7. Joins'
  <2>1. \A d \in Call : stage'[d] = "joined" => account'[d] = account[d] /\ Flight(d) # None
    BY DEF TypeOK, Joins
  <2> QED  BY <2>1, JoinsStay
<1>8. Answers'
  <2>1. ASSUME NEW d \in Call, answer'[d] = answer[d], answer'[d] # Nothing PROVE AnswerOK(d)'
    <3>1. account' = account /\ now' = now  OBVIOUS
    <3> QED  BY <1>2, <2>1, <3>1, AnswerStays
  <2>2. ASSUME answer'[c] # answer[c] PROVE AnswerOK(c)'
    <3>1. /\ answer'[c] = Memory(c) /\ account' = account /\ now' = now /\ kind' = kind
      BY <2>2 DEF TypeOK
    <3>2. Cacheable(Memory(c), account[c])  BY <1>0, <2>2, <3>1, MemoryIsOK DEF Memory, Fresh
    <3>3. Cacheable(answer[c], account[c])'  BY <1>3, <3>1, <3>2 DEF Cacheable
    <3>4. kind[c] # "bypass" /\ (kind[c] = "fetch" => Fresh(c, Memory(c)))
      BY <2>2 DEF Requests, Cached
    <3>5. kind'[c] = "fetch" => Fresh(c, answer[c])'  BY <3>1, <3>4 DEF Fresh
    <3> QED  BY <1>0, <3>1, <3>3, <3>4, <3>5, CacheableIsOK
  <2>3. \A d \in Call \ {c} : answer'[d] = answer[d]  BY DEF TypeOK
  <2> QED  BY <2>1, <2>2, <2>3 DEF Answers
<1> QED  BY <1>1, <1>4, <1>5, <1>6, <1>7, <1>8

\* The file of the account is read.
LEMMA ReadFileInv ==
  ASSUME IInv, NEW c \in Call, ReadFile(c)
  PROVE  IInv'
<1> USE DEF IInv, ReadFile, Goto, request
<1>0. account[c] \in Account /\ Disk(c) \in Observation \cup {Nothing, Foreign}
  BY Frozen, Lookups
<1>1. TypeOK'
  <2>1. stage' \in [Call -> Stage]
    <3>1. {"discarding", "read"} \subseteq Stage  BY DEF Stage
    <3> QED  BY <3>1 DEF TypeOK
  <2>2. seen' \in [Call -> Observation \cup {Nothing}]  BY <1>0 DEF TypeOK
  <2> QED  BY <2>1, <2>2 DEF TypeOK
<1>2. \A d \in Call : stage[d] # "idle" => stage'[d] # "idle" /\ kind'[d] = kind[d]
  BY DEF TypeOK
<1>3. \A o, e : Cacheable(o, e) => Cacheable(o, e)'
  BY <1>2, CacheableStays
<1>4. Caches'
  <2>1. ASSUME seen'[c] # Nothing PROVE Cacheable(seen'[c], account[c])
    <3>1. seen'[c] = Disk(c) /\ Disk(c) \notin {Nothing, Foreign}
      BY <2>1 DEF TypeOK
    <3> QED  BY <1>0, <3>1 DEF Caches, Disk
  <2>2. \A d \in Call \ {c} : seen'[d] = seen[d]  BY DEF TypeOK
  <2> QED  BY <1>3, <2>1, <2>2 DEF Caches
<1>5. Requests'
  BY <1>2 DEF TypeOK, Requests, Cached, Fresh
<1>6. Flights'
  <2>1. \A d \in Call : (Cached(d) /\ stage[d] \in Probing)' <=> Cached(d) /\ stage[d] \in Probing
    BY DEF TypeOK, Cached, Probing, Requests
  <2>2. \A d \in Call : stage[d] # "preparing" => account'[d] = account[d]
    BY DEF TypeOK
  <2> QED  BY <1>2, <2>1, <2>2, FlightsStay DEF IInv
<1>7. Joins'
  <2>1. \A d \in Call : stage'[d] = "joined" => account'[d] = account[d] /\ Flight(d) # None
    BY DEF TypeOK, Joins
  <2> QED  BY <2>1, JoinsStay
<1>8. Answers'
  <2>1. \A d \in Call : answer'[d] # Nothing => answer[d] # Nothing /\ answer'[d] = answer[d] /\ now'[d] = now[d]
    BY DEF TypeOK, Requests
  <2>2. \A d \in Call : stage[d] # "preparing" => account'[d] = account[d]
    BY DEF TypeOK
  <2> QED  BY <1>2, <2>1, <2>2, AnswerStays DEF Answers, IInv
<1> QED  BY <1>1, <1>4, <1>5, <1>6, <1>7, <1>8

\* Discarding only removes.
LEMMA DiscardInv ==
  ASSUME IInv, NEW c \in Call, Discard(c)
  PROVE  IInv'
<1> USE DEF IInv, Discard, Goto, request
<1>1. TypeOK'
  BY CacheAssumption DEF TypeOK, Stage
<1>2. \A d \in Call : stage[d] # "idle" => stage'[d] # "idle" /\ kind'[d] = kind[d]
  BY DEF TypeOK
<1>3. \A o, e : Cacheable(o, e) => Cacheable(o, e)'
  BY <1>2, CacheableStays
<1>4. Caches'
  BY <1>3 DEF TypeOK, Caches
<1>5. Requests'
  <2>1. seen[c] # Nothing => FALSE  BY DEF Requests
  <2> QED  BY <1>2, <2>1 DEF TypeOK, Requests, Cached, Fresh
<1>6. Flights'
  <2>1. \A d \in Call : (Cached(d) /\ stage[d] \in Probing)' <=> Cached(d) /\ stage[d] \in Probing
    BY DEF TypeOK, Cached, Probing, Requests
  <2>2. \A d \in Call : stage[d] # "preparing" => account'[d] = account[d]
    BY DEF TypeOK
  <2> QED  BY <1>2, <2>1, <2>2, FlightsStay DEF IInv
<1>7. Joins'
  <2>1. \A d \in Call : stage'[d] = "joined" => account'[d] = account[d] /\ Flight(d) # None
    BY DEF TypeOK, Joins
  <2> QED  BY <2>1, JoinsStay
<1>8. Answers'
  <2>1. \A d \in Call : answer'[d] # Nothing => answer[d] # Nothing /\ answer'[d] = answer[d] /\ now'[d] = now[d]
    BY DEF TypeOK, Requests
  <2>2. \A d \in Call : stage[d] # "preparing" => account'[d] = account[d]
    BY DEF TypeOK
  <2> QED  BY <1>2, <2>1, <2>2, AnswerStays DEF Answers, IInv
<1> QED  BY <1>1, <1>4, <1>5, <1>6, <1>7, <1>8

\* What was read is remembered for its account.
LEMMA UseFileInv ==
  ASSUME IInv, NEW c \in Call, UseFile(c)
  PROVE  IInv'
<1> USE DEF IInv, UseFile, Goto, Remember, Return, request
<1>0. account[c] \in Account /\ seen[c] \in Observation /\ Cacheable(seen[c], account[c])
  BY Frozen DEF TypeOK, Caches
<1>1. TypeOK'
  BY CacheAssumption DEF TypeOK, Stage
<1>2. \A d \in Call : stage[d] # "idle" => stage'[d] # "idle" /\ kind'[d] = kind[d]
  BY DEF TypeOK
<1>3. \A o, e : Cacheable(o, e) => Cacheable(o, e)'
  BY <1>2, CacheableStays
<1>4. Caches'
  BY <1>3 DEF TypeOK, Caches
<1>5. Requests'
  BY <1>2 DEF TypeOK, Requests, Cached, Fresh
<1>6. Flights'
  <2>1. \A d \in Call : (Cached(d) /\ stage[d] \in Probing)' <=> Cached(d) /\ stage[d] \in Probing
    BY DEF TypeOK, Cached, Probing, Requests
  <2>2. \A d \in Call : stage[d] # "preparing" => account'[d] = account[d]
    BY DEF TypeOK
  <2> QED  BY <1>2, <2>1, <2>2, FlightsStay DEF IInv
<1>7. Joins'
  <2>1. \A d \in Call : stage'[d] = "joined" => account'[d] = account[d] /\ Flight(d) # None
    BY DEF TypeOK, Joins
  <2> QED  BY <2>1, JoinsStay
<1>8. Answers'
  <2>1. ASSUME NEW d \in Call, answer'[d] = answer[d], answer'[d] # Nothing PROVE AnswerOK(d)'
    <3>1. account' = account /\ now' = now  OBVIOUS
    <3> QED  BY <1>2, <2>1, <3>1, AnswerStays
  <2>2. ASSUME answer'[c] # answer[c] PROVE AnswerOK(c)'
    <3>1. /\ answer'[c] = seen[c] /\ account' = account /\ now' = now /\ kind' = kind
      BY <2>2 DEF TypeOK
    <3>2. Cacheable(seen[c], account[c])  BY <1>0
    <3>3. Cacheable(answer[c], account[c])'  BY <1>3, <3>1, <3>2 DEF Cacheable
    <3>4. kind[c] # "bypass" /\ (kind[c] = "fetch" => Fresh(c, seen[c]))
      BY DEF Requests
    <3>5. kind'[c] = "fetch" => Fresh(c, answer[c])'  BY <3>1, <3>4 DEF Fresh
    <3> QED  BY <1>0, <3>1, <3>3, <3>4, <3>5, CacheableIsOK
  <2>3. \A d \in Call \ {c} : answer'[d] = answer[d]  BY DEF TypeOK
  <2> QED  BY <2>1, <2>2, <2>3 DEF Answers
<1> QED  BY <1>1, <1>4, <1>5, <1>6, <1>7, <1>8

\* A probe is published where there is none.
LEMMA MissInv ==
  ASSUME IInv, NEW c \in Call, Miss(c)
  PROVE  IInv'
<1> USE DEF IInv, Miss, Goto, Return, Fly, request
<1>0. account[c] \in Account /\ c[1] \in Process /\ answer[c] \in Observation \cup {Nothing}
  BY Frozen DEF Call, TypeOK
<1>00. \/ flight' = flight /\ stage' = [stage EXCEPT ![c] = "done"]
       \/ flight' = flight /\ stage' = [stage EXCEPT ![c] = "joined"] /\ Flight(c) # None
       \/ Fly(c, c) /\ stage' = [stage EXCEPT ![c] = "probing"] /\ Flight(c) = None /\ Cached(c)
  BY <1>0, CacheAssumption DEF Cached
<1>1. TypeOK'
  <2>1. stage' \in [Call -> Stage] /\ answer' \in [Call -> Observation \cup {Nothing}]
    BY DEF TypeOK, Stage
  <2>2. flight' \in [Process -> [Account -> Call \cup {None}]]
    BY <1>0, <1>00, FlySets DEF TypeOK
  <2> QED  BY <2>1, <2>2 DEF TypeOK
<1>2. \A d \in Call : stage[d] # "idle" => stage'[d] # "idle" /\ kind'[d] = kind[d]
  BY DEF TypeOK
<1>3. \A o, e : Cacheable(o, e) => Cacheable(o, e)'
  BY <1>2, CacheableStays
<1>4. Caches'
  BY <1>3 DEF TypeOK, Caches
<1>5. Requests'
  BY <1>2 DEF TypeOK, Requests, Cached, Fresh
<1>6. Flights'
  <2>1. CASE flight' = flight /\ (\/ stage' = [stage EXCEPT ![c] = "done"]
                                  \/ stage' = [stage EXCEPT ![c] = "joined"])
    <3>1. \A d \in Call : (Cached(d) /\ stage[d] \in Probing)' <=> Cached(d) /\ stage[d] \in Probing
      BY <2>1 DEF TypeOK, Cached, Probing
    <3> QED  BY <1>2, <2>1, <3>1, FlightsStay
  <2>2. CASE Fly(c, c) /\ stage' = [stage EXCEPT ![c] = "probing"] /\ Flight(c) = None /\ Cached(c)
    <3>1. \A p \in Process, a \in Account :
            flight'[p][a] = IF p = c[1] /\ a = account[c] THEN c ELSE flight[p][a]
      BY <1>0, <2>2, FlySets, ZenonT(40)
    <3>2. \A d \in Call : stage'[d] = IF d = c THEN "probing" ELSE stage[d]
      BY <2>2 DEF TypeOK
    <3> HIDE DEF Miss
    <3>3. ASSUME NEW p \in Process, NEW a \in Account, flight'[p][a] # None
          PROVE  /\ flight'[p][a][1] = p /\ account[flight'[p][a]] = a
                 /\ Cached(flight'[p][a]) /\ stage'[flight'[p][a]] \in Probing
      <4>1. CASE p = c[1] /\ a = account[c]
        BY <2>2, <3>1, <3>2, <4>1 DEF Probing
      <4>2. CASE ~(p = c[1] /\ a = account[c])
        <5>1. flight'[p][a] = flight[p][a] /\ flight[p][a] \in Call
          BY <3>1, <3>3, <4>2 DEF TypeOK
        <5> QED  BY <3>2, <3>3, <5>1 DEF Flights, Probing
      <4> QED  BY <4>1, <4>2
    <3>4. ASSUME NEW d \in Call, Cached(d), stage'[d] \in Probing
          PROVE  flight'[d[1]][account[d]] = d
      <4>1. CASE d = c  BY <1>0, <3>1, <4>1
      <4>2. CASE d # c
        <5>1. Flight(d) = d /\ d[1] \in Process /\ account[d] \in Account
          BY <3>2, <3>4, <4>2, Frozen DEF Flights, Call
        <5>2. ~(d[1] = c[1] /\ account[d] = account[c])
          BY <2>2, <5>1, CacheAssumption DEF Flight
        <5> QED  BY <3>1, <5>1, <5>2 DEF Flight
      <4> QED  BY <4>1, <4>2
    <3>5. account' = account /\ kind' = kind  BY DEF Miss
    <3> QED  BY <3>3, <3>4, <3>5 DEF Flights, Flight, Cached
  <2> QED  BY <1>00, <2>1, <2>2
<1>7. Joins'
  <2>1. ASSUME NEW d \in Call, stage'[d] = "joined" PROVE Flight(d)' # None
    <3>1. Flight(d) # None /\ account'[d] = account[d]
      BY <1>00, <2>1 DEF TypeOK, Joins
    <3>2. d[1] \in Process /\ account[d] \in Account
      BY <1>00, <2>1, <1>0, Frozen DEF Call, TypeOK
    <3>3. CASE flight' = flight  BY <3>1, <3>3 DEF Flight
    <3>4. CASE Fly(c, c)
      <4>1. flight'[d[1]][account[d]] = IF d[1] = c[1] /\ account[d] = account[c]
                                          THEN c ELSE flight[d[1]][account[d]]
        BY <1>0, <3>2, <3>4, FlySets
      <4> QED  BY <3>1, <4>1, CacheAssumption DEF Flight
    <3> QED  BY <1>00, <3>3, <3>4
  <2> QED  BY <2>1 DEF Joins
<1>8. Answers'
  <2>1. \A d \in Call : answer'[d] # Nothing => answer[d] # Nothing /\ answer'[d] = answer[d] /\ now'[d] = now[d]
    BY DEF TypeOK, Requests
  <2>2. \A d \in Call : stage[d] # "preparing" => account'[d] = account[d]
    BY DEF TypeOK
  <2> QED  BY <1>2, <2>1, <2>2, AnswerStays DEF Answers, IInv
<1> QED  BY <1>1, <1>4, <1>5, <1>6, <1>7, <1>8

\* A failure withdraws the work with everybody who joined it.
LEMMA FailInv ==
  ASSUME IInv, NEW c \in Call, Fail(c)
  PROVE  IInv'
<1> USE DEF IInv, Fail, Fly, request
<1>0. \A d \in Call : stage'[d] = IF d = c \/ (Cached(c) /\ d \in Awaiting(c)) THEN "done" ELSE stage[d]
  BY DEF TypeOK
<1>1. TypeOK'
  <2>1. stage' \in [Call -> Stage]  BY DEF TypeOK, Stage
  <2>2. flight' \in [Process -> [Account -> Call \cup {None}]]
    <3>1. CASE Cached(c)  BY <3>1, Frozen, FlySets
    <3>2. CASE ~Cached(c)  BY <3>2 DEF TypeOK
    <3> QED  BY <3>1, <3>2
  <2> QED  BY <2>1, <2>2 DEF TypeOK
<1>2. \A d \in Call : stage[d] # "idle" => stage'[d] # "idle" /\ kind'[d] = kind[d]
  BY DEF TypeOK
<1>3. \A o, e : Cacheable(o, e) => Cacheable(o, e)'
  BY <1>2, CacheableStays
<1>4. Caches'
  BY <1>3 DEF TypeOK, Caches
<1>5. Requests'
  BY <1>2 DEF TypeOK, Requests, Cached, Fresh
<1>6. Flights' /\ Joins'
  <2>1. CASE Cached(c)
    <3>1. stage[c] \in Probing /\ Fly(c, None)  BY <2>1 DEF Probing
    <3> QED  BY <1>0, <2>1, <3>1, WithdrawKeeps
  <2>2. CASE ~Cached(c)
    <3>1. \A d \in Call : (Cached(d) /\ stage[d] \in Probing)' <=> Cached(d) /\ stage[d] \in Probing
      BY <1>0, <2>2 DEF Cached, Probing
    <3>2. Flights'  BY <1>2, <2>2, <3>1, FlightsStay
    <3>3. \A d \in Call : stage'[d] = "joined" => account'[d] = account[d] /\ Flight(d) # None
      BY <1>0 DEF Joins
    <3> QED  BY <2>2, <3>2, <3>3, JoinsStay
  <2> QED  BY <2>1, <2>2
<1>8. Answers'
  <2>1. \A d \in Call : answer'[d] # Nothing => answer[d] # Nothing /\ answer'[d] = answer[d] /\ now'[d] = now[d]
    BY DEF TypeOK, Requests
  <2>2. \A d \in Call : stage[d] # "preparing" => account'[d] = account[d]
    BY DEF TypeOK
  <2> QED  BY <1>2, <2>1, <2>2, AnswerStays DEF Answers, IInv
<1> QED  BY <1>1, <1>4, <1>5, <1>6, <1>8

\* An observation is remembered for the account it was made with.
LEMMA ObserveInv ==
  ASSUME IInv, NEW c \in Call, Observe(c)
  PROVE  IInv'
<1> USE DEF IInv, Observe, Goto, Remember, Return, request
<1>0. /\ Observed(c) \in Observation \cup {Nothing} /\ Observed(c) # Nothing
      /\ Observed(c).account = Probed(c) /\ Observed(c).label = account[c]
      /\ Observed(c).by = c /\ Observed(c).at = clock /\ Observed(c) \in Observation
  BY CacheAssumption DEF TypeOK, Observed, Probed, Observation, Nothing
<1>00. Cached(c) => account[c] \in Account /\ Cacheable(Observed(c), account[c])
  BY <1>0, Frozen DEF Cacheable, Cached, Probed
<1>01. {"saving", "done"} \subseteq Stage  BY DEF Stage
<1>1. TypeOK'
  <2>1. CASE Cached(c)
    <3>1. memory' \in [Process -> [Account -> Observation \cup {Nothing}]]
      BY <1>0, <1>00, <2>1, RememberSets
    <3> QED  BY <1>0, <1>01, <2>1, <3>1 DEF TypeOK
  <2>2. CASE ~Cached(c)  BY <1>0, <1>01, <2>2, ZenonT(40) DEF TypeOK
  <2> QED  BY <2>1, <2>2
<1>2. \A d \in Call : stage[d] # "idle" => stage'[d] # "idle" /\ kind'[d] = kind[d]
  BY DEF TypeOK
<1>3. \A o, e : Cacheable(o, e) => Cacheable(o, e)'
  BY <1>2, CacheableStays
<1>4. Caches'
  <2>1. CASE Cached(c)
    <3>1. \A p \in Process, a \in Account : memory'[p][a] =
            IF p = c[1] /\ a = account[c] THEN Observed(c) ELSE memory[p][a]
      BY <1>0, <1>00, <2>1, RememberSets
    <3>2. \A d \in Call : seen'[d] = IF d = c THEN Observed(c) ELSE seen[d]
      BY <2>1 DEF TypeOK
    <3>3. disk' = disk /\ account' = account  OBVIOUS
    <3> HIDE DEF Observe, Observed, Cacheable
    <3> QED  BY <1>00, <1>3, <2>1, <3>1, <3>2, <3>3 DEF Caches
  <2>2. CASE ~Cached(c)  BY <1>3, <2>2 DEF Caches
  <2> QED  BY <2>1, <2>2
<1>5. Requests'
  <2>1. CASE Cached(c)
    <3>1. \A d \in Call : /\ seen'[d] = IF d = c THEN Observed(c) ELSE seen[d]
                          /\ stage'[d] = IF d = c THEN "saving" ELSE stage[d]
      BY <2>1 DEF TypeOK
    <3>2. /\ account' = account /\ kind' = kind /\ now' = now /\ clock' = clock
          /\ answer' = answer
      BY <2>1
    <3>3. clock - Observed(c).at < TTL  BY <1>0, CacheAssumption DEF TypeOK
    <3> HIDE DEF Observe, Observed
    <3> QED  BY <1>0, <2>1, <3>1, <3>2, <3>3 DEF Requests, Cached, Fresh
  <2>2. CASE ~Cached(c)
    BY <2>2 DEF TypeOK, Requests, Cached, Fresh
  <2> QED  BY <2>1, <2>2
<1>6. Flights'
  <2>1. \A d \in Call : (Cached(d) /\ stage[d] \in Probing)' <=> Cached(d) /\ stage[d] \in Probing
    BY DEF TypeOK, Cached, Probing, Requests
  <2>2. \A d \in Call : stage[d] # "preparing" => account'[d] = account[d]
    BY DEF TypeOK
  <2> QED  BY <1>2, <2>1, <2>2, FlightsStay DEF IInv
<1>7. Joins'
  <2>1. \A d \in Call : stage'[d] = "joined" => account'[d] = account[d] /\ Flight(d) # None
    BY DEF TypeOK, Joins
  <2> QED  BY <2>1, JoinsStay
<1>8. Answers'
  <2>1. ASSUME NEW d \in Call, answer'[d] = answer[d], answer'[d] # Nothing PROVE AnswerOK(d)'
    <3>1. account' = account /\ now' = now  OBVIOUS
    <3> QED  BY <1>2, <2>1, <3>1, AnswerStays
  <2>2. ASSUME answer'[c] # answer[c] PROVE AnswerOK(c)'
    <3>1. /\ answer'[c] = Observed(c) /\ account' = account /\ now' = now /\ kind' = kind
          /\ stage'[c] = "done"
      BY <2>2 DEF TypeOK
    <3>2. Fresh(c, Observed(c))
      BY <1>0, CacheAssumption DEF Fresh, Requests, TypeOK
    <3>3. account[c] # None => Probed(c) = account[c]  BY DEF Probed
    <3> HIDE DEF Observe, Observed
    <3> QED  BY <1>0, <3>1, <3>2, <3>3 DEF AnswerOK, Fresh
  <2>3. \A d \in Call \ {c} : answer'[d] = answer[d]  BY DEF TypeOK
  <2> QED  BY <2>1, <2>2, <2>3 DEF Answers
<1> QED  BY <1>1, <1>4, <1>5, <1>6, <1>7, <1>8

\* Forgetting only removes.
LEMMA NotAttemptedInv ==
  ASSUME IInv, NEW c \in Call, NotAttempted(c)
  PROVE  IInv'
<1> USE DEF IInv, NotAttempted, Goto, Remember, request
<1>1. TypeOK'
  BY CacheAssumption DEF TypeOK, Stage
<1>2. \A d \in Call : stage[d] # "idle" => stage'[d] # "idle" /\ kind'[d] = kind[d]
  BY DEF TypeOK
<1>3. \A o, e : Cacheable(o, e) => Cacheable(o, e)'
  BY <1>2, CacheableStays
<1>4. Caches'
  BY <1>3 DEF TypeOK, Caches
<1>5. Requests'
  BY <1>2 DEF TypeOK, Requests, Cached, Fresh
<1>6. Flights'
  <2>1. \A d \in Call : (Cached(d) /\ stage[d] \in Probing)' <=> Cached(d) /\ stage[d] \in Probing
    BY DEF TypeOK, Cached, Probing, Requests
  <2>2. \A d \in Call : stage[d] # "preparing" => account'[d] = account[d]
    BY DEF TypeOK
  <2> QED  BY <1>2, <2>1, <2>2, FlightsStay DEF IInv
<1>7. Joins'
  <2>1. \A d \in Call : stage'[d] = "joined" => account'[d] = account[d] /\ Flight(d) # None
    BY DEF TypeOK, Joins
  <2> QED  BY <2>1, JoinsStay
<1>8. Answers'
  <2>1. \A d \in Call : answer'[d] # Nothing => answer[d] # Nothing /\ answer'[d] = answer[d] /\ now'[d] = now[d]
    BY DEF TypeOK, Requests
  <2>2. \A d \in Call : stage[d] # "preparing" => account'[d] = account[d]
    BY DEF TypeOK
  <2> QED  BY <1>2, <2>1, <2>2, AnswerStays DEF Answers, IInv
<1> QED  BY <1>1, <1>4, <1>5, <1>6, <1>7, <1>8

\* The work is withdrawn and everybody who joined it is answered.
LEMMA SettleInv ==
  ASSUME IInv, NEW c \in Call, Settle(c)
  PROVE  IInv'
<1> USE DEF IInv, Settle, Fly, request
<1>0. /\ account[c] \in Account /\ Cached(c) /\ stage[c] \in Probing /\ Fly(c, None)
      /\ seen[c] \in Observation \cup {Nothing}
      /\ stage[c] = "saving" => seen[c] # Nothing /\ Cacheable(seen[c], account[c])
  BY Frozen DEF Requests, Probing, TypeOK, Caches
<1>00. \A d \in Call :
         /\ stage'[d] = IF d = c \/ d \in Awaiting(c) THEN "done" ELSE stage[d]
         /\ answer'[d] = IF (d = c \/ d \in Awaiting(c)) /\ stage[c] = "saving"
                           THEN seen[c] ELSE answer[d]
  BY DEF TypeOK
<1>1. TypeOK'
  <2>1. stage' \in [Call -> Stage]  BY DEF TypeOK, Stage
  <2>2. answer' \in [Call -> Observation \cup {Nothing}]  BY <1>0 DEF TypeOK
  <2>3. flight' \in [Process -> [Account -> Call \cup {None}]]  BY <1>0, FlySets
  <2>4. disk' \in [Account -> Observation \cup {Nothing, Foreign}]  BY <1>0 DEF TypeOK
  <2> QED  BY <2>1, <2>2, <2>3, <2>4 DEF TypeOK
<1>2. \A d \in Call : stage[d] # "idle" => stage'[d] # "idle" /\ kind'[d] = kind[d]
  BY DEF TypeOK
<1>3. \A o, e : Cacheable(o, e) => Cacheable(o, e)'
  BY <1>2, CacheableStays
<1>4. Caches'
  BY <1>3 DEF TypeOK, Caches
<1>5. Requests'
  BY <1>2 DEF TypeOK, Requests, Cached, Fresh
<1>6. Flights' /\ Joins'
  BY <1>0, <1>00, WithdrawKeeps
<1>8. Answers'
  <2>1. ASSUME NEW d \in Call, answer'[d] = answer[d], answer'[d] # Nothing PROVE AnswerOK(d)'
    <3>1. account' = account /\ now' = now  OBVIOUS
    <3> QED  BY <1>2, <2>1, <3>1, AnswerStays
  <2>2. ASSUME NEW d \in Call, answer'[d] # answer[d] PROVE AnswerOK(d)'
    <3>1. /\ answer'[d] = seen[c] /\ account' = account /\ now' = now /\ kind' = kind
          /\ (stage[c] = "saving" /\ d = c) \/ d \in Awaiting(c)
      BY <1>00, <2>2
    <3>2. account[d] = account[c] /\ Cached(d)
      BY <1>0, <1>00, <2>2, <3>1 DEF Awaiting, Requests
    <3>3. Cacheable(answer[d], account[d])'
      BY <1>0, <1>00, <1>3, <2>2, <3>1, <3>2 DEF Cacheable
    <3>4. Fresh(d, seen[c])
      <4>1. clock - seen[c].at < TTL /\ seen[c] # Nothing /\ now[d] <= clock
        BY <1>00, <2>2 DEF Requests
      <4>2. clock \in Int /\ now[d] \in Int /\ seen[c].at \in Int
        BY <1>0, <4>1 DEF TypeOK, Observation
      <4> QED  BY <4>1, <4>2, CacheAssumption DEF Fresh
    <3>5. kind'[d] = "fetch" => Fresh(d, answer[d])'  BY <3>1, <3>4 DEF Fresh
    <3> QED  BY <1>0, <3>1, <3>2, <3>3, <3>5, CacheableIsOK DEF Cached
  <2> QED  BY <2>1, <2>2 DEF Answers
<1> QED  BY <1>1, <1>4, <1>5, <1>6, <1>8

\* Switching accounts, damaging files and time change no call.
LEMMA AroundInv ==
  ASSUME IInv, (\E a \in Account : SwitchAccount(a) \/ Overwritten(a)) \/ Tick
  PROVE  IInv'
<1> USE DEF IInv, request
<1>1. /\ memory' = memory /\ flight' = flight /\ stage' = stage /\ kind' = kind
      /\ account' = account /\ now' = now /\ seen' = seen /\ answer' = answer
  BY DEF SwitchAccount, Overwritten, Tick
<1>2. \A o, e : Cacheable(o, e) => Cacheable(o, e)'
  BY <1>1 DEF Cacheable
<1>3. \A a \in Account : disk'[a] \in {disk[a], Foreign}
  BY DEF SwitchAccount, Overwritten, Tick, TypeOK
<1>4. TypeOK'
  <2>1. disk' \in [Account -> Observation \cup {Nothing, Foreign}] /\ selected' \in Account
    BY DEF SwitchAccount, Overwritten, Tick, TypeOK
  <2>2. clock' \in 0..Horizon
    BY CacheAssumption DEF SwitchAccount, Overwritten, Tick, TypeOK
  <2> QED  BY <1>1, <2>1, <2>2 DEF TypeOK
<1>5. Caches'  BY <1>1, <1>2, <1>3 DEF Caches
<1>6. Requests'
  <2>1. ASSUME NEW c \in Call
        PROVE  now[c] <= clock' /\ (stage[c] = "saving" => clock' - seen[c].at < TTL)
    <3>1. now[c] <= clock /\ (stage[c] = "saving" => clock - seen[c].at < TTL)
      BY DEF Requests
    <3>2. now[c] \in Int /\ clock \in Int  BY DEF TypeOK
    <3>3. CASE clock' = clock  BY <3>1, <3>3
    <3>4. CASE Tick
      <4>1. clock' = clock + 1 /\ now[c] <= clock + 1  BY <3>1, <3>2, <3>4 DEF Tick
      <4>2. stage[c] = "saving" => clock + 1 - seen[c].at < TTL  BY <3>4, Zenon DEF Tick
      <4>3. stage[c] = "saving" => seen[c].at \in Int
        BY DEF Requests, TypeOK, Observation
      <4> HIDE DEF IInv
      <4> QED  BY <3>2, <4>1, <4>2, <4>3
    <3> QED  BY <3>3, <3>4 DEF SwitchAccount, Overwritten
  <2> QED  BY <1>1, <2>1 DEF Requests, Cached, Fresh
<1>7. Flights' /\ Joins' /\ Answers'
  BY <1>1 DEF Flights, Flight, Cached, Joins, Answers, AnswerOK, Fresh
<1> QED  BY <1>4, <1>5, <1>6, <1>7

\* Nothing happens.
LEMMA StutterInv == IInv /\ UNCHANGED vars => IInv'
<1> SUFFICES ASSUME IInv, UNCHANGED vars PROVE IInv'  OBVIOUS
<1>1. TypeOK'  BY DEF vars, request, IInv, TypeOK
<1>2. Caches'  BY DEF vars, request, IInv, Caches, Cacheable
<1>3. Requests' /\ Flights' /\ Joins' /\ Answers'
  BY DEF vars, request, IInv, Requests, Flights, Flight, Cached, Joins, Answers, AnswerOK, Fresh
<1> QED  BY <1>1, <1>2, <1>3 DEF IInv

\* Every reachable state satisfies the inductive invariant of the cache.
THEOREM InductiveInvariant == Spec => []IInv
<1>1. IInv /\ [Next]_vars => IInv'
  <2> SUFFICES ASSUME IInv, [Next]_vars PROVE IInv'  OBVIOUS
  <2>1. ASSUME NEW c \in Call, Step(c) PROVE IInv'
    BY <2>1, PrepareInv, PruneInv, LookInv, ReadFileInv, DiscardInv, UseFileInv, MissInv,
       FailInv, ObserveInv, NotAttemptedInv, SettleInv DEF Step
  <2> QED  BY <2>1, BeginInv, AroundInv, StutterInv DEF Next
<1> QED  BY InitInv, <1>1, PTL DEF Spec

\* Whatever accounts are switched meanwhile, a call that resolved an account is
\* answered with that account's quota, and attributions are right.
THEOREM AnswersOfTheAccount == Spec => []RightAccount
<1>1. IInv => RightAccount  BY DEF IInv, Answers, AnswerOK, RightAccount
<1> QED  BY InductiveInvariant, <1>1, PTL

\* Calls of one process for one account share their requests.
THEOREM OneProbePerAccount == Spec => []Coalesced
<1>1. IInv => Coalesced
  <2> SUFFICES ASSUME IInv, NEW c \in Call, NEW d \in Call, c[1] = d[1], account[c] = account[d],
                      Cached(c), Cached(d),
                      {stage[c], stage[d]} \subseteq {"probing", "saving", "clearing"}
               PROVE  c = d
    BY DEF Coalesced
  <2> QED  BY DEF IInv, Flights, Flight, Probing
<1> QED  BY InductiveInvariant, <1>1, PTL

\* The observation that answers a fetch was not expired when the fetch began.
THEOREM AnswersAreFresh == Spec => []FreshAnswers
<1>1. IInv => FreshAnswers  BY DEF IInv, Answers, AnswerOK, FreshAnswers
<1> QED  BY InductiveInvariant, <1>1, PTL

\* An explicit refresh is answered by its own request, which answers no other.
THEOREM BypassStaysApart == Spec => []BypassIsApart
<1>1. IInv => BypassIsApart
  <2> SUFFICES ASSUME IInv, NEW c \in Call, kind[c] = "bypass"
               PROVE  /\ answer[c] # Nothing => answer[c].by = c
                      /\ \A d \in Call \ {c} : answer[d].by # c
    BY DEF BypassIsApart
  <2>1. answer[c] # Nothing => answer[c].by = c  BY DEF IInv, Answers, AnswerOK
  <2>2. ASSUME NEW d \in Call \ {c} PROVE answer[d].by # c
    <3>1. CASE answer[d] = Nothing  BY <3>1, CacheAssumption DEF Nothing
    <3>2. CASE answer[d] # Nothing  BY <3>2 DEF IInv, Answers, AnswerOK
    <3> QED  BY <3>1, <3>2
  <2> QED  BY <2>1, <2>2
<1> QED  BY InductiveInvariant, <1>1, PTL

------------------------------------------------------------------------------
(* The refinement: every step is one that QuotaService allows.             *)

\* A call that has not returned was not answered, and a read makes no request.
Silent == \A c \in Call : /\ stage[c] # "done" => answer[c] = Nothing
                          /\ stage[c] = "probing" => kind[c] # "read"

LEMMA SilentStays == ASSUME IInv, Silent, [Next]_vars PROVE Silent'
<1> USE DEF Goto, Return
<1>0. kind \in [Call -> {"fetch", "bypass", "read"}] /\ stage \in [Call -> Stage] /\ answer \in [Call -> Observation \cup {Nothing}] /\ Silent
  BY DEF IInv, TypeOK
<1>1. ASSUME NEW c \in Call, Step(c) PROVE Silent'
  <2>1. ASSUME NEW a \in Account \cup {None}, Prepare(c, a) PROVE Silent'
    BY <1>0, <2>1 DEF Silent, Prepare, request
  <2>2. ASSUME NEW old \in SUBSET Account, Prune(c, old) PROVE Silent'
    BY <1>0, <2>2 DEF Silent, Prune, request
  <2>3. CASE Look(c)
    BY <1>0, <2>3 DEF Silent, Look, request
  <2>4. CASE ReadFile(c) \/ Discard(c) \/ UseFile(c)
    BY <1>0, <2>4 DEF Silent, request, ReadFile, Discard, UseFile
  <2>5. CASE Miss(c)
    BY <1>0, <2>5 DEF Silent, Miss, request
  <2>6. CASE Fail(c) \/ Observe(c) \/ NotAttempted(c)
    BY <1>0, <2>6 DEF Silent, request, Fail, Observe, NotAttempted
  <2>7. CASE Settle(c)
    BY <1>0, <2>7 DEF Silent, request, Settle
  <2> QED BY <1>1, <2>1, <2>2, <2>3, <2>4, <2>5, <2>6, <2>7 DEF Step
<1>2. ASSUME NEW c \in Call, NEW k \in {"fetch", "bypass", "read"}, Begin(c, k) PROVE Silent'
  BY <1>0, <1>2 DEF Silent, Begin
<1>3. CASE (\E a \in Account : SwitchAccount(a) \/ Overwritten(a)) \/ Tick \/ UNCHANGED vars
  BY <1>0, <1>3 DEF Silent, request, SwitchAccount, Overwritten, Tick, vars
<1> QED BY <1>1, <1>2, <1>3 DEF Next

------------------------------------------------------------------------------
\* The cache, as QuotaService sees it.
Phases == [c \in Call |-> PhaseOf(stage[c])]
Store == [a \in Account |-> Held(a)]
InHand(c, a) == stage[c] \in {"read", "saving"} /\ account[c] = a

LEMMA HeldIs ==
  \A a, o : o \in Held(a) <=>
    /\ o \notin {Nothing, Foreign}
    /\ \/ o = disk[a]
       \/ \E p \in Process : o = memory[p][a]
       \/ \E c \in Call : InHand(c, a) /\ o = seen[c]
BY DEF Held, InHand

\* What is held after a step that brings nothing new.
LEMMA HeldShrinks ==
  ASSUME \A a \in Account : disk'[a] \in Held(a) \cup {Nothing, Foreign},
         \A a \in Account, p \in Process : memory'[p][a] \in Held(a) \cup {Nothing, Foreign},
         \A a \in Account, c \in Call : InHand(c, a)' => seen'[c] \in Held(a) \cup {Nothing, Foreign}
  PROVE  \A a \in Account : Store'[a] \subseteq Store[a]
<1> SUFFICES ASSUME NEW a \in Account, NEW o \in Held(a)' PROVE o \in Held(a)
  BY DEF Store
<1>1. /\ o \notin {Nothing, Foreign}
      /\ \/ o = disk'[a]
         \/ \E p \in Process : o = memory'[p][a]
         \/ \E c \in Call : InHand(c, a)' /\ o = seen'[c]
  BY DEF Held, InHand
<1> QED BY <1>1

\* What is where is held.
LEMMA HeldAll ==
  /\ \A a \in Account : disk[a] \in Held(a) \cup {Nothing, Foreign}
  /\ \A a \in Account, p \in Process : memory[p][a] \in Held(a) \cup {Nothing, Foreign}
  /\ \A a \in Account, c \in Call : InHand(c, a) => seen[c] \in Held(a) \cup {Nothing, Foreign}
BY HeldIs

\* A step of one call.
LEMMA PhaseMoves ==
  ASSUME stage \in [Call -> Stage], NEW c \in Call, NEW s, Goto(c, s)
  PROVE  Phases' = [Phases EXCEPT ![c] = PhaseOf(s)] /\ (PhaseOf(s) = PhaseOf(stage[c]) => Phases' = Phases)
<1>1. \A d \in Call : stage'[d] = IF d = c THEN s ELSE stage[d]
  BY DEF Goto
<1> QED BY <1>1 DEF Phases


\* What may answer a call, in the terms of the cache.
Allowed(c, o) ==
  \/ (kind[c] = "bypass" \/ account[c] = None) /\ o = Observed(c)
  \/ /\ kind[c] # "bypass" /\ account[c] \in Account /\ o \in Held(account[c])
     /\ kind[c] = "fetch" => now[c] - o.at < TTL

LEMMA AllowedIsPermitted == ASSUME NEW c \in Call, NEW o, Allowed(c, o) PROVE o \in Contract!Permitted(c)
<1>1. Contract!Made(c) = Observed(c)
  BY DEF Contract!Made, Observed, Probed
<1>2. account[c] \in Account => account[c] # None
  BY CacheAssumption
<1> QED BY <1>1, <1>2 DEF Allowed, Contract!Permitted, Contract!Apart

\* Calls return, and nothing is learnt.
LEMMA ReturnIsAllowed ==
  ASSUME IInv, NEW S \in SUBSET Call,
         \A c \in S : PhaseOf(stage[c]) = "bound" /\ (answer'[c] = Nothing \/ Allowed(c, answer'[c])),
         \A c \in Call : stage'[c] = "done" <=> (c \in S \/ stage[c] = "done"),
         \A c \in Call \ S : PhaseOf(stage'[c]) = PhaseOf(stage[c]) /\ answer'[c] = answer[c],
         answer' \in [Call -> Observation \cup {Nothing}],
         \A a \in Account : Store'[a] \subseteq Store[a],
         UNCHANGED <<clock, selected, request>>
  PROVE  Contract!Next
<1>1. \A c \in S : Phases[c] = "bound" /\ (answer'[c] = Nothing \/ answer'[c] \in Contract!Permitted(c))
  BY AllowedIsPermitted DEF Phases
<1>2. Phases' = [c \in Call |-> IF c \in S THEN "done" ELSE Phases[c]]
  BY DEF Phases, PhaseOf
<1>3. answer' = [c \in Call |-> IF c \in S THEN answer'[c] ELSE answer[c]]
  OBVIOUS
<1>4. Contract!Forgets
  BY DEF Contract!Forgets, Store
<1>5. Contract!Return(S)
  BY <1>1, <1>2, <1>3, <1>4 DEF Contract!Return, Phases, request
<1> QED BY <1>5 DEF Contract!Next

\* No call returns, and nothing is learnt.
LEMMA ForgettingIsAllowed ==
  ASSUME Phases' = Phases, \A a \in Account : Store'[a] \subseteq Store[a],
         UNCHANGED <<clock, selected, request, answer>>
  PROVE  Contract!Next
<1>1. Contract!Forgets
  BY DEF Contract!Forgets, Store
<1>2. Contract!Forget
  BY <1>1 DEF Contract!Forget, Phases, request
<1> QED BY <1>2 DEF Contract!Next

LEMMA StoreStays ==
  ASSUME UNCHANGED <<disk, memory, seen>>,
         \A a \in Account, c \in Call : InHand(c, a) /\ seen[c] # Nothing <=> InHand(c, a)' /\ seen[c] # Nothing
  PROVE  Store' = Store
<1>1. \A a \in Account : Held(a)' = Held(a)
  <2> SUFFICES ASSUME NEW a \in Account, NEW o PROVE o \in Held(a)' <=> o \in Held(a)
    OBVIOUS
  <2>1. o \in Held(a) <=>
          /\ o \notin {Nothing, Foreign}
          /\ \/ o = disk[a]
             \/ \E p \in Process : o = memory[p][a]
             \/ \E c \in Call : InHand(c, a) /\ o = seen[c]
    BY HeldIs
  <2>2. o \in Held(a)' <=>
          /\ o \notin {Nothing, Foreign}
          /\ \/ o = disk'[a]
             \/ \E p \in Process : o = memory'[p][a]
             \/ \E c \in Call : InHand(c, a)' /\ o = seen'[c]
    BY DEF Held, InHand
  <2> QED BY <2>1, <2>2
<1> QED BY <1>1 DEF Store

LEMMA BeginAllowed ==
  ASSUME IInv, NEW c \in Call, NEW k \in {"fetch", "bypass", "read"}, Begin(c, k)
  PROVE  Contract!Next
<1>1. stage \in [Call -> Stage] /\ Goto(c, "preparing") /\ stage[c] = "idle" /\ UNCHANGED <<disk, memory, seen, account>>
  BY DEF IInv, TypeOK, Begin
<1>2. Phases' = [Phases EXCEPT ![c] = "asked"] /\ Phases[c] = "idle"
  BY <1>1, PhaseMoves DEF PhaseOf, Phases
<1>3. Store' = Store
  BY <1>1, StoreStays DEF InHand, Goto
<1>4. Contract!Ask(c, k)
  BY <1>2, <1>3 DEF Contract!Ask, Begin, Phases, Store
<1> QED BY <1>4 DEF Contract!Next

LEMMA PrepareAllowed ==
  ASSUME IInv, Silent, NEW c \in Call, NEW a \in Account \cup {None}, Prepare(c, a)
  PROVE  Contract!Next
<1>0. /\ stage \in [Call -> Stage] /\ answer \in [Call -> Observation \cup {Nothing}] /\ stage[c] = "preparing"
      /\ a \in {selected, None} /\ UNCHANGED <<clock, selected, disk, memory, flight, kind, seen>>
      /\ account' = [account EXCEPT ![c] = a] /\ now' = [now EXCEPT ![c] = clock]
      /\ answer[c] = Nothing /\ account \in [Call -> Account \cup {None}] /\ seen[c] = Nothing
  BY DEF IInv, TypeOK, Prepare, Silent, Requests
<1>1. \/ \E s \in {"prepared", "probing", "reading"} : Goto(c, s) /\ UNCHANGED answer
      \/ /\ kind[c] = "read" /\ Goto(c, "done")
         /\ \/ answer' = [answer EXCEPT ![c] = Nothing]
            \/ a # None /\ memory[c[1]][a] # Nothing /\ answer' = [answer EXCEPT ![c] = memory[c[1]][a]]
  <2>1. CASE kind[c] # "read"
    BY <2>1 DEF Prepare
  <2>2. CASE kind[c] = "read" /\ a = None
    BY <2>2 DEF Prepare, Return
  <2>3. CASE kind[c] = "read" /\ a # None
    BY <2>3 DEF Prepare, Return
  <2> QED BY <2>1, <2>2, <2>3
<1>2. Phases[c] = "asked"
  BY <1>0 DEF Phases, PhaseOf
<1>3. \E s \in {"prepared", "probing", "reading", "done"} : Goto(c, s)
  BY <1>1
<1>4. Store' = Store
  <2>1. \A b \in Account, d \in Call : InHand(d, b) /\ seen[d] # Nothing <=> InHand(d, b)' /\ seen[d] # Nothing
    BY <1>0, <1>3 DEF InHand, Goto
  <2> QED BY <1>0, <2>1, StoreStays
<1>5. \/ Phases' = [Phases EXCEPT ![c] = "bound"] /\ UNCHANGED answer
      \/ /\ kind[c] = "read" /\ Phases' = [Phases EXCEPT ![c] = "done"]
         /\ \/ UNCHANGED answer
            \/ a # None /\ \E o \in Store[a] : answer' = [answer EXCEPT ![c] = o]
  <2>1. CASE \E s \in {"prepared", "probing", "reading"} : Goto(c, s) /\ UNCHANGED answer
    BY <1>0, <2>1, PhaseMoves DEF PhaseOf
  <2>2. CASE Goto(c, "done") /\ kind[c] = "read" /\ answer' = [answer EXCEPT ![c] = Nothing]
    BY <1>0, <2>2, PhaseMoves DEF PhaseOf
  <2>3. CASE /\ Goto(c, "done") /\ kind[c] = "read" /\ a # None /\ memory[c[1]][a] # Nothing
             /\ answer' = [answer EXCEPT ![c] = memory[c[1]][a]]
    <3>1. a \in Account /\ c[1] \in Process /\ memory[c[1]][a] \in Observation
      BY <2>3 DEF Call, IInv, TypeOK
    <3>2. memory[c[1]][a] # Foreign
      BY <3>1 DEF Observation, Foreign
    <3>3. memory[c[1]][a] \in Store[a]
      BY <2>3, <3>1, <3>2, HeldAll DEF Store
    <3> QED BY <1>0, <2>3, <3>3, PhaseMoves DEF PhaseOf
  <2> QED BY <1>1, <2>1, <2>2, <2>3
<1>6. Contract!Bind(c, a)
  BY <1>0, <1>2, <1>4, <1>5 DEF Contract!Bind, Phases, Store
<1> QED BY <1>6 DEF Contract!Next

\* A step of one call that changes neither what is known nor who is answered.
LEMMA QuietStep ==
  ASSUME IInv, NEW c \in Call, PhaseOf(stage[c]) = "bound",
         \E s \in {"looking", "joined", "reading", "discarding", "read", "probing", "clearing"} : Goto(c, s),
         \A a \in Account : Store'[a] \subseteq Store[a],
         UNCHANGED <<clock, selected, request, answer>>
  PROVE  Contract!Next
<1>1. Phases' = Phases
  BY PhaseMoves DEF PhaseOf, IInv, TypeOK
<1> QED BY <1>1, ForgettingIsAllowed

\* One call returns.
LEMMA OneReturns ==
  ASSUME IInv, NEW c \in Call, PhaseOf(stage[c]) = "bound", NEW o \in Observation \cup {Nothing}, Return(c, o),
         o = Nothing \/ Allowed(c, o), \A a \in Account : Store'[a] \subseteq Store[a],
         UNCHANGED <<clock, selected, request>>
  PROVE  Contract!Next
<1>1. /\ \A d \in Call : /\ stage'[d] = IF d = c THEN "done" ELSE stage[d]
                         /\ answer'[d] = IF d = c THEN o ELSE answer[d]
      /\ answer' \in [Call -> Observation \cup {Nothing}]
  BY DEF IInv, TypeOK, Return, Goto
<1>2. \A d \in {c} : PhaseOf(stage[d]) = "bound" /\ (answer'[d] = Nothing \/ Allowed(d, answer'[d]))
  BY <1>1
<1>3. /\ \A d \in Call : stage'[d] = "done" <=> (d \in {c} \/ stage[d] = "done")
      /\ \A d \in Call \ {c} : PhaseOf(stage'[d]) = PhaseOf(stage[d]) /\ answer'[d] = answer[d]
      /\ {c} \in SUBSET Call
  BY <1>1
<1> QED BY <1>1, <1>2, <1>3, ReturnIsAllowed

LEMMA LookupsAllowed ==
  ASSUME IInv, Silent, NEW c \in Call,
         Look(c) \/ ReadFile(c) \/ Discard(c) \/ UseFile(c) \/ Miss(c) \/ \E old \in SUBSET Account : Prune(c, old)
  PROVE  Contract!Next
<1>a. stage[c] \in {"looking", "reading", "discarding", "read", "prepared"}
  BY DEF Look, ReadFile, Discard, UseFile, Miss, Prune
<1>0. /\ stage \in [Call -> Stage] /\ account[c] \in Account /\ c[1] \in Process /\ PhaseOf(stage[c]) = "bound"
      /\ seen \in [Call -> Observation \cup {Nothing}] /\ disk \in [Account -> Observation \cup {Nothing, Foreign}]
      /\ memory \in [Process -> [Account -> Observation \cup {Nothing}]]
  <2>1. account[c] \in Account
    BY <1>a, Frozen
  <2> QED BY <1>a, <2>1 DEF IInv, TypeOK, PhaseOf, Call
<1>00. \A o \in Observation : o \notin {Nothing, Foreign}
  BY CacheAssumption DEF Observation, Nothing, Foreign
<1>1. ASSUME NEW old \in SUBSET Account, Prune(c, old) PROVE Contract!Next
  <2>1. \A a \in Account : disk'[a] \in {disk[a], Nothing}
    BY <1>0, <1>1 DEF Prune
  <2>2. \A a \in Account : Store'[a] \subseteq Store[a]
    BY <1>1, <2>1, HeldShrinks, HeldAll DEF Prune, InHand, Goto, request
  <2> QED BY <1>0, <1>1, <2>2, QuietStep DEF Prune
<1>2. CASE Look(c)
  <2>1. \A a \in Account : Store'[a] \subseteq Store[a]
    <3>1. \A a \in Account, d \in Call : InHand(d, a)' => InHand(d, a)
      BY <1>0, <1>2 DEF Look, InHand, Goto, Return, request
    <3> QED BY <1>2, <3>1, HeldShrinks, HeldAll DEF Look
  <2>2. CASE Fresh(c, Memory(c))
    <3>1. Memory(c) \in Observation /\ Return(c, Memory(c))
      BY <1>0, <1>2, <2>2 DEF Look, Fresh, Memory
    <3>2. Memory(c) \in Held(account[c])
      BY <1>0, <1>00, <3>1, HeldAll DEF Memory
    <3>3. kind[c] # "bypass"
      BY <1>2 DEF Look, IInv, Requests, Cached
    <3> QED BY <1>0, <1>2, <2>1, <2>2, <3>1, <3>2, <3>3, OneReturns DEF Look, Allowed, Fresh
  <2>3. CASE ~Fresh(c, Memory(c))
    <3>1. (Goto(c, "joined") \/ Goto(c, "reading")) /\ UNCHANGED answer
      BY <1>2, <2>3 DEF Look
    <3> QED BY <1>0, <1>2, <2>1, <3>1, QuietStep DEF Look
  <2> QED BY <2>2, <2>3
<1>3. CASE ReadFile(c)
  <2>1. seen' = [seen EXCEPT ![c] = seen'[c]] /\ seen'[c] \in {disk[account[c]], Nothing}
    BY <1>0, <1>3 DEF ReadFile, Disk
  <2>2. \A a \in Account, d \in Call : InHand(d, a)' => seen'[d] \in Held(a) \cup {Nothing, Foreign}
    BY <1>0, <1>3, <2>1, HeldAll DEF ReadFile, InHand, Goto, request
  <2>3. \A a \in Account : Store'[a] \subseteq Store[a]
    BY <1>3, <2>2, HeldShrinks, HeldAll DEF ReadFile
  <2> QED BY <1>0, <1>3, <2>3, QuietStep DEF ReadFile
<1>4. CASE Discard(c)
  <2>1. seen[c] = Nothing
    BY <1>4 DEF IInv, Requests, Discard
  <2>2. \A a \in Account : disk'[a] \in {disk[a], Nothing}
    BY <1>0, <1>4 DEF Discard
  <2>3. \A a \in Account : Store'[a] \subseteq Store[a]
    BY <1>0, <1>4, <2>1, <2>2, HeldShrinks, HeldAll DEF Discard, InHand, Goto, request
  <2> QED BY <1>0, <1>4, <2>3, QuietStep DEF Discard
<1>5. CASE UseFile(c)
  <2>1. /\ seen[c] \in Observation /\ stage[c] = "read" /\ Return(c, seen[c]) /\ Remember(c, seen[c])
        /\ kind[c] = "fetch" => Fresh(c, seen[c])
        /\ kind[c] # "bypass"
    BY <1>0, <1>5 DEF UseFile, IInv, Requests
  <2>2. seen[c] \in Held(account[c])
    BY <1>0, <1>00, <2>1, HeldAll DEF InHand
  <2>3. \A p \in Process, a \in Account :
          memory'[p][a] = IF p = c[1] /\ a = account[c] THEN seen[c] ELSE memory[p][a]
    BY <1>0, <2>1, RememberSets DEF IInv
  <2>4. \A p \in Process, a \in Account : memory'[p][a] \in Held(a) \cup {Nothing, Foreign}
    BY <2>2, <2>3, HeldAll
  <2>5. \A a \in Account : Store'[a] \subseteq Store[a]
    BY <1>5, <2>1, <2>4, HeldShrinks, HeldAll DEF UseFile, InHand, Goto, Return, request
  <2> QED BY <1>0, <1>5, <2>1, <2>2, <2>5, OneReturns DEF UseFile, Allowed, Fresh
<1>6. CASE Miss(c)
  <2>1. \A a \in Account : Store'[a] \subseteq Store[a]
    <3>1. \A a \in Account, d \in Call : InHand(d, a)' => InHand(d, a)
      BY <1>0, <1>6 DEF Miss, InHand, Goto, Return, request
    <3> QED BY <1>6, <3>1, HeldShrinks, HeldAll DEF Miss
  <2>2. CASE Return(c, Nothing)
    BY <1>0, <1>6, <2>1, <2>2, OneReturns DEF Miss
  <2>3. CASE ~Return(c, Nothing)
    <3>1. (Goto(c, "joined") \/ Goto(c, "probing")) /\ UNCHANGED answer
      BY <1>6, <2>3 DEF Miss
    <3> QED BY <1>0, <1>6, <2>1, <3>1, QuietStep DEF Miss
  <2> QED BY <2>2, <2>3
<1> QED BY <1>1, <1>2, <1>3, <1>4, <1>5, <1>6

LEMMA ProbesAllowed ==
  ASSUME IInv, Silent, NEW c \in Call, Fail(c) \/ Observe(c) \/ NotAttempted(c) \/ Settle(c)
  PROVE  Contract!Next
<1>a. stage[c] \in {"probing", "saving", "clearing"}
  BY DEF Fail, Observe, NotAttempted, Settle
<1>0. /\ stage \in [Call -> Stage] /\ c[1] \in Process /\ PhaseOf(stage[c]) = "bound"
      /\ seen \in [Call -> Observation \cup {Nothing}] /\ disk \in [Account -> Observation \cup {Nothing, Foreign}]
      /\ memory \in [Process -> [Account -> Observation \cup {Nothing}]]
      /\ answer \in [Call -> Observation \cup {Nothing}] /\ account \in [Call -> Account \cup {None}]
  BY <1>a DEF IInv, TypeOK, PhaseOf, Call
<1>00. \A o \in Observation : o \notin {Nothing, Foreign}
  BY CacheAssumption DEF Observation, Nothing, Foreign
<1>01. \A d \in Awaiting(c) : d \in Call /\ stage[d] = "joined" /\ PhaseOf(stage[d]) = "bound" /\ account[d] = account[c]
  BY DEF Awaiting, PhaseOf
<1>02. Cached(c) => account[c] \in Account
  BY Frozen
<1>1. CASE Fail(c)
  <2> DEFINE S == IF Cached(c) THEN {c} \cup Awaiting(c) ELSE {c}
  <2>1. S \in SUBSET Call /\ \A d \in S : stage[d] # "done" /\ PhaseOf(stage[d]) = "bound"
    BY <1>a, <1>0, <1>01
  <2>2. \A d \in Call : stage'[d] = IF d \in S THEN "done" ELSE stage[d]
    BY <1>0, <1>1, <1>01 DEF Fail
  <2>3. answer' = answer /\ \A d \in S : answer'[d] = Nothing
    BY <1>1, <2>1 DEF Fail, Silent
  <2>4. \A a \in Account : Store'[a] \subseteq Store[a]
    <3>1. \A a \in Account, d \in Call : InHand(d, a)' => InHand(d, a)
      BY <1>1, <2>2 DEF Fail, InHand, request
    <3> QED BY <1>1, <3>1, HeldShrinks, HeldAll DEF Fail
  <2>5. \A d \in Call : stage'[d] = "done" <=> (d \in S \/ stage[d] = "done")
    BY <2>2
  <2>6. \A d \in Call \ S : PhaseOf(stage'[d]) = PhaseOf(stage[d]) /\ answer'[d] = answer[d]
    BY <2>2, <2>3
  <2>7. UNCHANGED <<clock, selected, request>>
    BY <1>1 DEF Fail
  <2> HIDE DEF S
  <2> QED BY <1>0, <2>1, <2>3, <2>4, <2>5, <2>6, <2>7, ReturnIsAllowed
<1>2. CASE Observe(c) /\ ~Cached(c)
  <2>1. /\ Return(c, Observed(c)) /\ UNCHANGED <<clock, selected, request, disk, memory, seen>>
        /\ kind[c] = "bypass" \/ account[c] = None
    <3>1. kind[c] \in {"fetch", "bypass", "read"} /\ kind[c] # "read"
      BY <1>2 DEF Observe, Silent, IInv, TypeOK
    <3> QED BY <1>2, <3>1 DEF Observe, Cached
  <2>2. Observed(c) \in Observation
    BY DEF Observed, Probed, Observation, IInv, TypeOK
  <2>3. \A a \in Account : Store'[a] \subseteq Store[a]
    <3>1. \A a \in Account, d \in Call : InHand(d, a)' => InHand(d, a)
      BY <1>0, <2>1 DEF Return, Goto, InHand, request
    <3> QED BY <2>1, <3>1, HeldShrinks, HeldAll
  <2> QED BY <1>0, <2>1, <2>2, <2>3, OneReturns DEF Allowed
<1>3. CASE Observe(c) /\ Cached(c)
  <2>1. /\ UNCHANGED <<clock, selected, request, disk, answer>> /\ Goto(c, "saving")
        /\ seen' = [seen EXCEPT ![c] = Observed(c)] /\ Remember(c, Observed(c))
    BY <1>3 DEF Observe
  <2>2. Observed(c) \in Observation
    BY DEF Observed, Probed, Observation, IInv, TypeOK
  <2>3. \A p \in Process, a \in Account :
          memory'[p][a] = IF p = c[1] /\ a = account[c] THEN Observed(c) ELSE memory[p][a]
    BY <1>3, <1>02, <2>1, <2>2, RememberSets DEF IInv
  <2>4. ASSUME NEW a \in Account
        PROVE  Store'[a] \subseteq IF a = account[c] THEN Store[a] \cup {Observed(c)} ELSE Store[a]
    <3> SUFFICES ASSUME NEW o \in Held(a)' PROVE o \in Held(a) \/ (a = account[c] /\ o = Observed(c))
      BY DEF Store
    <3>1. /\ o \notin {Nothing, Foreign}
          /\ \/ o = disk'[a]
             \/ \E p \in Process : o = memory'[p][a]
             \/ \E d \in Call : InHand(d, a)' /\ o = seen'[d]
      BY DEF Held, InHand
    <3>2. CASE o = disk'[a]
      BY <2>1, <3>1, <3>2, HeldIs
    <3>3. CASE \E p \in Process : o = memory'[p][a]
      BY <2>3, <3>1, <3>3, HeldIs
    <3>4. CASE \E d \in Call : InHand(d, a)' /\ o = seen'[d]
      <4>1. PICK d \in Call : InHand(d, a)' /\ o = seen'[d]
        BY <3>4
      <4>2. CASE d = c
        BY <1>0, <2>1, <4>1, <4>2 DEF InHand, request
      <4>3. CASE d # c
        <5>1. InHand(d, a) /\ o = seen[d]
          BY <1>0, <2>1, <4>1, <4>3 DEF InHand, request, Goto
        <5> QED BY <3>1, <5>1, HeldIs
      <4> QED BY <4>2, <4>3
    <3> QED BY <3>1, <3>2, <3>3, <3>4
  <2>5. Phases' = Phases /\ Phases[c] = "bound"
    <3>1. stage[c] = "probing"
      BY <1>3 DEF Observe
    <3>2. PhaseOf("saving") = "bound" /\ PhaseOf(stage[c]) = "bound"
      BY <3>1 DEF PhaseOf
    <3>3. Phases' = Phases
      BY <1>0, <2>1, <3>2, PhaseMoves
    <3> QED BY <3>2, <3>3 DEF Phases
  <2>6. Contract!Made(c) = Observed(c) /\ ~Contract!Apart(c) /\ kind[c] = "fetch"
    BY <1>3 DEF Contract!Made, Observed, Probed, Contract!Apart, Cached
  <2>7. Contract!Learn(c)
    BY <2>1, <2>4, <2>5, <2>6 DEF Contract!Learn, Phases, Store, request
  <2> QED BY <2>7 DEF Contract!Next
<1>4. CASE NotAttempted(c)
  <2>1. \A p \in Process, a \in Account : memory'[p][a] \in {memory[p][a], Nothing}
    BY <1>4, <1>02, RememberSets DEF NotAttempted, IInv
  <2>2. \A a \in Account : Store'[a] \subseteq Store[a]
    <3>1. \A a \in Account, d \in Call : InHand(d, a)' => InHand(d, a)
      BY <1>0, <1>4 DEF NotAttempted, Goto, InHand, request
    <3> QED BY <1>4, <2>1, <3>1, HeldShrinks, HeldAll DEF NotAttempted
  <2> QED BY <1>0, <1>4, <2>2, QuietStep DEF NotAttempted
<1>5. CASE Settle(c)
  <2> DEFINE S == {c} \cup Awaiting(c)
  <2>1. S \in SUBSET Call /\ \A d \in S : stage[d] # "done" /\ PhaseOf(stage[d]) = "bound"
    BY <1>a, <1>0, <1>01
  <2>2. \A d \in Call : /\ stage'[d] = IF d \in S THEN "done" ELSE stage[d]
                        /\ answer'[d] = IF d \in S /\ stage[c] = "saving" THEN seen[c] ELSE answer[d]
    BY <1>0, <1>5 DEF Settle
  <2>3. /\ answer' \in [Call -> Observation \cup {Nothing}] /\ UNCHANGED <<clock, selected, request, memory, seen>>
    BY <1>0, <1>5 DEF Settle
  <2>4. /\ stage[c] \in {"saving", "clearing"} /\ Cached(c) /\ account[c] \in Account
        /\ stage[c] = "saving" => seen[c] \in Observation /\ clock - seen[c].at < TTL
    <3>1. stage[c] \in {"saving", "clearing"} /\ UNCHANGED account
      BY <1>5 DEF Settle, request
    <3>2. Cached(c)
      BY <3>1 DEF IInv, Requests
    <3>3. ASSUME stage[c] = "saving" PROVE seen[c] \in Observation /\ clock - seen[c].at < TTL
      BY <1>0, <3>3 DEF IInv, Requests
    <3> QED BY <1>02, <3>1, <3>2, <3>3
  <2>5. stage[c] = "saving" => seen[c] \in Held(account[c])
    BY <1>00, <2>4, HeldAll DEF InHand
  <2>6. ASSUME NEW d \in S PROVE answer'[d] = Nothing \/ Allowed(d, answer'[d])
    <3>1. CASE stage[c] = "clearing"
      BY <2>1, <2>2, <3>1 DEF Silent
    <3>2. CASE stage[c] = "saving"
      <4>1. answer'[d] = seen[c] /\ account[d] = account[c] /\ d \in Call
        BY <1>01, <2>1, <2>2, <3>2
      <4>2. Cached(d) /\ now[d] <= clock
        BY <1>01, <2>4, <4>1 DEF IInv, Requests
      <4>3. clock \in Int /\ now[d] \in Int /\ seen[c].at \in Int /\ TTL \in Int
        BY <2>4, <3>2, <4>1, CacheAssumption DEF IInv, TypeOK, Observation
      <4>4. now[d] - seen[c].at < TTL
        BY <2>4, <3>2, <4>2, <4>3
      <4> QED BY <2>4, <2>5, <3>2, <4>1, <4>2, <4>4 DEF Allowed, Cached
    <3> QED BY <2>4, <3>1, <3>2
  <2>7. \A a \in Account : Store'[a] \subseteq Store[a]
    <3>1. \A a \in Account, d \in Call : InHand(d, a)' => InHand(d, a)
      BY <2>2, <2>3 DEF InHand, request
    <3>2. \A a \in Account : disk'[a] \in Held(a) \cup {Nothing, Foreign}
      BY <1>0, <1>5, <2>4, <2>5, HeldAll DEF Settle
    <3> QED BY <2>3, <3>1, <3>2, HeldShrinks, HeldAll
  <2>8. \A d \in Call : stage'[d] = "done" <=> (d \in S \/ stage[d] = "done")
    BY <2>2
  <2>9. \A d \in Call \ S : PhaseOf(stage'[d]) = PhaseOf(stage[d]) /\ answer'[d] = answer[d]
    BY <2>2
  <2> HIDE DEF S
  <2> QED BY <2>1, <2>3, <2>6, <2>7, <2>8, <2>9, ReturnIsAllowed
<1> QED BY <1>1, <1>2, <1>3, <1>4, <1>5

LEMMA AroundAllowed ==
  ASSUME IInv, (\E a \in Account : SwitchAccount(a) \/ Overwritten(a)) \/ Tick
  PROVE  Contract!Next
<1>1. ASSUME NEW a \in Account, SwitchAccount(a) PROVE Contract!Next
  <2>1. Store' = Store
    BY <1>1, StoreStays DEF SwitchAccount, InHand, request
  <2>2. Contract!Switch(a)
    BY <1>1, <2>1 DEF Contract!Switch, SwitchAccount, request, Store
  <2> QED BY <2>2 DEF Contract!Next
<1>2. ASSUME NEW a \in Account, Overwritten(a) PROVE Contract!Next
  <2>1. \A b \in Account : disk'[b] \in {disk[b], Foreign}
    BY <1>2 DEF Overwritten, IInv, TypeOK
  <2>2. \A b \in Account : Store'[b] \subseteq Store[b]
    BY <1>2, <2>1, HeldShrinks, HeldAll DEF Overwritten, InHand, request
  <2> QED BY <1>2, <2>2, ForgettingIsAllowed DEF Overwritten, Phases
<1>3. CASE Tick
  <2>1. Store' = Store
    BY <1>3, StoreStays DEF Tick, InHand, request
  <2>2. Contract!Tick
    BY <1>3, <2>1 DEF Contract!Tick, Tick, request, Store
  <2> QED BY <2>2 DEF Contract!Next
<1> QED BY <1>1, <1>2, <1>3

\* The cache implements QuotaService.
THEOREM ContractKept == Spec => KeepsContract
<1>1. Init => Contract!Init /\ Silent
  <2> SUFFICES ASSUME Init PROVE Contract!Init /\ Silent
    OBVIOUS
  <2>1. Store = [a \in Account |-> {}]
    BY DEF Init, Store, Held
  <2>2. Phases = [c \in Call |-> "idle"]
    BY DEF Init, Phases, PhaseOf
  <2> QED BY <2>1, <2>2 DEF Init, Contract!Init, Silent, Store, Phases
<1>2. IInv /\ Silent /\ [Next]_vars => [Contract!Next]_Contract!vars
  <2> SUFFICES ASSUME IInv, Silent, [Next]_vars PROVE Contract!Next \/ UNCHANGED Contract!vars
    OBVIOUS
  <2>1. ASSUME NEW c \in Call, Step(c) PROVE Contract!Next
    BY <2>1, PrepareAllowed, LookupsAllowed, ProbesAllowed DEF Step
  <2>2. CASE UNCHANGED vars
    <3>1. Store' = Store /\ Phases' = Phases
      BY <2>2, StoreStays DEF vars, request, InHand, Phases
    <3> QED BY <2>2, <3>1 DEF vars, request, Contract!vars, Store, Phases
  <2> QED BY <2>1, <2>2, BeginAllowed, AroundAllowed DEF Next
<1>3. IInv /\ Silent /\ [Next]_vars => Silent'
  BY SilentStays
<1> QED BY <1>1, <1>2, <1>3, InductiveInvariant, PTL DEF Spec, KeepsContract, Contract!Spec
==============================================================================
