------------------------------ MODULE GoogleQuota ------------------------------
(***************************************************************************)
(* google.ts, google-gemini-cli.ts, google-agy.ts, their companions and    *)
(* google-token-cache.ts: what the accounts of Antigravity, of the Gemini  *)
(* CLI and of AGY have left.  The three differ in where accounts and the   *)
(* credentials of the OAuth client come from and in how an answer is read; *)
(* all ask for several accounts at a time, with access tokens kept in one  *)
(* file that is written without a lock.                                    *)
(***************************************************************************)
EXTENDS Integers, Sequences, FiniteSetsExt
LOCAL INSTANCE SequencesExt

CONSTANTS
  Setup,          \* what a run of the program may find, see Init
  None,
  Unloaded,       \* memCache before it is read
  Torn,           \* a file that is not JSON
  Concurrency,    \* *_ACCOUNTS_CONCURRENCY
  Skew,           \* skewMs
  Lives,          \* values of expires_in
  Answers,        \* answers of the quota endpoint
  MaxClock, MaxRuns

VARIABLES
  setup,          \* product, accounts and companion of this run
  job,            \* "quota", or "tokens" for refreshGoogleTokensForAllAccounts
  clock, runs,
  mem, disk,      \* memCache and google-access-tokens.json: tokens by key
  writing,        \* snapshots of memCache being written, by account
  pc, token, got, \* by account: its step, the token it uses, what it got
  result

googleVars == <<setup, job, clock, runs, mem, disk, writing, pc, token, got, result>>

Missing == -1000
NoToken == [of |-> None, until |-> Missing]
NoneYet == [status |-> "none"]

------------------------------------------------------------------------------
(* Accounts.                                                               *)

WithRefresh(accounts) == SelectSeq(accounts, LAMBDA a : a.refresh # None)

\* The readable files that list accounts, and what the first of them has.
Listed(files, among) == {i \in among : files[i].ok /\ files[i].accounts # <<>>}
FirstListed(files, among) ==
  IF Listed(files, among) = {} THEN <<>>
  ELSE WithRefresh(files[Min(Listed(files, among))].accounts)

\* readAntigravityAccounts: of the first such file.
ReadAntigravityAccounts(files) == FirstListed(files, DOMAIN files)

AntigravityPresence_Listed(files) ==
  IF \E i \in DOMAIN files : files[i].ok /\ files[i].accounts # <<>> THEN "present" ELSE "missing"

\* inspectAntigravityAccountsPresence
AntigravityPresence(files) ==
  LET present == {i \in DOMAIN files : files[i].exists}
  IN  IF present = {} THEN "missing"
      ELSE IF Listed(files, present) = {} THEN "invalid"
      ELSE IF FirstListed(files, present) = <<>> THEN "empty" ELSE "present"

\* resolveProjectId, down to whether the entry names a project itself.
ProjectOf(entry, configured) == IF entry.project # None THEN entry.project ELSE configured

\* resolveGeminiCliAccounts, resolveAgyAccounts: entries of auth.json in a
\* fixed order; of those with one refresh token and project, the first.
ResolveAccounts(entries, configured) ==
  LET named == [i \in DOMAIN entries |->
                  [entries[i] EXCEPT !.project = ProjectOf(entries[i], configured)]]
      usable == SelectSeq(named, LAMBDA a : a.oauth /\ a.refresh # None /\ a.project # None)
      first(i) == \A j \in 1..(i - 1) : \/ usable[j].refresh # usable[i].refresh
                                       \/ usable[j].project # usable[i].project
  IN  FoldSeq(LAMBDA i, kept : IF first(i) THEN Append(kept, usable[i]) ELSE kept,
              <<>>, [i \in DOMAIN usable |-> i])

\* inspectGeminiCliAuthPresence, inspectAgyAuthPresence
AuthPresence(entries, configured) ==
  IF \A i \in DOMAIN entries : ~entries[i].oauth THEN "missing"
  ELSE IF ResolveAccounts(entries, configured) = <<>> THEN "invalid" ELSE "present"

\* AGY has entries of its own names and of its own option, read alike.
AgyAccounts(s) == ResolveAccounts(s.entries, s.configured)
AgyPresence(s) == AuthPresence(s.entries, s.configured)

Accounts(s) ==
  CASE s.product = "antigravity" -> ReadAntigravityAccounts(s.files)
    [] s.product = "gemini" -> ResolveAccounts(s.entries, s.configured)
    [] s.product = "agy" -> AgyAccounts(s)

\* Each candidate of the companion package either is not there, has the
\* credentials, or ends the search without them.  A package that hides all its
\* files is there, too.
Search(candidates, ends) ==
  LET there == {i \in DOMAIN candidates : candidates[i] \in {"credentials"} \cup ends}
  IN  IF there # {}
      THEN IF candidates[Min(there)] = "credentials" THEN "present" ELSE "invalid"
      ELSE IF \E i \in DOMAIN candidates : candidates[i] = "hidden" THEN "invalid"
      ELSE "missing"

\* resolveCompanionState of the three: a file that is there and cannot be read ends
\* the search for Antigravity only.
GeminiCompanion(s) == Search(s.candidates, {"invalid"})
AgyCompanion(s) == Search(s.candidates, {"invalid"})
AntigravityCompanion(s) == Search(s.candidates, {"invalid", "unreadable"})

CompanionState(s) ==
  CASE s.product = "antigravity" -> AntigravityCompanion(s)
    [] s.product = "gemini" -> GeminiCompanion(s)
    [] s.product = "agy" -> AgyCompanion(s)

\* has*QuotaRuntimeAvailable
Available(s) ==
  /\ CompanionState(s) = "present"
  /\ \/ s.product = "antigravity" /\ AntigravityPresence(s.files) = "present"
     \/ s.product = "gemini" /\ AuthPresence(s.entries, s.configured) = "present"
     \/ s.product = "agy" /\ AgyPresence(s) = "present"

KeyOf_Address(account) == [refresh |-> None, project |-> account.project, email |-> account.email]

\* makeAccountCacheKey.  For want of an address, only a query of Antigravity says
\* Unknown.
KeyOf(account) ==
  [refresh |-> account.refresh, project |-> account.project,
   email |-> IF account.email = None /\ setup.product = "antigravity" /\ job = "quota"
             THEN "Unknown" ELSE account.email]

------------------------------------------------------------------------------
(* What an answer says.                                                    *)

\* getActiveRateLimitResetTime: the latest reset ahead that the companion noted for
\* a model or for its family.
ActiveReset(account, model) ==
  LET ahead == {r.at : r \in {x \in account.limits : x.model \in {model, "family"} /\ x.at > clock}}
  IN  IF ahead = {} THEN Missing ELSE Max(ahead)

\* extractModelQuotas: a model that is limited has nothing left, listed or not.
ModelQuotas(answer, account) ==
  LET listed(m) == \E i \in DOMAIN answer : answer[i].model = m
      reading(m) == answer[Min({i \in DOMAIN answer : answer[i].model = m})].left
      shown == SelectSeq(setup.models,
                         LAMBDA m : listed(m) \/ ActiveReset(account, m) # Missing)
  IN  [i \in DOMAIN shown |->
         [model |-> shown[i],
          left |-> IF ActiveReset(account, shown[i]) # Missing \/ ~listed(shown[i])
                      \/ reading(shown[i]) = Missing THEN 0
                   ELSE reading(shown[i])]]

\* getGeminiCliQualityTier, by the words of a model's name
Tier(words) ==
  IF {"flash", "lite"} \subseteq words THEN "flashLite"
  ELSE IF "pro" \in words THEN "pro"
  ELSE IF "flash" \in words THEN "flash" ELSE "none"

\* percentRemaining in mapQuotaBuckets; AGY knows unlimited buckets.
GeminiLeft(bucket) == IF bucket.left # Missing THEN bucket.left ELSE 0
AgyLeft(bucket) == IF bucket.left = Missing /\ bucket.unlimited THEN 100 ELSE GeminiLeft(bucket)

\* aggregateGeminiCliQualityTiers: one bucket per tier, with the least that one of
\* the tier has left, then those of no tier.
TierBuckets(answer) ==
  LET of(tier) == {i \in DOMAIN answer : Tier(answer[i].words) = tier}
      known == SelectSeq(<<"pro", "flash", "flashLite">>, LAMBDA t : of(t) # {})
  IN  [i \in DOMAIN known |-> [model |-> known[i], left |-> Min({GeminiLeft(answer[j]) : j \in of(known[i])})]]
      \o LET rest == SelectSeq(answer, LAMBDA b : Tier(b.words) = "none")
         IN  [i \in DOMAIN rest |-> [model |-> rest[i].model, left |-> GeminiLeft(rest[i])]]

\* aggregateAgyBuckets, and the two groups fetch of the provider makes of them: what
\* is in neither is left out.
GroupBuckets(answer) ==
  LET inGroup(i, g) == IF g = "gemini" THEN "gemini" \in answer[i].words
                       ELSE "gemini" \notin answer[i].words
                            /\ answer[i].words \cap {"claude", "gpt"} # {}
      of(g) == {i \in DOMAIN answer : inGroup(i, g)}
      known == SelectSeq(<<"claude", "gemini">>, LAMBDA g : of(g) # {})
  IN  [i \in DOMAIN known |-> [model |-> known[i], left |-> Min({AgyLeft(answer[j]) : j \in of(known[i])})]]

Readings(answer, account) ==
  CASE setup.product = "antigravity" -> ModelQuotas(answer, account)
    [] setup.product = "gemini" -> TierBuckets(answer)
    [] setup.product = "agy" -> GroupBuckets(answer)

------------------------------------------------------------------------------
(* A query.  mapWithConcurrency takes the accounts in their order.         *)

List == Accounts(setup)

\* The accounts a query goes to, and its result when it goes to none.
Asked(s) == IF CompanionState(s) = "present" THEN DOMAIN Accounts(s) ELSE {}
Early(s) ==
  IF Accounts(s) = <<>> THEN [status |-> "unconfigured"]
  ELSE IF CompanionState(s) # "present" THEN [status |-> "companion"]
  ELSE NoneYet

Begin(s, j) ==
  /\ setup' = s /\ job' = j
  /\ pc' = [i \in Asked(s) |-> "waiting"]
  /\ token' = [i \in Asked(s) |-> NoToken]
  /\ got' = [i \in Asked(s) |-> NoneYet]
  /\ writing' = <<>>
  /\ result' = Early(s)

\* What an account ends with.
Ends(i, outcome) == pc' = [pc EXCEPT ![i] = "done"] /\ got' = [got EXCEPT ![i] = outcome]

Failure(why) == [status |-> "error", why |-> why]

Take(i) ==
  /\ result = NoneYet /\ pc[i] = "waiting"
  /\ \A j \in 1..(i - 1) : pc[j] # "waiting"
  /\ Cardinality({j \in DOMAIN pc : pc[j] \notin {"waiting", "done"}}) < Concurrency
  /\ IF List[i].project = None THEN Ends(i, Failure("No projectId"))
     ELSE pc' = [pc EXCEPT ![i] = "lookup"] /\ UNCHANGED got
  /\ UNCHANGED <<setup, job, clock, runs, mem, disk, writing, token, result>>

\* ensureLoaded: the first to need the file reads it for all.
Load ==
  /\ mem = Unloaded /\ \E i \in DOMAIN pc : pc[i] \in {"lookup", "store"}
  /\ mem' = IF disk = Torn THEN <<>> ELSE disk
  /\ UNCHANGED <<setup, job, clock, runs, disk, writing, pc, token, got, result>>

Lasts(t) == t.until > clock + Skew

Cached(i) == IF KeyOf(List[i]) \in DOMAIN mem THEN mem[KeyOf(List[i])] ELSE NoToken

\* The cached token, that of auth.json, or a new one; force goes for a new one.
LookUp(i) ==
  /\ pc[i] = "lookup" /\ mem # Unloaded
  /\ LET own == List[i].access
         next == IF job = "quota" THEN "ask" ELSE "done"
         ready == IF job = "tokens" THEN [got EXCEPT ![i] = [status |-> "ready"]] ELSE got
     IN  IF Lasts(Cached(i))
         THEN /\ token' = [token EXCEPT ![i] = Cached(i)]
              /\ pc' = [pc EXCEPT ![i] = next] /\ got' = ready
         ELSE IF setup.product # "antigravity" /\ Lasts(own)
         THEN /\ token' = [token EXCEPT ![i] = own]
              /\ pc' = [pc EXCEPT ![i] = next] /\ got' = ready
         ELSE pc' = [pc EXCEPT ![i] = "refresh"] /\ UNCHANGED <<token, got>>
  /\ UNCHANGED <<setup, job, clock, runs, mem, disk, writing, result>>

\* refreshAccessToken: revoked, refused, late, or a token of some seconds at least.
Refresh(i) ==
  /\ pc[i] \in {"refresh", "again"}
  /\ \/ \E why \in {"Token revoked", "HTTP", "Token refresh timeout"} :
          Ends(i, Failure(why)) /\ UNCHANGED token
     \/ \E life \in Lives :
          /\ token' = [token EXCEPT ![i] =
                         [of |-> List[i].refresh, until |-> clock + Max({1, life})]]
          /\ pc' = [pc EXCEPT ![i] = IF pc[i] = "again" THEN "store again" ELSE "store"]
          /\ UNCHANGED got
  /\ UNCHANGED <<setup, job, clock, runs, mem, disk, writing, result>>

Put(f, k, v) == [x \in DOMAIN f \cup {k} |-> IF x = k THEN v ELSE f[x]]

\* setCachedAccessToken up to its writeFile, which takes all of memCache.  (mkdir is
\* taken together with it: what other accounts store meanwhile is in a later snapshot.)
Store(i) ==
  /\ pc[i] \in {"store", "store again"} /\ mem # Unloaded
  /\ mem' = Put(mem, KeyOf(List[i]), token[i])
  /\ writing' = Put([j \in DOMAIN writing |-> [writing[j] EXCEPT !.alone = FALSE]], i,
                    [data |-> mem', alone |-> writing = <<>>])
  /\ pc' = [pc EXCEPT ![i] = IF pc[i] = "store" THEN "write" ELSE "write again"]
  /\ UNCHANGED <<setup, job, clock, runs, disk, token, got, result>>

Drop(f, k) == [x \in DOMAIN f \ {k} |-> f[x]]

\* Writes that overlap leave one of them, or a mixture that is not JSON.  One that
\* fails fails the account, and with it a renewal of all tokens.
EndWrite(i) ==
  /\ pc[i] \in {"write", "write again"}
  /\ writing' = Drop(writing, i)
  /\ \/ /\ disk' \in {writing[i].data} \cup (IF writing[i].alone THEN {} ELSE {Torn})
        /\ IF job = "tokens" THEN Ends(i, [status |-> "ready"])
           ELSE /\ pc' = [pc EXCEPT ![i] = IF pc[i] = "write" THEN "ask" ELSE "ask again"]
                /\ UNCHANGED got
     \/ disk' = disk /\ Ends(i, Failure("EACCES"))
  /\ UNCHANGED <<setup, job, clock, runs, mem, token, result>>

\* The quota request.  An answer of 401 or 403 has the token renewed, once.
Ask(i) ==
  /\ pc[i] \in {"ask", "ask again"}
  /\ \/ \E a \in Answers : Ends(i, [status |-> "ok", of |-> token[i].of, readings |-> Readings(a, List[i])])
     \/ Ends(i, Failure("API"))
     \/ IF pc[i] = "ask" THEN pc' = [pc EXCEPT ![i] = "again"] /\ UNCHANGED got
        ELSE Ends(i, Failure("auth"))
  /\ UNCHANGED <<setup, job, clock, runs, mem, disk, writing, token, result>>

\* The combined result, in the order of the accounts.
Finish ==
  /\ result = NoneYet /\ \A i \in DOMAIN pc : pc[i] = "done"
  /\ LET errors == {i \in DOMAIN got : got[i].status = "error"}
         rows == [i \in DOMAIN got |-> IF got[i].status = "ok" THEN got[i].readings ELSE <<>>]
     IN  result' = IF job = "tokens" /\ (\E i \in errors : got[i] = Failure("EACCES")) THEN [status |-> "rejected"]
                   ELSE IF job = "tokens"
                   THEN [status |-> "refreshed", ready |-> Len(got) - Cardinality(errors), errors |-> errors]
                   ELSE IF FlattenSeq(rows) = <<>> /\ errors = {} THEN [status |-> "nothing"]
                   ELSE [status |-> "success", rows |-> rows, errors |-> errors]
  /\ UNCHANGED <<setup, job, clock, runs, mem, disk, writing, pc, token, got>>

\* The next query of this process, or the first of another one.
Again ==
  /\ result # NoneYet /\ runs < MaxRuns /\ runs' = runs + 1
  /\ \E j \in {"quota", "tokens"} : (j = "tokens" => setup.product = "antigravity") /\ Begin(setup, j)
  /\ UNCHANGED <<clock, disk>>
  /\ mem' \in {mem, Unloaded}

\* The process ends while it writes: any of the snapshots, or part of one.
Restart ==
  /\ writing # <<>> /\ runs < MaxRuns /\ runs' = runs + 1
  /\ disk' \in {disk, Torn} \cup {writing[i].data : i \in DOMAIN writing}
  /\ mem' = Unloaded
  /\ Begin(setup, "quota")
  /\ UNCHANGED clock

Tick ==
  /\ clock < MaxClock /\ clock' = clock + 1
  /\ UNCHANGED <<setup, job, runs, mem, disk, writing, pc, token, got, result>>

GoogleInit ==
  /\ setup \in Setup /\ job = "quota"
  /\ clock = 0 /\ runs = 0
  /\ mem = Unloaded /\ disk = <<>> /\ writing = <<>>
  /\ pc = [i \in Asked(setup) |-> "waiting"]
  /\ token = [i \in Asked(setup) |-> NoToken]
  /\ got = [i \in Asked(setup) |-> NoneYet]
  /\ result = Early(setup)

GoogleNext ==
  \/ \E i \in DOMAIN pc : Take(i) \/ LookUp(i) \/ Refresh(i) \/ Store(i) \/ EndWrite(i) \/ Ask(i)
  \/ Load \/ Finish \/ Again \/ Restart \/ Tick

GoogleSpec == GoogleInit /\ [][GoogleNext]_googleVars

------------------------------------------------------------------------------
(* Properties.                                                             *)

\* Tokens never cross accounts, however runs, crashes and overlapping writes leave
\* the shared file: what is shown for an account was answered to a token of its own
\* refresh token.  And each account of a query is in its result, in its place: with
\* its readings or its error.
AccountsKeptApart ==
  /\ \A i \in DOMAIN got :
       got[i].status = "ok" => got[i].of \in {List[i].refresh, List[i].access.of}
  /\ \A cache \in {mem, disk} \ {Unloaded, Torn} :
       \A k \in DOMAIN cache : cache[k].of = k.refresh
  /\ result.status = "success" =>
       \A i \in DOMAIN List :
         \/ i \in result.errors
         \/ got[i].status = "ok" /\ result.rows[i] = got[i].readings

\* A provider that says it is available has accounts to ask for and the credentials
\* to do it with, whichever of the files is damaged.
AvailableIsAsked == Available(setup) => result.status \notin {"unconfigured", "companion"}
==============================================================================
