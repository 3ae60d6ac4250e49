# Verification of opencode-quota

opencode-quota shows how much of their AI quota users have left: an OpenCode
plugin (`plugin.ts`, `tui.tsx`), a desktop app (`gui/`), a dashboard
(`dashboard/`) and a command line (`bin/`), over common libraries (`lib/`,
`providers/`). Several of these processes run at once on one machine. They share
a SQLite history database and a directory of JSON files, and nothing else: no
daemon orders them. Beside that concurrency, much of the program decides: which
credential a query uses, what an answer means, what a message cost, which of
several settings counts. This directory holds TLA+ models of both, TLC configurations
that check the models on small instances, and theorems that TLAPS checks for
instances of any size.

Paths below are relative to `src/src/`.

## 1. Inventory

| Part | State it keeps | Operations | Shares with | What must hold |
|---|---|---|---|---|
| **Reset detection** `lib/quota-reset-transition.ts`, `dashboard/reset-events.ts:22`, `dashboard/api.ts:88` | `accounting_observations`, `quota_snapshots`, `reset_events` | observe, capture, read the current quota | every process that fetches quota | a reset is announced once, and only if a period did end |
| **Reset notice delivery** `dashboard/reset-events.ts`, `gui/reset-notification-runtime.ts`, `plugin.ts:77` | states and leases of `reset_events`, `reset_delivery_consumers`, flags of a runtime | claim, settle, advertise, retry | desktop launches and plugin processes | one notice for a reset, unless an attempt failed or the user asks |
| **Refresh controller** `gui/quota-refresh-controller.ts`, `gui/main.ts` | timer, fetch in flight, queued query, published snapshot, installed settings | timer, refresh (cached, fresh), suspend, resume, interval, reload, dispose | IPC calls, power events | one query at a time, automatic refresh never dies, what is shown as current is |
| **Schema migration** `dashboard/db-migrate.ts` | schema version, backup directories | open the database | all processes, of this and earlier packages | one upgrade, with a backup of exactly what was upgraded |
| **Provider cache** `lib/quota-state.ts` | memory, requests in flight, a file per account | fetch, bypass, read cached | all surfaces and processes | never the other account's answer, never two probes at once, never an expired answer |
| **Account identity** `lib/resolved-auth-identity.ts` | a key file | create or read | all processes | one key for all of them, whatever crashes |
| **Deferred toast refresh** `plugin.ts:286-1412` | a record and a timer per session, the loaded configuration | hooks, timers, toasts | hooks of one session | a failed quota toast is retried, by one call, and not after the plugin was disabled |
| **API key store** `lib/apikey-store.ts`, `lib/atomic-json.ts` | an encrypted file, the derived key, decrypted keys | create, unlock, lock, save, delete, change passphrase | IPC calls | what was acknowledged can be read with the passphrase chosen last |
| **Quota providers** `lib/anthropic.ts`, `lib/copilot.ts`, `lib/google*.ts`, the keyed ones under `lib/` and `providers/` | cooldowns, tokens, requests in flight | find a credential, say whether available, query, read the answer | credentials other programs write | the answer is of the account it is shown for; whoever says it is available answers with a row or an error |
| **Quota collection** `lib/quota-render-data.ts`, `plugin.ts` | none | collect, choose, render | all surfaces | a provider the user names never vanishes; both styles speak of the same |
| **Usage statistics** `lib/quota-stats.ts`, `lib/opencode-storage.ts`, `lib/claude-code-cli-storage.ts` | none; reads OpenCode's database and transcripts | report, tree, summary | sources that are being written | each message once, each table the same total |
| **Pricing** `lib/modelsdev-pricing.ts`, `lib/user-pricing.ts` | snapshot, state of the last attempt, overrides | refresh, select, look up | processes | prices are as old as they say |
| **Locally counted quotas** `lib/quota-providers-local.ts`, `lib/qwen-local-quota.ts` | events and aliases in SQLite, JSON journals | re-read sources and merge, record | plugin, desktop | a completion is counted once while its file grows |
| **Token sync** `lib/token-sync.ts` | one export file per machine | export, commit, merge | machines | a session of one's own is counted once and whole |
| **Budget alerts** `lib/budget-alerts.ts`, `gui/budget-evaluation.ts`, `gui/history-budget-runtime.ts` | a file of rules behind a cache, a queue of evaluations | create, update, delete, evaluate | windows, fetches | what is published is about the saved rules, and certain where it says so |
| **Plugin configuration** `lib/config.ts` | none; reads up to twelve files | load | editors of the files | the last layer that says something counts; what fails closed never inherits |
| **Setup** `lib/init-installer.ts` | none; writes three files | plan, apply | editors of the files | settings the user had still take effect |
| **History helper** `gui/history-client.ts`, `gui/history-helper.ts` | queue of at most 16 requests, one child process | request, time out (10 s, kills the child), dispose | the desktop's main process, local estimates | a request is carried out at most once, in its turn, and a failure costs the next one nothing |
| **TUI** `tui.tsx`, `lib/tui-runtime.ts` | a resource per session, and one for home, with its load, timers and views | reload, mount, switch, unmount | session events, views | a panel at rest is current; views of a session share one, as long as one of them lives |
| Formatting, renderer, dialogs, command line, announcements, preload and IPC types | none that outlives a call | sequential | | |

They interact so: a surface **collects** quota; each provider is asked through
the **provider cache**, under a digest made with the **identity key**; the
observation is captured in the **history database**, in whose transaction
**reset detection** compares it with its predecessor and inserts an event; the
**delivery** consumers of desktop and plugin claim such events from the same
database. The desktop's **refresh controller** drives the fetches there and the
**budget evaluations** after them, hooks and the **deferred refresh** drive them
in the plugin. The database is opened through the **migration**. **Reports** and
budgets charge messages with the prices of the **snapshot** and the user's own.
All of them read their settings as the **configuration** layers them, and the
**setup** writes those.

What is hard about these parts: leases that run out while their holder is still
at work; requests that are carried out but not answered; observations that lag,
or are recorded late, twice or out of order; several processes between reading
and writing one thing; timers that meet the calls they would repeat; settings,
accounts and months that change during an await; crashes between a file and a
row; copies of a message that are no repeats, and repeats that are no copies;
files that are absent, damaged and whole, in every order of precedence.

## 2. Plan

In the order of importance; all are done.

| | Modules | Composes / implements | State |
|---|---|---|---|
| 1 | `ResetNotice`, `ResetDelivery` | the second implements the first (`Notice`, property `KeepsPromise`) | proved |
| 2 | `ResetDetection` | feeds what `ResetDelivery` calls `RecordReset` | proved |
| 3 | `QuotaService`, `ProviderCache`; `IdentityKey` | the second implements the first (`KeepsContract`): source of the observations of 2; the key its accounts are filed under | proved |
| 4 | `QuotaRefresh` | one caller of the cache, with the settings it calls it with | proved |
| 5 | `SchemaMigration` | opens the database of 1 and 2 | proved |
| 6 | `DeferredRefresh` | the other caller of the cache | proved |
| 7 | `ApiKeyStore` | pattern of the stores that are read, changed and written | proved |
| 8 | `AnthropicUsage`, `CopilotUsage`, `GoogleQuota`, `KeyedProviders` over `ProviderAnswers` | what runs behind a probe of `ProviderCache` | proved |
| 9 | `QuotaCollection` | what a surface makes of the results of 8 | proved |
| 10 | `UsageReport` over `PriceResolution`; `PricingSnapshot`; `TokenSync` | reports, and where their prices come from | checked; `PricingSnapshot` and `TokenSync` proved |
| 11 | `LocalEstimates`, `LocalCompletions` | quotas counted locally | proved; `LocalCompletions` checked |
| 12 | `BudgetAlerts` | evaluations after each fetch of 4 | proved |
| 13 | `Installer` over `Configuration` | setup, with loads that overlap it | proved |
| 14 | `HistoryService`, `HistoryClient` | the second implements the first (`ServesInTurn`), which the requests of 1 and 12 rely on: rejected, or carried out at most once | proved |
| 15 | `LiveRefresh` | the panels of the terminal, a surface that runs the collection of 9 again and again | proved |
| 16 | `Queries`, `Stores` | the components of 8, 9, 10 and 15, and those of 3, 7, 10, 11, 12, 13 and 14, part by part | proved |

Proved means the safety of the component; liveness is model-checked throughout
(section 6). Theorems still wanted: `CopiesCollapse` and `UsageIsWhole` of the reports, and
`EachCountedOnce` of local completions; each needs the walk or the merge it is about in a form
without recursion, as `QuotaCollection`, `ProviderAnswers` and `LocalEstimates` have theirs.

## 3. Modules and their correspondence to the code

Every module cites functions of the code in the comments of its actions. A step
is a transaction, or what runs between two awaits. Operators named
`<Definition>_<Something>` under a comment "Mutant:" are what the definition after them
would be if the code had a plausible bug; no specification uses them.

### Processes and shared state

**`ResetNotice`** has, for each event, the state its user sees and the attempts
that were begun, appeared or reported failure. An attempt needs a reason:
detection, a reported failure, or the user's request.

**`ResetDelivery`** has the rows of `reset_events` (`events`) and
`reset_delivery_consumers` (`adverts`) with times relative to the clock, desktop
launches and plugin captures with their program counters. `ClaimDesktop` and
`ClaimPlugin` are `claimResetEvents`, with the expiry of leases in the same
transaction; `SettleResetEvent`, `AdvertiseResetDesktop` and
`RetryUncertainReset` are the functions of that name. A tick of
`ResetNotificationRuntime` is `BeginTick`, `Advertise`, a claim,
`DeliverShown` / `DeliverFailed` / `DeliverUncertain`, `SettleDesktop`,
`Withdraw`; a plugin capture claims, shows and settles. Any request to the helper
may be carried out or not and be answered or not (`RequestFails`). Processes stop
anywhere, relaunch and reload their settings. Lease tokens are numbered per
event, which is how history variables know the attempts apart.

**`ResetDetection`** has the provider (`Tick`: periods end, what remains jumps,
answers lag), the observations that were made (`Fetch` is `observe()`), and the
transaction of `captureSnapshot` (`Record`). A process may record an
observation at any time, again, or never: that stands for slow processes, for
the cache handing one observation to many, and for captures that fail.
`Confirmed` is `detectQuotaReset`, `Previous` the query for its baseline,
`FirstFree` the loop that finds a free `captured_at`, `CurrentQuota` is
`getCurrentQuota`. The checks of documents and identities that only compare
columns of one window are left to the choice of one window.

**`QuotaService`** is what callers of the cache may rely on: a store of observations per
account that may forget any of them, and learns one only from a call that fetches for
that account. A call is bound once, to the account configured then or to none, and
answered once: by its own observation if it keeps apart, otherwise by one that is stored
of its account and, for a fetch, has not expired.
**`ProviderCache`** follows a call of `fetchQuotaProviderResult` or
`readCachedProviderResult` from await to await: the account it freezes, memory,
the request in flight it joins, the file, its own probe. `Overwritten` stands for
processes that write the same file. Which credential is configured changes at any time
(`SwitchAccount`).

**`IdentityKey`** has the key file and its permissions, the directory, and for each
process the steps of `createOrReadIdentityKey`: read, create a temporary file,
write, close, link, and read what won. Processes crash at any of them, and any may be
refused (`Refused`): a file of another owner, a mode that cannot be changed, a link that fails.

**`QuotaRefresh`** has the fields of `QuotaRefreshController`, fetches in two
slots (room for one too many), and the settings in the file, in the process and
in each fetch. A turn of the event loop is one step.

**`SchemaMigration`** follows `migrateSchema`: read the version, copy the
database, take the exclusive lock, read again, upgrade or lose the attempt.
Writers hold the lock, earlier packages upgrade to their own version, and a
process may die anywhere.

**`DeferredRefresh`** follows the hooks and `showQuotaToast` of one session, the
record they consume, reconcile or clear, its timeout, and the configuration load
they join. The number of timeouts in the event loop is counted, so that a leaked
one is seen. What may happen around them is a variable that keeps its initial value,
`environment`: which hooks are called, how loads and fetches may end, and whether a
toast may be shown for longer than the shortest delay. Its two promises hold in different
environments, so each says which (`Gentle`, and `ConsumedByOne` where every load ends).

**`ApiKeyStore`** has the file and the memory of the store as sets of entries under
keys, keys being passphrases with salts; the calls of `gui/ipc/apikeys.ts` read and
write it in separate steps, which overlap as nothing queues them, and relaunches and
locks come between. A write that fails may leave no file (`lib/atomic-json.ts:46`
removes before it renames again). Two history variables say what the promises depend on:
`mixed`, the calls that have met another one, and `orderly`, which ends when a creation
or a change of the passphrase meets another call, when a wrong passphrase is tried that
nothing tells, or when the file is lost.

**`LocalEstimates`** has the two journals that are read, pruned, appended to and
replaced without a lock, under a clock that may be set back. A list of times is a function
from the recordings it has to their age in the list (how many were appended after them):
that is the list, and what is cut off its front are those with `Cap` younger ones (`Last`).

**`PricingSnapshot`** has the two files of a refresh, the list upstream with its etag,
and the processes that ask for it conditionally, load it and select from it. The two
conditions of a request (`If-None-Match`, `If-Modified-Since`) are one: they come from
one answer. The history variable `undisturbed` ends when two refreshes overlap or the
snapshot file is lost, which the fallback of `lib/atomic-json.ts:46` may do too.

**`BudgetAlerts`** has the rules behind a cached store object that edits change
in place (objects are numbered, for two edits may hold one), the queue
of evaluations, and the evaluation of a rule against usage of which parts have
no price or no known source. `Verdict` over `Possible` is the reference: what the
rule would say for each way in which the unknown could turn out.

**`HistoryService`** is a service with one queue: requests are settled in the order in which
they were made, and carried out at most once: in its turn and before the answer if it is
answered, perhaps and then possibly late if it failed, never if it was refused.
**`HistoryClient`** has the queue of requests, the child with what is on its way to it
and back, and what the children did to the database. A child that was killed goes
on until the signal reaches it, so that two may be at work at once: a request that
timed out may be carried out beside the next one. `inbox` and `answers` are the IPC channel.

**`Configuration`** has the files of all roots and a load that reads them one after the
other while they are edited: `Candidates` numbers the files as
`buildConfigLayerCandidates` orders them, a global root that is the workspace being
passed over (`Repeated`); `Applied` is `applyValidatedQuotaToastPatch`,
`PatchedSettings` and `PatchValue` what `extractValidatedQuotaToastPatch` makes of a
section. What fails closed is any setting in `Disabled`, `resetNotifications` in the
run, where `quotaProjection` is another of the kind. The issues of custom definitions,
which are of another file, are left out. **`Installer`** EXTENDS it with the plan of the
guided setup and its writes; a group of sub-settings is one value there,
`showSessionTokens` is one more setting that is only added, and no section is something
else than an object.

### Answers and reports

**`AnthropicUsage`** follows calls of one process: the probe of the CLI, the keychain
and the file a token is found in, the request that calls with the same token share, and
the cooldown after HTTP 429. **`CopilotUsage`** has the preparation of a query and the
query, with files and the month changing in between, and the billing documents it is
answered with. **`GoogleQuota`** has the three products that ask for several accounts at
once, their refresh tokens, and the token cache that is written without a lock; a write
of it that fails rejects a refresh of all accounts. What is written is what the map
holds when the write begins, the directory being there. **`KeyedProviders`** has the
search for a credential in environment, configuration and `auth.json` that happens anew
for each purpose (availability, cache entry, request); **`ProviderAnswers`** is pure:
one operator per provider, from an answer to its rows and errors. Rows and errors are
sets there: in which order a provider's rows are shown is layout.

**`QuotaCollection`** is one `collectQuotaRenderData` with the toast's decision after
it: which providers are chosen, detected, asked and shown in both styles.

**`LiveRefresh`** has the resources of `tui.tsx`, for sessions and for home, with the
load under way and the one queued behind it, the timers of events and of the mount,
the interval, and views that share, switch and release them. What a load finds is a
number that each change increases; `wanted` and `heard` are history variables.

**`PriceResolution`** is pure: `resolvePricingKey` with everything it calls. Spelling is
a constant (which name another becomes). **`UsageReport`** has a report under way,
with its reads of a database, of transcripts and of the user's prices one by one,
while sessions are forked, messages are answered and prices set. `Tree`, `Deduplicated`
and `Aggregate` are checked against definitions of what they should compute
(`Descends`, `CopiesCollapse`, `TablesAgree`).

**`LocalCompletions`** has `syncLocalQuotaEstimate`: the sources read before a
transaction, in which events and their aliases are entered.
**`TokenSync`** has exports, a repository between machines, and a merge that reads
file by file.

### Composition and MC modules

**`Queries`** and **`Stores`** have the components that share nothing but files they
only read, one instance each: the queries of `AnthropicUsage`, `CopilotUsage`,
`GoogleQuota`, `KeyedProviders`, `QuotaCollection`, `TokenSync` and `LiveRefresh` in the
one; `IdentityKey`, `ApiKeyStore`, `LocalEstimates`, `PricingSnapshot`, `HistoryClient`,
`BudgetAlerts` and `Installer` in the other. The initial state chooses a part, whose
instance then runs while the variables of the others keep the value `Off`. The parts
share no variable, so the states of a run are the sum, not the product, of theirs, and a
property is about its part. The assumptions about constants are here, where TLC
evaluates them.

Six `MC` modules belong to one component each and only declare model values,
permutations for symmetry and functions that a configuration cannot write;
`MCDeferredRefresh` gives two environments. **`MCReports`** extends `Queries`, and
**`MCStores`** extends `Stores`, with the constants of the instances, the first also with the
parts about which nothing is proved: `UsageReport` and `LocalCompletions`.

## 4. Runs

| Run | Properties | Instance | Why it is enough |
|---|---|---|---|
| `ResetDelivery_delivery` | `NoUnaskedDuplicate`, `LapsedLeaseIsFinal`, `FailedDesktopYields` | 1 event, 1 desktop, 1 plugin capture, 2 claims, 1 retry, desktop reconfigured | two claims make a contested, a lapsed and a retried lease; more of any is for the proof |
| `ResetDelivery_contest` | `KeepsPromise`, `DesktopFirst` | 2 events of one window, a desktop that has precedence, 1 plugin capture, 2 claims of each event, no retries | each claim takes one event, the oldest (both callers pass `maxClaims: 1`), so that while one is claimed, shown or settled by either consumer the other is pending, claimed by the other one, or done |
| `ResetDelivery_denial` | `NoAttemptAfterDenial` (violated) | 1 event, 3 claims | finding 1 |
| `ResetDetection_journal` | `EventsAreReal`, `AnnouncedOnce`, `NewestIsShown` | 1 account and the unknown one, 3 observations, 5 ticks, periods of 2 | baseline, announcement and a later or late observation; two boundaries; ages up to and over each limit |
| `QuotaRefresh_schedule` | `Scheduled`, `ManualIsFresh`, `CurrentIsLatest`, `CatchesUp` | 2 settings, 1 reload call, intervals of each kind (off, nonsense, too small, too large) | failures saturate at 6, where the backoff does |
| `QuotaRefresh_settings` | `ObservationMatchesSettings` (violated) | same | finding 2 |
| `SchemaMigration_race` | `UpgradesAreBackedUp`, `UpgradedOnce`, `OpeningEnds` | 2 openers, any initial version, writers, earlier packages | five lost attempts need five upgrades by others, which earlier packages provide |
| `ProviderCache_sharing` | `Coalesced`, `KeepsContract`, `CallsReturn` | 2 calls of 3 kinds, 2 accounts, files overwritten, TTL 1 | a joiner and the joined, before and after a switch, before and after expiry |
| `DeferredRefresh_retries` | `Kept`, `RetriesEnd`, `ConsumedByOne` | 2 retries in two environments: 2 hooks, loads may fail, nothing throws, prompt toasts; 3 hooks, fetches throw, slow toasts, readable configuration | each promise in the weakest environment in which it holds |
| `ApiKeyStore_mistyped` | `Acknowledged` (violated) | 1 call at a time, 2 providers, 2 passphrases | finding 3 |
| `Reports_answers` | see below | nine parts | see below |
| `Stores_files` | see below | seven parts | see below |

Parts of `Reports_answers`:

| Part | Properties | Instance | Shows |
|---|---|---|---|
| `anthropic` | `LeavesEndpointAlone`, `OwnAccount` | 2 calls, 2 tokens, backoff 1 to 3, `Retry-After` 0 or 2 | the endpoint is not asked during a cooldown or twice at once for a token; the answer is of the token the call found |
| `copilot` | `CopilotAsForetold`, `AvailableIsAnswered` | 8 pairs of configuration files, 5 login files, 2 months, pages of budgets | a query goes where its preparation said although files change; each ends in a row or an error |
| `google` | `OwnAccount`, `AvailableIsAnswered` | 10 installations, 2 accounts at a time, one run | tokens of two accounts are never mixed up, damaged files do not hide whole ones silently |
| `keyed` | `OwnAccount`, `AvailableIsAnswered` | 15 providers, 10 computers, 2 edits | the request is made with the credential of its cache entry; whoever is available answers |
| `collection` | `CollectionAccounts` | 3 providers, 5 results and a rejection, all modes | no named provider vanishes, both styles agree, only what may pass is retried |
| `usage` | `CopiesCollapse`, `UsageIsWhole` | 3 sessions, 4 messages, 1 transcript, 2 edits, a window open at either end | forks count once and repeats each time; all tables have one total; trees have all descendants |
| `count` | `EachCountedOnce` | 2 sessions, 3 items, 1 fault, rolling and daily window | a completion that moves between sources, is rewritten or re-read counts once |
| `sync` | `OwnCountedOnce` | 2 machines, 1 session, 2 edits, 2 copies | one's own sessions are counted once and whole while files lag; of the sessions of others nothing is said (section 5) |
| `live` | `PanelRestsCurrent` | 2 views, 2 sessions and home, 1 change, 1 timer of each kind, 2 resources in a row | a reload that meets a load is queued and not lost, an overtaken answer is not shown for good; the last view disposes, and the next starts anew |

Parts of `Stores_files`:

| Part | Properties | Instance | Shows |
|---|---|---|---|
| `identity` | `OneKey`, `WorkEnds` | 2 processes, 2 keys, 2 reads, 2 faults | nobody uses another key than the published one; whoever needs one gets it, unless something fails or is damaged; all get an answer |
| `apikeys` | `Acknowledged` | 2 calls at once, of every kind, 2 providers, 2 passphrases, 2 salts | what a call acknowledged that met no other is in the file, whatever other calls overlap, and memory is the file |
| `estimates` | `SerialIsExact` | 3 recordings, 2 days, journals of 2 entries | recordings one after the other leave exact shares; overlapping ones never count too much |
| `pricing` | `StampIsTrue` | 1 process, 2 lists, 1 fault, either file may vanish | no prices are older than their stamp |
| `budgets` | `BudgetsAreTrue`, `WorkEnds` | 2 editors, 1 rule, 2 edits, 1 fetch, 1 fault | when all is quiet, what is published is about the saved rules; certain verdicts are; every edit ends |
| `setup` | `LoadIsExpected`, `SetupKeepsSettings` | a global root and a workspace that is a global root too, 1 edit, 2 answers | a load gives what the layers say; the setup keeps what was in force, and planned again has nothing to write |
| `helper` | `Acknowledged`, `ServesInTurn`, `WorkEnds` | 3 requests, 2 of them pending, every child may end or hang at any step | a request is carried out at most once, answers keep the order, refusals have no effect, a failure costs nothing later; the children together are the one queue of `HistoryService`; all ends |

Bounds are the constants named `Max...` and `Horizon`, `Reconfigured`, `Retry`;
`SchemaMigration` and `QuotaRefresh` are finite by themselves. Times are scaled: what
matters is their order (freshness 15 min > advertisement 45 s > lease 30 s; 5 min < 24 h
< 30 days), not their size. In `ResetDelivery_contest` lease and advertisement have the
same length, which only makes them run out together as well. Symmetry is not used in
runs with liveness properties. `CHECK_DEADLOCK FALSE` is given where the system really
ends: all openers done, all calls returned, the clock, edits or observations used up,
the application disposed. `Promised` in `MCStores` bounds three parts: the run takes no
step after which nothing is promised (the end of `orderly` and of `undisturbed`), calls
on the API keys overlap only before the last salt is drawn, and usage that is budgeted
changes only while there is one edit. `PricingSnapshot` has one process in the run, for
room; with two and the selection `"auto"` alone TLC finds no error in 640,000 states,
and the theorem is for any number. `LocalCompletions` has one process: what two helpers
share is the journal, which each of them reads in its transaction.

Fairness. Each liveness property is checked under weak fairness of what the code
bounds: timers fire, awaited files and requests end (each provider request and
each request to the helper has a timeout), a statement returns at the latest when its busy
timeout is over, a toast call returns, the clock runs. No user, host or provider
event is ever fair.

* `FailedDesktopYields`: ticks of a live desktop (interval of 20 s), the clock.
* `CatchesUp` (`ManualIsAnswered` and `MismatchIsTransient`): timers, fetches, reloads.
* `OpeningEnds`, `CallsReturn`: the steps of each process or call.
* `RetriesEnd` (`PendingIsRetried` and `DisabledQuiets`): loads, calls and timers.
* `WorkEnds`: of a process that needs the key, its steps while it is at work (starting,
  ending, refusals and faults are not fair); the evaluation under way, and the reads and
  writes of each edit; of the helper only that what waits gets its turn (a promise
  chain), that timers fire, and that a killed child ends. Whether a child ever answers
  is left open.

## 5. Findings

1. `ResetDelivery_denial`. `gui/reset-notification-runtime.ts:76`: "Do not
   repeatedly attempt a denied/unsupported channel." The flag that prevents it is set
   after the settle request has resolved; when that is rejected (timeout, crash
   or busy database), the denied channel is attempted again on the next tick.
2. `QuotaRefresh_settings`. `gui/quota-refresh-controller.ts:143`: "Explicit
   settings changes invalidate retained observations from old settings." A fetch
   in flight is not invalidated; it settles afterwards and installs entries of the old
   settings as current. `CatchesUp` shows that this ends.
3. `ApiKeyStore_mistyped`. `lib/apikey-store.ts:228`: "Store a verification
   token so we can detect wrong passphrases even when no user keys have been
   added yet." Changing the passphrase writes a store without that token: with
   no keys in it, any passphrase opens it, and a key saved then is lost to the
   right one.

Known limits, found while modelling; the properties are stated so as to allow
exactly these, or the instances leave them out.

Notices and refreshes:
* a provider that goes on answering for the old period after its end, and does
  not date its answers, makes that answer the baseline, and this reset is never
  announced (`lib/quota-reset-transition.ts:85`): `FirstSight` is about answers that do not lag;
* of observations of one millisecond any may be the baseline (`ORDER BY
  observed_at` has no second key, `dashboard/reset-events.ts:47`): with four
  observations two announcements may share a period, and `AnnouncedOnce` allows exactly that;
* two reloads of settings that overlap may end with the older ones
  (`gui/main.ts:172`), and every update of the GUI configuration restarts the
  refresh timer (`gui/main.ts:421`);
* a retry timer that fires while its toast is still shown is swallowed
  (`slow` in the environment: `Kept` is not about it); with a configuration that cannot
  be read, two calls may retry at once (`"failed"` among the loads: `OneConsumer`); an
  exception in a retry started by a timer reaches nobody (`plugin.ts:366`);
* two processes may write a cache file out of order (`lib/quota-state.ts:311`);
* where reloads of a panel come faster than its loads end, each load is overtaken and
  the panel shows nothing new until they pause (`tui.tsx:106`): `PanelRestsCurrent` is
  about panels at rest.

Stores:
* of two saves of API keys at once one may be lost, or be in the file and not in memory:
  the providers of both are in `doubt` until their next call; a creation or a change of
  the passphrase that meets another call may leave a file with entries under two keys,
  and a lock amid a change a store that can neither be used nor unlocked: `orderly` ends
  there; a save that fails has changed the memory before (`lib/apikey-store.ts:420`), as
  it has in the stores of budget rules and user prices;
* overlapping records of local estimates lose counts, overlapping updates of the
  desktop's configuration lose one; overlapping edits of budget rules around a
  forced reload lose rules;
* removing the identity key file would give accounts new identities;
* two processes that refresh the prices at once may leave the snapshot of the one beside
  the newer etag of the other, and an answer of 304 then stamps the older prices as
  fresh; after the snapshot file is lost and the state file is not, an answer of 304
  stamps the bundled prices as fresh: `undisturbed` ends with both;
* a load that overlaps the appearance of the plugin's own file may find no
  settings of that root; the setup overwrites what is edited between its plan and
  its writes, and seeds from one of OpenCode's two files, so that
  what `opencode.json` alone sets is hidden by the plugin's new file when there is an
  `opencode.jsonc` as well: `SetupKeepsSettings` says nothing of it.

Answers and reports:
* grouped entries of Z.ai, Zhipu and OpenAI show a row of 0 % when no window is known;
  percentages of OpenCode Go and MiniMax may be negative, OpenRouter's are not clamped;
  an incomplete pair of OpenCode Go variables is passed over; a MiniMax answer without
  entries shows nothing; a custom provider's definition is resolved again when it is
  selected;
* with an explicit list of providers, a transient failure is not retried when
  another of them is unavailable;
* a user's price for a model that is ambiguous or has a familiar name is never
  looked up (README.md:368, `lib/quota-stats.ts:421`); fields it leaves unset do not
  fall back to the snapshot's in reports (README.md:373, `lib/quota-stats.ts:490`);
  the plugin process never loads overrides;
* copies are told by time and usage only; priced messages without a provider
  are not taken as unattributed by budgets;
* token sync counts a session with both of two other machines that exported it, for it is
  looked up in the local index only, contrary to what `lib/token-sync.ts:148` says
  (`OwnCountedOnce` is about one's own sessions); it gives all its
  tokens to the model of its first message, and two machines of one host name hide
  each other (`lib/token-sync.ts:191`);
* `LocalCompletions` assumes that no two sessions complete in the same
  millisecond, and rows are read after the transaction that entered the events.

## 6. Proofs

TLAPS checks the following for all values of the constants that the named `ASSUME`s of
the modules admit. They say no more than that markers are no data (`None` is no account,
call, token, key or setting; a writer is no opener; hooks are no retries), that periods,
leases and lifetimes are positive, that every event has a window and every answer a
root, and what the code's own tables have: the backoff reaches its longest pause by
doubling (`AnthropicAssumption`), there are delays of events and finitely many views
(`LiveAssumption`), the list of providers and the style do not fail closed
(`SettingsAssumption`), a journal keeps times for as long as any window is and as many
as any limit is (`JournalAssumption`), a file of Google accounts that can be read is
there (`GoogleAssumption`), the rows of a result are of known windows
(`CollectionAssumption`), and providers have the identifiers, gates and windows of their
own definitions (`KeyedAssumption`). TLC evaluates all of them on every run of the
module.

One group of theorems needs more than that and names it as a hypothesis, which the run's
instance satisfies: `LoadedAsExpected`, `SettingsKept` and their invariant
`SettingsSafe` assume `Markers`, that the marks of files that are absent, damaged or
without a section are no functions, as model values are not; TLC cannot evaluate it, so
it is no `ASSUME`. Where the code keeps a promise only until something happens, no
hypothesis excludes it: the behaviours have all of it, and the property is about the
states before, by a history variable that says whether it has happened (`undisturbed`,
`orderly`, `mixed` and `doubt`).

### Processes and shared state

**`ResetDeliveryProofs`**: `TypeOK`, `NoUnaskedDuplicate`, `DeliveredWasSeen`,
`LapsedLeaseIsFinal`, `DeliveredIsFinal`, `DesktopFirst`, and the refinement
`KeepsPromise`. None is inductive. The invariant counts tokens: while an event is not up
for claiming, its latest token is the only one that may still settle it and was not
released, so that claims = detection + retries + releases. Each process holds at
most one token, the latest or one whose lease was lost. For `DesktopFirst`, a desktop that
is about to claim has advertised just the windows it will claim (`Announced`).

**`ResetDetectionProofs`**: `EventsAreReal`, `AnnouncedOnce`, `FirstSight`, `NewestIsShown`.
The invariant orders observations: of two of one account, the one made later carries
an answer that is no older, and answers see periods in order (`Ordered`); each
event has two recorded observations as evidence (`Evidence`). A new event has the
latest recorded observation as its baseline, which is not older than the evidence
of any event there is; hence it announces a later period. For `NewestIsShown`, snapshots
have distinct keys and are exactly copies of what was recorded (`SnapshotIInv`), since
the key that `FirstFree` finds is free.

**`QuotaRefreshProofs`**: `TypeOK`, `SingleFlight` and `Rearmed` (together `Scheduled`),
`ManualIsFresh`, `CurrentIsLatest`. Added: a query is queued only behind a fetch
in flight, and whoever is past reading the settings holds some.

**`SchemaMigrationProofs`**: `UpgradesAreBackedUp`, `UpgradedOnce`,
`ExhaustedMeansCurrent` (five attempts suffice, `dashboard/db-migrate.ts:58`),
`LosersCleanUp` (a process that ends regularly without upgrading leaves
no directory). Added: versions only grow, so that a process that lost *n*
attempts has seen *n* versions go by, and a snapshot lies between the version
that was read and the one under the lock.

**`ProviderCacheProofs`**: the refinement `KeepsContract` (`ContractKept`: each step of
the calls, of the files and of the switches of account is one of `QuotaService`, or a
stutter), and, of the cache itself, `RightAccount`, `Coalesced`, `FreshAnswers` and
`BypassIsApart` (an explicit refresh is answered by its own request, and nobody else
is). The run checks the refinement, which says what the first and the third do. Added:
what is cached under an account was made with it and says so, a request is published
exactly while its call is at work, and who joined one waits for a call that is at work.

**`DeferredRefreshProofs`**: `OneTimer`, `InFlightIsReal`, `Kept` and `ConsumedByOne`, in
every environment; the last two say themselves in which environments they promise
something. Added: a call that holds the record has marked it in flight, and there is
a record only once the configuration was read (`Single`).

### Queries

**`QueryProofs`** has one inductive invariant, `QueriesIInv`, with a conjunct for each part.

* `OwnAccount`: what is shown was asked with a credential of the account it is filed
  under. *Anthropic*: a token has at most one request, whose call is at work, and who
  joined it waits for that call (`OneRequest`). *Google*: each copy of the token cache,
  on disk, in memory or on its way to the file, holds under a refresh token only access
  tokens made of it (`HonestCopies`), so that a query holds tokens of its own account or
  the one the account came with (`OwnTokensOnly`), whoever writes the file in whatever
  order. *Keyed*: a credential is what the search for the cache entry found, and a
  request is made with just that.
* `AvailableIsAnswered`. *Keyed*: no reading of an answer is silent, provider by
  provider (`ReadingSays`, `PagesSay`; MiniMax is the exception its code names), and the
  searches for a credential agree while nothing is edited. *Copilot* (`RequestIInv`): a
  query ends with a row or an error for each shape of plan and of the billing documents.
  *Google* (`GoogleAsks`): an installation that says it is present has accounts to ask
  for, or a file that is reported.
* `CollectionAccounts`: a provider the user names has a row or an error in both styles,
  filtered, not detected, rejected or not configured; both styles have the same
  providers and errors; a toast is retried only for what may pass. The row of the single
  window has the least that is left of any: there is such a row because a set of
  integers with a lower bound has a least one (`LeastExists`).
* `LeavesEndpointAlone`: the pause of the endpoint is never longer than that of the
  code's cooldown, but for a 429 that the code has not yet taken note of, whose
  request is still in its place (`Noted`, `OneRequest`).
* `CopilotAsForetold`: a plan is complete once it is prepared and kept until its query ends.
* `OwnCountedOnce`: as long as nothing is edited meanwhile, the sums a merge starts from
  are those of its machine, and nothing it has counted of other machines' files is its
  own (`OwnAlone`).
* `PanelRestsCurrent`: a resource with nothing under way has seen its last request;
  one that lags has a load, a queued load or a timer (`Held`). Views and resources
  count each other: a resource in the registry has the views that show it (`Counted`).

### Stores

**`StoreProofs`** has an invariant for each part of `Stores`; `PartSteps` says that a step is
one of the part that runs.

* *Identity* (`OneKey`, `PublishedWhole`: the file holds the published key unless something
  else damaged it). What is about to be written or linked is a whole key (`WholeLinks`).
* *Pricing* (`StampIsTrue`, for any number of processes). While `undisturbed`, one
  process at most is between its request and the last of its writes (`OneRefreshes`),
  and an etag stands for prices at least as new in the snapshot file, wherever it is
  held (the state file, a request under way, a write to come), and prices about to be
  written are not older than those of any etag that is stored.
* *Helper* (half of `Acknowledged`). A child has one request, which no other child was sent
  (`OneEach`); requests are sent in their order (`InTurn`); what was
  carried out was sent, and before one that is resolved none still waits (`Settled`). With
  it, every step of the client, its children and their messages is one of `HistoryService`,
  or a stutter (`PromiseOfHelper`): it is the first pending request that is settled.
* *Local estimates* (`SerialIsExact`). What a file says was recorded by recordings that
  are done, of its day (`OnRecord`); so nothing adds to what was used, whatever overlaps
  or fails. As long as recordings come one after the other, the file has every recording
  that is done, or has dropped it as too old, or has as many later ones as it can hold
  (`HoldsLatest`, `Accounted`). Cutting off the front keeps that (`LastKeepsLatest`, by
  the least recording that would be lost), and with as many later ones as any limit
  allows nothing remains, whatever was dropped (`NothingRemains`).
* *API keys* (the other half, for any number of overlapping calls). While `orderly`, the
  whole file is under the key of the passphrase chosen last (`FileIsWhole`); memory is
  the file but for the providers of calls (`MemoryIsCurrent`), a copy that a call
  carries is, but for those providers, what is in the file, or the call is `mixed`
  (`CallsAreSound`), and what was acknowledged is held (`SavedIsHeld`).
* *Budgets* (`BudgetsAreTrue`). The evaluation at work is that of the head of the queue
  (`HeadIsServed`); unless an edit waits behind it, what it has read is the file
  (`ReadIsCurrent`), and what is published was made of one reading of rules
  and one answer of usage (`PublishedIsFile`, `ResultsAreRules`).
* *Setup* (`LoadIsExpected`, `SetupKeepsSettings`, under `Markers`). What a load has
  gathered so far is what the files before it say (`LoadInv`); files are such as there
  may be (`Proper`); the root that is set up is as the plan found it, or as its first,
  second or third write leaves it (`SetupAt`). Each write either leaves a section alone
  or gives it the values it had or the answers, and a section with all answers is left
  alone (`Decided`).

### Only model-checked

* All liveness: `FailedDesktopYields`, `CatchesUp`, `OpeningEnds`, `CallsReturn`,
  `RetriesEnd`, `WorkEnds`. Temporal proofs under fairness and `ENABLED` are outside the
  prover's reach.
* `CopiesCollapse`, `UsageIsWhole`, `EachCountedOnce`: what they say depends on what a
  recursive walk of a tree and folds over sequences return. The provers have no
  induction over data; a statement about numbers can be proved by its least
  counterexample (`LeastExists`, `LastKeepsLatest`), but folds and RECURSIVE operators
  cannot be expanded. The latter are in `UsageReport` alone, which no module with a
  theorem reaches.
* Type invariants are stated by theorems only (the inductive invariants include them):
  in a run, a value of a wrong type breaks the comparison, `CASE` or `EXCEPT` that reads
  it.

## 7. Not modelled

* Formatting, the renderer, dialogs, the command line's arguments and the
  announcements: no state that outlives a call. What is shown, as opposed to how, is
  in `QuotaCollection`, `ProviderAnswers` and `UsageReport`.
* Of `tui.tsx`, the dialogs of its commands (a slow command replaces whatever dialog is
  open when it ends), the switch that folds the sidebar, and the export that follows
  each load of home (two of them may overlap).
* Which binary the helper runs with, and its environment; `HistoryClient` is not composed with
  `ResetDelivery` and `BudgetAlerts`, which have the client as its callers see it.
* Of the providers: Cursor, custom HTTP definitions, the accounting adapters, and
  how the CLI of Claude is spawned.
* The history queries of the dashboard (`getHistory`, `getDailyCosts`); windows, menus, tray.
* `LIMIT 100` and the cap of 64 windows in `claimResetEvents`; wall clocks that
  are set back while resets are detected; captures without an observation
  (packages before observations) or without a percentage to show (`accountingOnly`);
  the limits of 100 000 messages and 200 000 events in local counts.
* The layout of backup directories, DDL statements and SQLite itself: a transaction is
  atomic, an exclusive lock excludes, `VACUUM INTO` copies one version.
* Cryptography: a wrong key does not decrypt. `rename` is atomic; its fallback
  (`lib/atomic-json.ts:46`) is a write that fails and leaves no file, in `ApiKeyStore`,
  `PricingSnapshot` and `LocalEstimates`.
