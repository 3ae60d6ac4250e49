-------------------------------- MODULE Queries --------------------------------
(***************************************************************************)
(* The queries behind what is shown of quota: Anthropic's usage endpoint,  *)
(* Copilot, the products of Google, the providers with a key, the merge of *)
(* the tokens of several machines, what a collection makes of the results  *)
(* of the providers, and the panels of the terminal.  The parts share      *)
(* nothing but files they only read, so an instance chooses one of them    *)
(* and lets it run: the others have no state then.                         *)
(***************************************************************************)
EXTENDS Integers, Sequences, FiniteSets

CONSTANTS
  Parts, Off, None,
  Call, Token, BackoffBase, CooldownMax, RetryAfter, Document, MacOS,
  Secret, Enterprise, PatFiles, AuthFiles, UsageReports, BudgetPages, Snapshots, MaxPages, Months,
  Setup, Unloaded, Torn, Concurrency, Skew, Lives, GoogleAnswers, MaxClock, MaxRuns,
  Provider, World, NoAnswer, KeyedAnswers, MaxBudgets, KeyedEdits,
  Machine, SyncSession, Damaged, MaxTokens, SyncEdits, MaxCopies,
  View, Session, Home, EventDelays, MountDelays, MaxChanges, MaxResources,
  Ids, Keeps, Special, Setting, Selection, Window, Result, Rejected, NoSelection, AutoDetected

\* The backoff reaches the longest pause, which it does by doubling.
ASSUME AnthropicAssumption ==
  /\ None \notin Call \cup Token
  /\ BackoffBase \in Nat /\ CooldownMax \in Nat /\ RetryAfter \subseteq Nat
  /\ \E n \in 0..CooldownMax : BackoffBase * 2^n >= CooldownMax

\* A file of accounts that can be read is there.
ASSUME GoogleAssumption ==
  /\ Skew \in Nat
  /\ \A s \in Setup : /\ s.product \in {"antigravity", "gemini", "agy"}
                      /\ s.product = "antigravity" => \A i \in DOMAIN s.files : s.files[i].ok => s.files[i].exists

\* EVENT_REFRESH_DELAYS_MS has delays.
ASSUME LiveAssumption ==
  /\ None \notin Int \cup [current : BOOLEAN, found : Int \cup {None}]
  /\ EventDelays \in Nat \ {0} /\ MountDelays \in Nat /\ IsFiniteSet(View)

\* A row of a result is of one of the windows.
Row == [window : Window, left : {n \in Int : n >= -1000}]
ASSUME CollectionAssumption == \A r \in Result : r.entries \in Seq(Row) /\ r.accounting \in Seq(Row)

VARIABLES
  part,
  cooldown, inFlight, step, anthropicToken, anthropicAsked, anthropicResult, limit,
  patFiles, authFile, month, copilotStage, plan, sent, pages, copilotResult,
  setup, job, clock, runs, mem, disk, writing, pc, token, got, googleResult,
  provider, world, edits, steady, keyedStage, purpose, credential, asked, keyedResult,
  db, syncEdits, checkouts, repo, mergeStage, ownSums, index, todo, counted, mergeSteady,
  data, resource, registry, shown,
  setting, selection, stage, availability, results, answer

A == INSTANCE AnthropicUsage WITH
  token <- anthropicToken, asked <- anthropicAsked, result <- anthropicResult

C == INSTANCE CopilotUsage WITH stage <- copilotStage, budgets <- pages, result <- copilotResult

G == INSTANCE GoogleQuota WITH Answers <- GoogleAnswers, result <- googleResult

K == INSTANCE KeyedProviders WITH
  Answers <- KeyedAnswers, MaxEdits <- KeyedEdits, stage <- keyedStage, result <- keyedResult

\* What Alibaba's requests are counted to is known; a selection of windows names some.
ASSUME KeyedAssumption ==
  /\ \A p \in Provider :
       /\ p.gate \in {"and", "entry", "or", "key"}
       /\ p.id \in {"nanogpt", "kilo", "kimi", "zai", "zhipu", "minimax", "openai", "synthetic", "ollama-cloud",
                   "deepseek", "chutes", "alibaba", "openrouter", "opencode-go"}
  /\ \A a \in KeyedAnswers["alibaba"] : a["fiveHour"] # K!Missing
  /\ KeyedAnswers["opencode-go"].selections \subseteq (SUBSET K!OpenCodeGoWindows) \ {{}}
  /\ \A p \in KeyedAnswers["opencode-go"].pages \ {NoAnswer} : DOMAIN p.ssr = K!OpenCodeGoWindows

T == INSTANCE TokenSync WITH
  Session <- SyncSession, MaxEdits <- SyncEdits, edits <- syncEdits, files <- checkouts,
  stage <- mergeStage, own <- ownSums, steady <- mergeSteady

V == INSTANCE LiveRefresh

Q == INSTANCE QuotaCollection WITH Auto <- AutoDetected

anthropicVars == <<cooldown, inFlight, step, anthropicToken, anthropicAsked, anthropicResult, limit>>
copilotVars == <<patFiles, authFile, month, copilotStage, plan, sent, pages, copilotResult>>
googleVars == <<setup, job, clock, runs, mem, disk, writing, pc, token, got, googleResult>>
keyedVars == <<provider, world, edits, steady, keyedStage, purpose, credential, asked, keyedResult>>
syncVars == <<db, syncEdits, checkouts, repo, mergeStage, ownSums, index, todo, counted, mergeSteady>>
liveVars == <<data, resource, registry, shown>>
collectionVars == <<setting, selection, stage, availability, results, answer>>
queriesVars == <<part, anthropicVars, copilotVars, googleVars, keyedVars, syncVars, liveVars, collectionVars>>

AnthropicOff ==
  /\ cooldown = Off /\ inFlight = Off /\ step = Off /\ anthropicToken = Off
  /\ anthropicAsked = Off /\ anthropicResult = Off /\ limit = Off
CopilotOff ==
  /\ patFiles = Off /\ authFile = Off /\ month = Off /\ copilotStage = Off
  /\ plan = Off /\ sent = Off /\ pages = Off /\ copilotResult = Off
GoogleOff ==
  /\ setup = Off /\ job = Off /\ clock = Off /\ runs = Off /\ mem = Off /\ disk = Off
  /\ writing = Off /\ pc = Off /\ token = Off /\ got = Off /\ googleResult = Off
KeyedOff ==
  /\ provider = Off /\ world = Off /\ edits = Off /\ steady = Off /\ keyedStage = Off
  /\ purpose = Off /\ credential = Off /\ asked = Off /\ keyedResult = Off
SyncOff ==
  /\ db = Off /\ syncEdits = Off /\ checkouts = Off /\ repo = Off /\ mergeStage = Off
  /\ ownSums = Off /\ index = Off /\ todo = Off /\ counted = Off /\ mergeSteady = Off
LiveOff == data = Off /\ resource = Off /\ registry = Off /\ shown = Off
CollectionOff ==
  /\ setting = Off /\ selection = Off /\ stage = Off
  /\ availability = Off /\ results = Off /\ answer = Off

QueriesInit ==
  /\ part \in Parts
  /\ IF part = "anthropic" THEN A!AnthropicInit ELSE AnthropicOff
  /\ IF part = "copilot" THEN C!CopilotInit ELSE CopilotOff
  /\ IF part = "google" THEN G!GoogleInit ELSE GoogleOff
  /\ IF part = "keyed" THEN K!KeyedInit ELSE KeyedOff
  /\ IF part = "sync" THEN T!SyncInit ELSE SyncOff
  /\ IF part = "live" THEN V!LiveInit ELSE LiveOff
  /\ IF part = "collection" THEN Q!CollectionInit ELSE CollectionOff

Anthropic ==
  /\ part = "anthropic" /\ A!AnthropicNext
  /\ UNCHANGED <<part, copilotVars, googleVars, keyedVars, syncVars, liveVars, collectionVars>>
Copilot ==
  /\ part = "copilot" /\ C!CopilotNext
  /\ UNCHANGED <<part, anthropicVars, googleVars, keyedVars, syncVars, liveVars, collectionVars>>
Google ==
  /\ part = "google" /\ G!GoogleNext
  /\ UNCHANGED <<part, anthropicVars, copilotVars, keyedVars, syncVars, liveVars, collectionVars>>
KeyedQuery ==
  /\ part = "keyed" /\ K!KeyedNext
  /\ UNCHANGED <<part, anthropicVars, copilotVars, googleVars, syncVars, liveVars, collectionVars>>
Syncing ==
  /\ part = "sync" /\ T!SyncNext
  /\ UNCHANGED <<part, anthropicVars, copilotVars, googleVars, keyedVars, liveVars, collectionVars>>
Live ==
  /\ part = "live" /\ V!LiveNext
  /\ UNCHANGED <<part, anthropicVars, copilotVars, googleVars, keyedVars, syncVars, collectionVars>>

Collection ==
  /\ part = "collection" /\ Q!CollectionNext
  /\ UNCHANGED <<part, anthropicVars, copilotVars, googleVars, keyedVars, syncVars, liveVars>>

QueriesNext == Anthropic \/ Copilot \/ Google \/ KeyedQuery \/ Syncing \/ Live \/ Collection
QueriesSpec == QueriesInit /\ [][QueriesNext]_queriesVars

------------------------------------------------------------------------------
(* Properties of the parts.                                                 *)

\* Whatever the calls do, the usage endpoint of Anthropic is not asked again for a
\* token while it wants to be left alone, nor for one that is being asked for.
AsksInTurn == part = "anthropic" => A!AsksInTurn
LeavesEndpointAlone == [][AsksInTurn]_anthropicVars

\* An answer is that of the account it was asked for: Anthropic's of the token the
\* call found, Google's of the refresh token in its row, a keyed provider's of the
\* credential its cache entry is kept under, whatever is edited, shared or written
\* over in between.
OwnAccount ==
  /\ part = "anthropic" => A!QuotaOfOwnToken
  /\ part = "google" => G!AccountsKeptApart
  /\ part = "keyed" => K!OwnCredential

\* A query of Copilot goes where /quota_status says it would, and each of its requests
\* with the credential, deployment, target and period that it was prepared with,
\* whatever changes before the request is made.
AsForetold == part = "copilot" => C!SentAsPlanned /\ C!Foretold
CopilotAsForetold == [][AsForetold]_copilotVars

\* A provider that says it is available is asked, and answers with a row or an
\* error: no damaged file, search order or reading of an answer is silent.
AvailableIsAnswered ==
  /\ part = "google" => G!AvailableIsAsked
  /\ part = "keyed" => K!AvailableIsAnswered
  /\ part = "copilot" => C!RequestIsAnswered

\* A merge of machines counts each session of its own machine once and with all its
\* tokens, whatever exports of it come back from the others.
OwnCountedOnce == part = "sync" => T!OwnCountedOnce

\* A panel that is at rest shows what there was when it was last told to reload, and
\* what it was told of by events; views of one session share one panel's resource.
PanelRestsCurrent == part = "live" => V!RestsCurrent /\ V!SharedByViews

\* A provider the user names is accounted for by a row or an error, however it fails;
\* both styles speak of the same providers, the single window of the fullest; and a
\* toast is retried for what may pass only.
CollectionAccounts ==
  part = "collection" => Q!NothingVanishes /\ Q!StylesAgree /\ Q!RetriesTheTransient

==============================================================================
