--------------------------------- MODULE Stores ---------------------------------
(***************************************************************************)
(* What is kept in files, by processes and calls that overlap: the key     *)
(* that tells accounts apart, the store of API keys, the journals of what  *)
(* is counted locally, the snapshot of prices, the budget rules with their *)
(* evaluations, the helper that has the database open, and the settings    *)
(* with the setup that writes them.                                        *)
(* The parts share nothing, so an instance chooses one of them and lets it *)
(* run: the others have no state then.                                     *)
(***************************************************************************)
EXTENDS IdentityKey, Sequences

CONSTANTS
  Parts, Off,
  Provider, ApiValue, Pass, Caller, Ops, MaxSalts,
  PricingProcess, Bundled, Empty, Nothing, Selections, Losable, MaxAge, MinInterval,
  MaxClock, MaxVersion, MaxPricingFaults,
  Recording, RollingWindow, Longest, Cap, Day, DayLimit, MaxNow, MaxEstimateFaults, NoFile,
  MaxRequests, Limit,
  Editor, RuleId, RuleSetting, UsageWindow, BudgetProvider, BudgetModel, BudgetUsage,
  MaxRuleEdits, MaxFetches, MaxChanges, MaxBudgetFaults, Broken, NoObject, NoUsage,
  Globals, Workspace, Settings, Defaults, Disabled, Sections, Answers, InitialFiles, MaxFileEdits,
  NoSection, NotObject, AutoProviders, Nobody, NoPlan

\* None is neither a request nor what is kept of one.
ASSUME ClientAssumption == None \notin Nat \cup [of : Nat, on : Nat] \cup [of : Nat, ok : BOOLEAN]

VARIABLES
  part,
  storeFile, derived, keys, salt, salts, call, right, saved, doubt, mixed, orderly,
  estimateNow, estimateFaults, journal, estimatePc, recordedAt, estimateLoaded, exact,
  clock, version, since, snapshot, state, pricingFaults, prices, checked, selection, flight, undisturbed,
  asked, outcome, pending, running, current, helperDisposed, child, carried,
  ruleEdits, fetches, changes, budgetFaults, rules, objects, cached, edit, queue, eval, usage, verdicts, disposed,
  configs, fileEdits, loadSteady, candidate, configReading, acc, settings, choice, setupStage, plan, before

A == INSTANCE ApiKeyStore WITH Value <- ApiValue, file <- storeFile

\* None is nothing that the store of API keys keeps.
ASSUME StoreAssumption ==
  /\ MaxSalts \in Nat \ {0}
  /\ None \notin ApiValue \cup Provider \cup Pass \cup A!PassKey \cup A!Entry \cup A!Store \cup A!Contents(ApiValue)

L == INSTANCE LocalEstimates WITH
  Window <- RollingWindow, MaxFaults <- MaxEstimateFaults,
  now <- estimateNow, faults <- estimateFaults, pc <- estimatePc, at <- recordedAt, loaded <- estimateLoaded

\* The journals keep times for as long as any window is, and as many as any limit is.
ASSUME JournalAssumption ==
  /\ IsFiniteSet(Recording)
  /\ Longest \in Nat /\ Cap \in Nat \ {0} /\ Day \in Nat \ {0} /\ DayLimit \in Nat /\ MaxNow \in Nat
  /\ \A w \in DOMAIN RollingWindow : RollingWindow[w].length \in 0..Longest /\ RollingWindow[w].limit \in 0..Cap
  /\ NoFile \notin L!Journal

P == INSTANCE PricingSnapshot WITH
  Process <- PricingProcess, MaxFaults <- MaxPricingFaults, faults <- pricingFaults, loaded <- prices

\* What is missing or empty is no snapshot; the package has one, or is without data.
ASSUME PricesAssumption == {Nothing, Empty} \cap P!Snapshots = {} /\ Bundled \in P!Snapshots \cup {Empty}

H == INSTANCE HistoryClient WITH disposed <- helperDisposed

\* What the helper promises; where it is not the part that runs, nothing is asked of it.
V == INSTANCE HistoryService WITH
  asked <- IF part = "helper" THEN asked ELSE 0, outcome <- IF part = "helper" THEN outcome ELSE <<>>,
  closed <- part = "helper" /\ helperDisposed, log <- IF part = "helper" THEN carried ELSE <<>>

B == INSTANCE BudgetAlerts WITH
  Setting <- RuleSetting, Window <- UsageWindow, Provider <- BudgetProvider, Model <- BudgetModel,
  Usage <- BudgetUsage, MaxEdits <- MaxRuleEdits, MaxFaults <- MaxBudgetFaults,
  edits <- ruleEdits, faults <- budgetFaults, file <- rules, published <- verdicts

S == INSTANCE Installer WITH Auto <- AutoProviders,
  MaxEdits <- MaxFileEdits, files <- configs, edits <- fileEdits, steady <- loadSteady, at <- candidate,
  reading <- configReading, loaded <- settings, stage <- setupStage

\* What fails closed is neither the list of providers nor the style, which have rules
\* of their own.
ASSUME SettingsAssumption ==
  /\ Len(Globals) \in Nat /\ Nobody \notin {S!Candidates[n] : n \in DOMAIN S!Candidates}
  /\ {"enabledProviders", "formatStyle"} \cap DOMAIN Disabled = {}

\* There is a file, or none, of each kind in each root; the plugin's own is a section.
ASSUME FilesAssumption ==
  /\ NoSection \notin Sections
  /\ \A a \in Answers : a.root \in S!Roots
  /\ \A f \in InitialFiles : S!Proper(f)

storeVars == <<storeFile, derived, keys, salt, salts, call, right, saved, doubt, mixed, orderly>>
estimateVars == <<estimateNow, estimateFaults, journal, estimatePc, recordedAt, estimateLoaded, exact>>
pricingVars == <<clock, version, since, snapshot, state, pricingFaults, prices, checked, selection, flight,
                 undisturbed>>
clientVars == <<asked, outcome, pending, running, current, helperDisposed, child, carried>>
budgetVars == <<ruleEdits, fetches, changes, budgetFaults, rules, objects, cached, edit, queue, eval, usage,
                verdicts, disposed>>
setupVars == <<configs, fileEdits, loadSteady, candidate, configReading, acc, settings, choice, setupStage,
               plan, before>>
storesVars == <<part, identityVars, storeVars, estimateVars, pricingVars, clientVars, budgetVars, setupVars>>

StoreOff ==
  /\ storeFile = Off /\ derived = Off /\ keys = Off /\ salt = Off /\ salts = Off
  /\ call = Off /\ right = Off /\ saved = Off /\ doubt = Off
  /\ mixed = Off /\ orderly = Off
EstimateOff ==
  /\ estimateNow = Off /\ estimateFaults = Off /\ journal = Off /\ estimatePc = Off
  /\ recordedAt = Off /\ estimateLoaded = Off /\ exact = Off
PricingOff ==
  /\ clock = Off /\ version = Off /\ since = Off /\ snapshot = Off /\ state = Off
  /\ pricingFaults = Off /\ prices = Off /\ checked = Off /\ selection = Off /\ flight = Off
  /\ undisturbed = Off
HelperOff ==
  /\ asked = Off /\ outcome = Off /\ pending = Off /\ running = Off /\ current = Off
  /\ helperDisposed = Off /\ child = Off /\ carried = Off
BudgetOff ==
  /\ ruleEdits = Off /\ fetches = Off /\ changes = Off /\ budgetFaults = Off /\ rules = Off
  /\ objects = Off /\ cached = Off /\ edit = Off /\ queue = Off /\ eval = Off /\ usage = Off
  /\ verdicts = Off /\ disposed = Off
SetupOff ==
  /\ configs = Off /\ fileEdits = Off /\ loadSteady = Off /\ candidate = Off /\ configReading = Off /\ acc = Off
  /\ settings = Off /\ choice = Off /\ setupStage = Off /\ plan = Off /\ before = Off

StoresInit ==
  /\ part \in Parts
  /\ IdentityInit /\ (part # "identity" => protected)
  /\ IF part = "apikeys" THEN A!Init ELSE StoreOff
  /\ IF part = "estimates" THEN L!EstimateInit ELSE EstimateOff
  /\ IF part = "pricing" THEN P!PricingInit ELSE PricingOff
  /\ IF part = "helper" THEN H!ClientInit ELSE HelperOff
  /\ IF part = "budgets" THEN B!BudgetInit ELSE BudgetOff
  /\ IF part = "setup" THEN S!InstallerInit ELSE SetupOff

Identity ==
  /\ part = "identity" /\ IdentityNext
  /\ UNCHANGED <<part, storeVars, estimateVars, pricingVars, clientVars, budgetVars, setupVars>>
ApiKeys ==
  /\ part = "apikeys" /\ A!Next
  /\ UNCHANGED <<part, identityVars, estimateVars, pricingVars, clientVars, budgetVars, setupVars>>
Estimates ==
  /\ part = "estimates" /\ L!EstimateNext
  /\ UNCHANGED <<part, identityVars, storeVars, pricingVars, clientVars, budgetVars, setupVars>>
Pricing ==
  /\ part = "pricing" /\ P!PricingNext
  /\ UNCHANGED <<part, identityVars, storeVars, estimateVars, clientVars, budgetVars, setupVars>>
Helper ==
  /\ part = "helper" /\ H!ClientNext
  /\ UNCHANGED <<part, identityVars, storeVars, estimateVars, pricingVars, budgetVars, setupVars>>
Budgets ==
  /\ part = "budgets" /\ B!BudgetNext
  /\ UNCHANGED <<part, identityVars, storeVars, estimateVars, pricingVars, clientVars, setupVars>>
Setup ==
  /\ part = "setup" /\ S!InstallerNext
  /\ UNCHANGED <<part, identityVars, storeVars, estimateVars, pricingVars, clientVars, budgetVars>>

StoresNext == Identity \/ ApiKeys \/ Estimates \/ Pricing \/ Helper \/ Budgets \/ Setup
StoresSpec == StoresInit /\ [][StoresNext]_storesVars

------------------------------------------------------------------------------
(* Properties of the parts.  OneKey is IdentityKey's.                       *)

\* What was saved or deleted, and acknowledged, is in the file of API keys under the
\* passphrase chosen last, and what the unlocked store shows is in its file, whatever
\* the store is locked amid of: but for the providers whose calls met another call, and
\* until a creation or a change of passphrase meets one, a wrong passphrase is tried
\* that nothing tells, or the file is lost.  What the helper answered was done in its
\* turn, once, and what the client refused was not; and a failure costs the next request
\* neither its place nor its helper.
Acknowledged ==
  /\ part = "apikeys" /\ orderly => A!Acknowledged /\ A!MemoryIsFile
  /\ part = "helper" => H!CarriedOnce /\ H!Recovers

\* The desktop sees of its helper a service with one queue, whatever children it takes
\* (HistoryHelperClient): every step is one that HistoryService allows, or a stutter.
ServesInTurn == V!Spec

\* Recordings one after the other leave the share that remains of each window exact;
\* whatever else happens, what is shown as used was.
SerialIsExact == part = "estimates" => L!SerialIsExact /\ L!NeverOvercounts

\* Prices that are stamped with a time are no older than the list of that time, until
\* two refreshes overlap or the file is lost.
StampIsTrue == part = "pricing" => P!StampIsTrue

\* What is published of budgets, once all is quiet, is about the rules in the file;
\* and an alert is certain only where nothing unknown could change it.
BudgetsAreTrue == part = "budgets" => B!PublishedIsCurrent /\ B!VerdictIsCertain

\* A load gives each setting the value that the files say, by their priority.
LoadIsExpected == part = "setup" => S!LoadIsExpected

\* The settings the user had take effect after every write of the setup, and a setup
\* that is done has nothing to write when it is planned again.
SetupKeepsSettings == part = "setup" => S!SetupKeepsSettings /\ S!SetupSettles

==============================================================================
