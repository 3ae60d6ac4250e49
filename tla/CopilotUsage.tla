----------------------------- MODULE CopilotUsage ------------------------------
(***************************************************************************)
(* copilot.ts and providers/copilot.ts: what GitHub Copilot was used for,  *)
(* from the billing reports when copilot-quota-token.json exists, from the *)
(* internal user endpoint with the OAuth token of OpenCode when it does    *)
(* not.  The cache first asks for the credential, deployment and target of *)
(* a query (prepareCopilotQuotaQuery), and has it made later; files and    *)
(* the month change in between.                                            *)
(*                                                                         *)
(* Texts are reduced to what the code tests: whether a field is missing,   *)
(* blank or valid.  Amounts are small integers, Missing when they are not  *)
(* finite numbers.                                                         *)
(***************************************************************************)
EXTENDS Integers, Sequences, FiniteSetsExt
LOCAL INSTANCE SequencesExt

CONSTANTS
  Secret,        \* tokens
  Enterprise,    \* valid hosts of enterpriseUrl
  None,          \* a field that is not given
  PatFiles,      \* contents of the candidate paths, a sequence of documents
  AuthFiles,     \* entries of auth.json in the order they are tried
  UsageReports,  \* sequences of billing items
  BudgetPages,   \* sequences of budgets
  Snapshots,     \* answers of the internal user endpoint
  MaxPages,      \* 100 in fetchApplicableBudget
  Months         \* bound of the calendar

VARIABLES
  patFiles, authFile, month,
  stage,         \* what the query awaits
  plan,          \* the credential, deployment and target it goes with
  sent,          \* the requests it made
  budgets,       \* pages of budgets read so far
  result

copilotVars == <<patFiles, authFile, month, stage, plan, sent, budgets, result>>

Missing == -1000
Absent == [document |-> "absent"]
Unreadable == [document |-> "unreadable"]

------------------------------------------------------------------------------
(* The billing configuration.                                              *)

\* validateEnterpriseHost
BadHost(url) == url \notin Enterprise \cup {None}

NoTarget == [scope |-> "none", name |-> None, organization |-> None, username |-> None, period |-> 0]

\* resolvePatBillingTarget: business is billed to an organization, enterprise to
\* either, everything else to its user; legacy billing to a user of Pro or Pro+.
BillingTarget(c, period) ==
  LET target(scope, name, organization) ==
        [scope |-> scope, name |-> name, organization |-> organization,
         username |-> c.username, period |-> period]
      personal == c.organization = None /\ c.enterprise = None
  IN  IF c.model = "legacy" /\ (c.tier \notin {"pro", "pro+"} \/ ~personal) THEN NoTarget
      ELSE IF c.tier = "business"
      THEN IF c.organization = None \/ c.enterprise # None THEN NoTarget
           ELSE target("organization", c.organization, None)
      ELSE IF c.tier = "enterprise"
      THEN IF c.enterprise # None THEN target("enterprise", c.enterprise, c.organization)
           ELSE IF c.organization # None THEN target("organization", c.organization, None)
           ELSE NoTarget
      ELSE IF personal THEN target("user", None, None) ELSE NoTarget

\* validatePatTargetCompatibility
Incompatible(target, kind) ==
  \/ target.scope = "user" /\ kind = "ghs"
  \/ target.scope = "enterprise" /\ kind \in {"github_pat", "ghu", "ghs"}

\* validateQuotaConfig: fields are validated in turn, then the target.
ValidConfig(c) ==
  /\ c.token \in Secret
  /\ c.tier \in {"free", "student", "pro", "pro+", "max", "business", "enterprise"}
  /\ c.model \in {"ai_credits", "legacy"}
  /\ ~BadHost(c.host)
  /\ "blank" \notin {c.username, c.organization, c.enterprise}
  /\ BillingTarget(c, 0) # NoTarget

\* readQuotaConfigWithMeta: the first candidate path that exists decides.
ReadPat(files) ==
  LET present == {i \in DOMAIN files : files[i] # Absent}
      first == files[Min(present)]
  IN  IF present = {} THEN Absent
      ELSE IF first # Unreadable /\ ValidConfig(first) THEN first ELSE Unreadable

\* selectCopilotAuth: the first entry of type oauth with a token of either kind.
SelectAuth(entries) ==
  LET usable == {i \in DOMAIN entries :
                   entries[i].oauth /\ (entries[i].access # None \/ entries[i].refresh)}
  IN  IF usable = {} THEN Absent ELSE entries[Min(usable)]

------------------------------------------------------------------------------
(* getCopilotQuotaAuthDiagnostics: what /quota_status says will be done.   *)

\* Mutant: without a billing configuration that can be read, OAuth is what is left.
Diagnostics_Fallback(pat, auth, period) ==
  LET valid == pat \notin {Absent, Unreadable}
      target == IF valid THEN BillingTarget(pat, period) ELSE NoTarget
      oauth == ~valid /\ auth # Absent /\ ~BadHost(auth.host)
  IN  [source |-> IF pat # Absent THEN "pat" ELSE IF auth # Absent THEN "oauth" ELSE "none",
       api |-> IF valid THEN (IF pat.model = "legacy" THEN "premium_request" ELSE "ai_credit")
               ELSE IF oauth THEN "internal" ELSE "none",
       host |-> IF valid THEN pat.host ELSE IF oauth THEN auth.host ELSE "none",
       scope |-> IF target # NoTarget THEN target.scope ELSE IF oauth THEN "user" ELSE "none",
       budget |-> valid /\ pat.model = "ai_credits" /\ target.scope \in {"organization", "enterprise"},
       likely |-> oauth \/ (valid /\ target # NoTarget /\ ~Incompatible(target, pat.kind))]

Diagnostics(pat, auth, period) ==
  LET valid == pat \notin {Absent, Unreadable}
      target == IF valid THEN BillingTarget(pat, period) ELSE NoTarget
      oauth == pat = Absent /\ auth # Absent /\ ~BadHost(auth.host)
  IN  [source |-> IF pat # Absent THEN "pat" ELSE IF auth # Absent THEN "oauth" ELSE "none",
       api |-> IF valid THEN (IF pat.model = "legacy" THEN "premium_request" ELSE "ai_credit")
               ELSE IF oauth THEN "internal" ELSE "none",
       host |-> IF valid THEN pat.host ELSE IF oauth THEN auth.host ELSE "none",
       scope |-> IF target # NoTarget THEN target.scope ELSE IF oauth THEN "user" ELSE "none",
       budget |-> valid /\ pat.model = "ai_credits" /\ target.scope \in {"organization", "enterprise"},
       likely |-> oauth \/ (valid /\ target # NoTarget /\ ~Incompatible(target, pat.kind))]

\* isAvailable of the provider: OpenCode lists it, or a query would work.
Available(listed, pat, auth, period) == listed \/ Diagnostics(pat, auth, period).likely

------------------------------------------------------------------------------
(* Reports.                                                                *)

\* parseAiCreditTotals rejects an item ...
RejectedItem(i) ==
  LET given == {q \in {i.gross, i.discount, i.net} : q # Missing}
      has(q) == q # Missing
  IN  \/ \E q \in given : q < 0
      \/ ~has(i.gross) /\ ~(has(i.discount) /\ has(i.net))
      \/ has(i.gross) /\ has(i.discount) /\ has(i.net) /\ i.gross # i.discount + i.net
      \/ has(i.gross) /\ has(i.discount) /\ i.discount > i.gross
      \/ has(i.gross) /\ has(i.net) /\ i.net > i.gross
      \/ has(i.amount) /\ i.amount < 0

\* ... or derives from two of its quantities the third.
Gross(i) == IF i.gross # Missing THEN i.gross ELSE i.discount + i.net
Included(i) ==
  IF i.discount # Missing THEN i.discount
  ELSE IF i.net # Missing THEN i.gross - i.net ELSE Missing
Billed(i) ==
  IF i.net # Missing THEN i.net
  ELSE IF i.discount # Missing THEN i.gross - i.discount ELSE Missing

\* A sum over amounts, Missing when one of them is.
Total(amounts) ==
  FoldSeq(LAMBDA a, sum : IF sum = Missing \/ a = Missing THEN Missing ELSE sum + a, 0, amounts)

NoTotals == [used |-> Missing, included |-> Missing, billed |-> Missing, amount |-> Missing]

\* NoTotals where the code throws.  Without items nothing was used, and there
\* is no amount either.
AiCreditTotals(items) ==
  LET credits == SelectSeq(items, LAMBDA i : i.sku = "ai credit")
      included == Total([n \in DOMAIN credits |-> Included(credits[n])])
      billed == Total([n \in DOMAIN credits |-> Billed(credits[n])])
      whole == included # Missing /\ billed # Missing
  IN  IF \/ credits = <<>> /\ items # <<>>
         \/ \E n \in DOMAIN credits : RejectedItem(credits[n])
      THEN NoTotals
      ELSE [used |-> Total([n \in DOMAIN credits |-> Gross(credits[n])]),
            included |-> IF whole THEN included ELSE Missing,
            billed |-> IF whole THEN billed ELSE Missing,
            amount |-> IF credits = <<>> THEN Missing ELSE Total([n \in DOMAIN credits |-> credits[n].amount])]

\* parseLegacyPremiumRequestUsage; a request counts gross, or else net.
LegacyUsage(items) ==
  LET requests == SelectSeq(items, LAMBDA i : i.sku = "premium request")
      count(i) == IF i.gross # Missing THEN Max({0, i.gross})
                  ELSE IF i.net # Missing THEN Max({0, i.net}) ELSE Missing
  IN  IF requests = <<>> /\ items # <<>> THEN Missing ELSE Total([n \in DOMAIN requests |-> count(requests[n])])

\* computePercentRemainingFromUsed
PercentRemaining(used, total) ==
  IF used < 0 \/ total <= 0 THEN Missing
  ELSE Max({0, Min({100, ((total - used) * 100) \div total})})

\* budgetMatchesTarget
BudgetMatches(b, target) ==
  LET managed == {"organization", "enterprise"}
  IN  IF target.username # None /\ b.scope = "user" THEN b.user \in {None, target.username}
      ELSE IF target.username # None /\ b.scope = "multi_user_customer" THEN target.scope \in managed
      ELSE IF target.scope = "organization" THEN b.scope = "organization"
      ELSE \/ target.username # None /\ b.scope = "multi_user_cost_center"
           \/ /\ target.organization # None /\ b.scope = "organization"
              /\ b.entity \in {None, target.organization}
           \/ b.scope = "enterprise" /\ target.scope = "enterprise"

Specificity == [user |-> 5, multi_user_cost_center |-> 4, multi_user_customer |-> 3,
                organization |-> 2, enterprise |-> 1]

NoBudget == [amount |-> Missing, percent |-> Missing]

\* The first of the most specific budgets that apply.
ApplicableBudget(list, target, spent) ==
  LET applies == {n \in DOMAIN list : list[n].aiCredits /\ BudgetMatches(list[n], target)
                                      /\ list[n].amount >= 0}
      most == Max({Specificity[list[n].scope] : n \in applies})
      chosen == list[Min({n \in applies : Specificity[list[n].scope] = most})]
  IN  IF applies = {} THEN NoBudget
      ELSE [amount |-> chosen.amount,
            percent |-> IF spent = Missing THEN Missing ELSE PercentRemaining(spent, chosen.amount)]

------------------------------------------------------------------------------
(* Results.                                                                *)

NoResult == [mode |-> "none", used |-> Missing, total |-> Missing, percent |-> Missing,
             unlimited |-> FALSE, credits |-> NoTotals, budget |-> NoBudget, warned |-> FALSE]
ErrorResult == [NoResult EXCEPT !.mode = "error"]
PlanResult == [NoResult EXCEPT !.mode = "user_plan"]
Quota(used, total, percent) ==
  [NoResult EXCEPT !.mode = "user_quota", !.used = used, !.total = total, !.percent = percent]
Unlimited(r) == [r EXCEPT !.unlimited = TRUE]

\* toLegacyResult
LegacyResult(items, tier) ==
  LET used == LegacyUsage(items)
      total == IF tier = "pro" THEN 300 ELSE 1500
  IN  IF used = Missing THEN ErrorResult ELSE Quota(used, total, PercentRemaining(used, total))

\* toAiCreditResult, its budget apart.
AiCreditResult(credits, scope) ==
  IF credits = NoTotals THEN ErrorResult
  ELSE [NoResult EXCEPT !.mode = IF scope = "user" THEN "user_quota" ELSE "managed_usage",
                        !.used = credits.used, !.credits = credits]

\* parseLegacyCopilotInternal: what an older endpoint says under many names.
LegacyInternal(s) ==
  LET total == IF s.entitlement = Missing /\ s.used # Missing /\ s.remaining # Missing
               THEN s.used + s.remaining ELSE s.entitlement
      used == IF s.used = Missing /\ total # Missing /\ s.remaining # Missing
              THEN Max({0, total - s.remaining}) ELSE s.used
      explicit == IF s.percent = Missing THEN Missing ELSE Min({100, s.percent})
  IN  IF s.unlimited
      THEN Unlimited(Quota(Max({0, used}), IF total > 0 THEN total ELSE Missing,
                           IF explicit = Missing THEN 100 ELSE explicit))
      ELSE IF total <= 0 \/ used < 0 THEN ErrorResult
      ELSE Quota(used, total, IF explicit # Missing THEN explicit
                              ELSE IF used = 0 THEN 100
                              ELSE Min({100, ((total - used) * 100) \div total}))

\* parseCopilotInternalUser: tokenBased is whether, and what, the answer says
\* of token_based_billing.
InternalUser(s) ==
  LET reported == s.percent \in 0..100
      tokens == s.tokenBased = "yes"
      nothing == s.entitlement = 0 /\ s.remaining = 0 /\ (~reported \/ s.percent = 0)
  IN  IF s.tokenBased = "unsaid" THEN LegacyInternal(s)
      ELSE IF tokens /\ (~s.given \/ (~s.unlimited /\ nothing)) THEN PlanResult
      ELSE IF s.unlimited THEN Unlimited(Quota(0, Missing, Missing))
      ELSE IF s.entitlement > 0 /\ s.remaining >= 0 /\ s.remaining <= s.entitlement
      THEN Quota(s.entitlement - s.remaining, s.entitlement,
                 IF reported THEN s.percent
                 ELSE IF s.percent = Missing THEN (s.remaining * 100) \div s.entitlement ELSE Missing)
      ELSE IF tokens /\ s.entitlement > 0 /\ s.remaining < 0 /\ s.remaining # Missing /\ reported
      THEN Quota(IF s.credits >= 0 THEN s.credits ELSE s.entitlement - s.remaining,
                 s.entitlement, s.percent)
      ELSE IF tokens THEN PlanResult ELSE ErrorResult

\* mapCopilotResult: the kinds of the rows, and whether an error is shown.
Rows(r) ==
  LET first == IF r.mode = "user_quota" /\ ~r.unlimited /\ r.total > 0 /\ r.percent # Missing
               THEN "percent" ELSE "value"
      budget == IF r.budget = NoBudget THEN <<>>
                ELSE IF r.budget.percent # Missing /\ r.budget.amount > 0 THEN <<"percent">>
                ELSE <<"value">>
  IN  IF r.mode \in {"none", "error"} THEN <<>> ELSE <<first>> \o budget
ShowsError(r) == r.mode = "error" \/ r.warned

------------------------------------------------------------------------------
(* A query.                                                                *)

NoPlan == [by |-> "none", token |-> None, host |-> None, model |-> None, tier |-> None, target |-> NoTarget]

PatPlan(pat, target) ==
  [by |-> "pat", token |-> pat.token, host |-> pat.host, model |-> pat.model, tier |-> pat.tier,
   target |-> target]
OAuthPlan(auth) ==
  [NoPlan EXCEPT !.by = "oauth", !.token = auth.access, !.host = auth.host]

\* Its plan when it is not frozen: the files and the month of that moment.
PatTarget(pat) == BillingTarget(pat, month)

CopilotInit ==
  /\ patFiles \in PatFiles /\ authFile \in AuthFiles /\ month = 1
  /\ stage = "idle" /\ plan = NoPlan /\ sent = {} /\ budgets = <<>>
  /\ result = NoResult

Edit ==
  /\ \/ patFiles' \in PatFiles /\ UNCHANGED <<authFile, month>>
     \/ authFile' \in AuthFiles /\ UNCHANGED <<patFiles, month>>
     \/ month < Months /\ month' = month + 1 /\ UNCHANGED <<patFiles, authFile>>
  /\ UNCHANGED <<stage, plan, sent, budgets, result>>

files == <<patFiles, authFile, month>>

Freeze(p) ==
  /\ plan' = p
  /\ stage' = IF p = NoPlan THEN "unscoped" ELSE "prepared"
  /\ UNCHANGED <<files, sent, budgets, result>>

\* prepareCopilotQuotaQuery, up to its await.
Prepare ==
  /\ stage = "idle"
  /\ LET pat == ReadPat(patFiles)
     IN  IF pat = Absent
         THEN stage' = "preparing" /\ UNCHANGED <<files, plan, sent, budgets, result>>
         ELSE IF pat = Unreadable \/ Incompatible(PatTarget(pat), pat.kind) THEN Freeze(NoPlan)
         ELSE Freeze(PatPlan(pat, PatTarget(pat)))

PrepareOAuth ==
  /\ stage = "preparing"
  /\ LET auth == SelectAuth(authFile)
     IN  Freeze(IF auth = Absent \/ auth.access = None \/ BadHost(auth.host)
                THEN NoPlan ELSE OAuthPlan(auth))

\* A request goes out with a plan and is awaited in the stage of its kind.
Request(p, kind) ==
  /\ sent' = sent \cup {[kind |-> kind, token |-> p.token, host |-> p.host, target |-> p.target]}
  /\ stage' = kind

\* queryCopilotQuotaWithAuth, up to its first request.
Launch(p) ==
  Request(p, IF p.by = "oauth" THEN "internal"
             ELSE IF p.target.scope = "user" /\ p.target.username = None THEN "username" ELSE "usage")

Done(r) == stage' = "done" /\ result' = r

\* Mutant: the target is resolved again for the query.
FetchPrepared_Resolved ==
  /\ stage = "prepared"
  /\ LET p == IF plan.by = "pat" THEN [plan EXCEPT !.target.period = month] ELSE plan
     IN  Launch(p)
  /\ UNCHANGED <<files, plan, budgets, result>>

\* The query of the scope.
FetchPrepared ==
  /\ stage = "prepared"
  /\ Launch(plan)
  /\ UNCHANGED <<files, plan, budgets, result>>

\* Without a scope the provider reads the files itself.
FetchUnscoped ==
  /\ stage = "unscoped"
  /\ LET pat == ReadPat(patFiles)
     IN  IF pat = Absent
         THEN stage' = "reading" /\ UNCHANGED <<plan, sent, result>>
         ELSE IF pat = Unreadable \/ Incompatible(PatTarget(pat), pat.kind)
         THEN Done(ErrorResult) /\ UNCHANGED <<plan, sent>>
         ELSE /\ plan' = PatPlan(pat, PatTarget(pat))
              /\ Launch(plan')
              /\ UNCHANGED result
  /\ UNCHANGED <<files, budgets>>

FetchUnscopedOAuth ==
  /\ stage = "reading"
  /\ LET auth == SelectAuth(authFile)
     IN  IF auth = Absent THEN Done(NoResult) /\ UNCHANGED <<plan, sent>>
         ELSE IF auth.access = None \/ BadHost(auth.host)
         THEN Done(ErrorResult) /\ UNCHANGED <<plan, sent>>
         ELSE /\ plan' = OAuthPlan(auth)
              /\ Launch(plan')
              /\ UNCHANGED result
  /\ UNCHANGED <<files, budgets>>

\* A request fails: no answer, an error status, or no JSON.  Of budgets that
\* is a warning next to the usage, of all else the result.
RequestFails ==
  /\ stage \in {"username", "usage", "budgets", "internal"}
  /\ Done(IF stage = "budgets" THEN [result EXCEPT !.warned = TRUE] ELSE ErrorResult)
  /\ UNCHANGED <<files, plan, sent, budgets>>

\* resolveGitHubUsername: the login that the token belongs to.
Username ==
  /\ stage = "username"
  /\ plan' = [plan EXCEPT !.target.username = plan.token]
  /\ Request(plan', "usage")
  /\ UNCHANGED <<files, budgets, result>>

Usage ==
  /\ stage = "usage"
  /\ \E items \in UsageReports :
       LET r == IF plan.model = "legacy" THEN LegacyResult(items, plan.tier)
                ELSE AiCreditResult(AiCreditTotals(items), plan.target.scope)
       IN  IF r.mode = "error" \/ plan.target.scope = "user" THEN Done(r) /\ UNCHANGED sent
           ELSE Request(plan, "budgets") /\ result' = r
  /\ UNCHANGED <<files, plan, budgets>>

\* fetchApplicableBudget, page by page.
Budgets ==
  /\ stage = "budgets"
  /\ \E page \in BudgetPages, more \in BOOLEAN :
       LET read == Append(budgets, page)
           budget == ApplicableBudget(FlattenSeq(read), plan.target, result.credits.amount)
       IN  /\ budgets' = read
           /\ IF ~more THEN Done([result EXCEPT !.budget = budget])
              ELSE IF Len(read) = MaxPages THEN Done([result EXCEPT !.warned = TRUE])
              ELSE UNCHANGED <<stage, result>>
  /\ UNCHANGED <<files, plan, sent>>

Internal ==
  /\ stage = "internal"
  /\ \E s \in Snapshots : Done(InternalUser(s))
  /\ UNCHANGED <<files, plan, sent, budgets>>

CopilotNext ==
  \/ Edit
  \/ Prepare \/ PrepareOAuth
  \/ FetchPrepared \/ FetchUnscoped \/ FetchUnscopedOAuth
  \/ RequestFails \/ Username \/ Usage \/ Budgets \/ Internal

CopilotSpec == CopilotInit /\ [][CopilotNext]_copilotVars

------------------------------------------------------------------------------
(* Properties.                                                             *)

\* Once a query has a plan, whatever happens to the files and the month, each
\* of its requests goes out with that credential, to that deployment and for
\* that target and period: its result is cached under them ("Freeze credential,
\* deployment, target and UTC billing period together", copilot.ts:1376).
SentAsPlanned ==
  \A r \in sent' \ sent :
    LET p == IF plan = NoPlan THEN plan' ELSE plan
    IN  /\ r.token = p.token /\ r.host = p.host
        /\ \/ r.target = p.target
           \/ r.target = [p.target EXCEPT !.username = p.token] /\ p.target.username = None

\* A query that decides how to go on goes where /quota_status says.
GoesAsForetold ==
  LET auth == SelectAuth(authFile)
      pat == IF stage \in {"preparing", "reading"} THEN Absent ELSE ReadPat(patFiles)
      d == Diagnostics(pat, auth, month)
      oauth == d.api = "internal"
  IN  IF Available(FALSE, pat, auth, month) /\ (oauth => auth.access # None)
      THEN /\ plan' # NoPlan /\ plan'.host = d.host
           /\ plan'.by = (IF oauth THEN "oauth" ELSE "pat")
           /\ oauth \/ plan'.target.scope = d.scope
      ELSE plan' = NoPlan

Decides ==
  /\ stage \in {"idle", "preparing", "unscoped", "reading"}
  /\ stage' \notin {stage, "preparing", "reading"}

\* What /quota_status says of the files, with the configuration as the query
\* read it, is what the query does: it goes to that API and deployment, for that
\* scope, or makes no request where access is said to be unlikely or the OAuth
\* entry has a refresh token only (getCopilotQuotaAuthDiagnostics decides on
\* its own, apart from prepareCopilotQuotaQuery and queryCopilotQuotaWithAuth).
Foretold == Decides => GoesAsForetold

\* A query that made a request shows a row or an error for it.
RequestIsAnswered == stage = "done" /\ sent # {} => Rows(result) # <<>> \/ ShowsError(result)

=============================================================================
