------------------------------ MODULE MCReports ------------------------------
(***************************************************************************)
(* What is shown of quota and usage: the queries of the providers, the     *)
(* completions that are counted locally where there is nothing to query,   *)
(* what a collection makes of their results, the usage report, the merge   *)
(* of the tokens of several machines, and the panels of the terminal.  The *)
(* parts share nothing but files they only read, so an instance chooses    *)
(* one of them and lets it run: the others have no state then.             *)
(***************************************************************************)
EXTENDS Queries, Sequences, TLC

CONSTANTS
  Failed,
  c1, c2, t1, t2, v1, v2, s1, s2

VARIABLES
  now, usageEdits, faults, sessions, messages, transcripts, userFile, own, report,
  countNow, countFaults, issued, countMessages, lines, events, aliases, sync, known

------------------------------------------------------------------------------
(* Anthropic: two calls and two accounts, which differ by name only.        *)

Alike ==
  Permutations({c1, c2}) \cup Permutations({t1, t2}) \cup Permutations({v1, v2}) \cup Permutations({s1, s2})

AnthropicDocument == {<<>>, <<[five |-> -1000, seven |-> 5], [five |-> 130, seven |-> 20]>>}

------------------------------------------------------------------------------
(* Copilot: every tier, billing configurations of both models, one that is  *)
(* incompatible with its token, and one that cannot be read.                *)

Billing(secret, kind, tier, model, user, organization, enterprise, host) ==
  [document |-> "config", token |-> secret, kind |-> kind, tier |-> tier, model |-> model,
   username |-> user, organization |-> organization, enterprise |-> enterprise, host |-> host]
NoFile == [document |-> "absent"]
BadFile == [document |-> "unreadable"]
Personal == Billing("s1", "ghp", "pro", "ai_credits", None, None, None, None)
Legacy == Billing("s1", "ghu", "pro+", "legacy", "ada", None, None, None)
Business == Billing("s2", "ghs", "business", "ai_credits", "ada", "org", None, "host")
Managed == Billing("s2", "ghp", "enterprise", "ai_credits", None, "org", "ent", "host")
FineGrained == Billing("s2", "github_pat", "enterprise", "ai_credits", None, None, "ent", "host")
Mismatched == Billing("s1", "ghp", "pro", "ai_credits", None, "org", None, None)

Login(oauth, access, refresh, host) ==
  [oauth |-> oauth, access |-> access, refresh |-> refresh, host |-> host]
Item(sku, gross, discount, net, amount) ==
  [sku |-> sku, gross |-> gross, discount |-> discount, net |-> net, amount |-> amount]
Budget(scope, user, entity, amount) ==
  [aiCredits |-> TRUE, scope |-> scope, user |-> user, entity |-> entity, amount |-> amount]
Snap(tokenBased, given, unlimited, entitlement, remaining, percent, credits, used) ==
  [tokenBased |-> tokenBased, given |-> given, unlimited |-> unlimited, entitlement |-> entitlement,
   remaining |-> remaining, percent |-> percent, credits |-> credits, used |-> used]
X == -1000

CopilotPatFiles == {<<NoFile, NoFile>>, <<NoFile, Personal>>, <<Legacy, Personal>>, <<Business, NoFile>>,
  <<Managed, NoFile>>, <<FineGrained, Personal>>, <<Mismatched, Personal>>, <<BadFile, Business>>}
CopilotAuthFiles == {<<>>, <<Login(FALSE, "s1", FALSE, None), Login(TRUE, "s2", TRUE, "host")>>,
  <<Login(TRUE, None, TRUE, None)>>, <<Login(TRUE, "s1", FALSE, "bad")>>, <<Login(TRUE, "s1", FALSE, None)>>}
CopilotReports == {<<>>, <<Item("other", 1, 0, 1, 1)>>,
  <<Item("ai credit", 3, 1, X, 2), Item("ai credit", X, 1, 1, 1), Item("premium request", 2, X, 1, X)>>,
  <<Item("ai credit", 3, X, 2, X), Item("ai credit", 2, X, X, 1)>>, <<Item("ai credit", 1, 2, X, 1)>>}
CopilotBudgets == {<<>>, <<Budget("enterprise", None, None, 10), Budget("organization", None, "org", 4)>>,
  <<Budget("user", "ada", None, 2), Budget("multi_user_customer", None, None, 0)>>}
CopilotSnapshots == {Snap("yes", FALSE, FALSE, X, X, X, X, X), Snap("yes", TRUE, FALSE, 10, -2, 0, 12, X),
  Snap("no", TRUE, FALSE, 10, 4, X, X, X), Snap("no", TRUE, FALSE, 0, 0, 0, X, X),
  Snap("unsaid", TRUE, FALSE, X, 3, X, X, 7), Snap("unsaid", TRUE, TRUE, X, X, -5, X, X),
  Snap("no", TRUE, TRUE, X, X, X, X, X)}

------------------------------------------------------------------------------
(* Google: damaged files before whole ones, accounts that differ in project *)
(* only, an access token that is not the account's, missing credentials.    *)

Account(refresh, project, email, access) ==
  [oauth |-> TRUE, refresh |-> refresh, project |-> project, email |-> email, access |-> access,
   limits |-> {}]
NoAccess == [of |-> None, until |-> X]
Limited(account) == [account EXCEPT !.limits = {[model |-> "family", at |-> 2]}]
TwoAccounts == <<Account("r1", "p", None, NoAccess), Account("r2", "p", None, NoAccess)>>
Listing(exists, ok, accounts) == [exists |-> exists, ok |-> ok, accounts |-> accounts]
Installed(product, files, entries, configured, candidates) ==
  [product |-> product, files |-> files, entries |-> entries, configured |-> configured,
   models |-> <<"m1", "m2">>, candidates |-> candidates]
Found == <<"absent", "credentials">>

GoogleSetup ==
  { Installed("antigravity", <<Listing(TRUE, FALSE, <<>>), Listing(TRUE, TRUE, TwoAccounts)>>, <<>>, None, Found),
    Installed("antigravity", <<Listing(TRUE, TRUE, <<Limited(Account("r1", None, "e", NoAccess)),
                                                     Limited(Account("r1", "p", "e", NoAccess))>>)>>, <<>>, None, Found),
    Installed("antigravity", <<Listing(TRUE, TRUE, <<Account(None, "p", "e", NoAccess)>>),
                               Listing(TRUE, TRUE, TwoAccounts)>>, <<>>, None, Found),
    Installed("antigravity", <<Listing(TRUE, FALSE, <<>>)>>, <<>>, None, Found),
    Installed("antigravity", <<Listing(TRUE, TRUE, TwoAccounts)>>, <<>>, None, <<"unreadable", "credentials">>),
    Installed("gemini", <<>>, <<Account("r1", None, None, [of |-> "own", until |-> 3]),
      [Account("r3", "p", "e", NoAccess) EXCEPT !.oauth = FALSE], Account("r1", "q", "x", NoAccess),
      Account("r2", "p", "e", NoAccess)>>, "q", Found),
    Installed("gemini", <<>>, <<Account("r1", None, "e", NoAccess)>>, None, Found),
    Installed("gemini", <<>>, TwoAccounts, None, <<"hidden", "absent">>),
    Installed("agy", <<>>, TwoAccounts, None, <<"unreadable", "credentials">>),
    Installed("agy", <<>>, TwoAccounts, None, Found) }
Bucket(model, words, left, unlimited) ==
  [model |-> model, words |-> words, left |-> left, unlimited |-> unlimited]

GoogleAnswer == {<<>>, <<Bucket("m1", {"gemini", "pro"}, 50, FALSE),
  Bucket("m2", {"gemini", "flash", "lite"}, 20, FALSE), Bucket("m3", {"claude"}, X, TRUE),
  Bucket("m1", {"gemini", "flash"}, 10, FALSE)>>}

------------------------------------------------------------------------------
(* Providers with a key: one of each kind and gate, wherever keys may be.   *)

Keyed(id, kind, gate, cached) ==
  [id |-> id, kind |-> kind, gate |-> gate, cached |-> cached, china |-> FALSE,
   env |-> <<"A", "B">>, allowed |-> {"A"}, keys |-> <<"one", "two">>, authKeys |-> <<"first", "second">>]
KeyedProvider ==
  { Keyed("kimi", "strict", "and", TRUE), Keyed("zai", "strict", "and", TRUE), Keyed("zhipu", "strict", "and", TRUE),
    Keyed("minimax", "strict", "and", TRUE), [Keyed("minimax", "strict", "and", TRUE) EXCEPT !.china = TRUE],
    Keyed("alibaba", "strict", "entry", FALSE), Keyed("nanogpt", "loose", "key", TRUE),
    Keyed("kilo", "loose", "key", TRUE), Keyed("openrouter", "loose", "key", TRUE),
    Keyed("synthetic", "loose", "or", TRUE), Keyed("chutes", "loose", "or", TRUE),
    Keyed("deepseek", "loose", "or", TRUE), Keyed("openai", "oauth", "or", TRUE),
    Keyed("opencode-go", "file", "key", TRUE), Keyed("ollama-cloud", "file", "key", TRUE) }

Env(a, b) == [A |-> a, B |-> b, C |-> None]
Text(key) == [var |-> None, text |-> key]
Var(name) == [var |-> name, text |-> None]
Entry(form, type, key, tier) == [form |-> form, type |-> type, key |-> key, tier |-> tier]
NoEntry == "none" :> Entry("null", "none", None, "none")
Pair(id, cookie) == [id |-> id, cookie |-> cookie]
OwnFile(form, entries) == [form |-> form, entries |-> entries]
Computer(env, configs, auth, ownEnv, ownFiles, listed) ==
  [env |-> env, configs |-> configs, auth |-> auth, own |-> [env |-> ownEnv, files |-> ownFiles], listed |-> listed]

KeyedWorld ==
  { Computer(Env(None, None), <<>>, NoEntry, <<>>, <<>>, "yes"),
    Computer(Env(None, "k1"), <<>>, NoEntry, <<Pair(TRUE, "k1"), Pair(FALSE, "k2"), Pair(TRUE, "k2")>>, <<>>, "yes"),
    Computer(Env(None, None), <<"other" :> Text("k1"), ("one" :> Var("B")) @@ ("two" :> Text("k2"))>>,
      "first" :> Entry("record", "api", "k1", "none"),
      <<Pair(TRUE, None)>>, <<OwnFile("missing", <<>>), OwnFile("record", <<Pair(TRUE, "k1")>>)>>, "yes"),
    Computer(Env("k1", None), <<"one" :> Var("A")>>, "first" :> Entry("record", "oauth", "k1", "none"),
      <<>>, <<OwnFile("invalid", <<>>)>>, "no"),
    Computer(Env(None, None), <<>>,
      ("first" :> Entry("record", "oauth", "k1", "none")) @@ ("second" :> Entry("record", "api", "k2", "none")),
      <<>>, <<OwnFile("record", <<Pair(TRUE, None)>>), OwnFile("record", <<Pair(TRUE, "k2")>>)>>, "yes"),
    Computer(Env(None, None), <<>>, "first" :> Entry("record", "oauth", "expired", "none"), <<>>, <<>>, "fails"),
    Computer(Env(None, None), <<>>, "second" :> Entry("record", "api", None, "none"), <<>>, <<>>, "yes"),
    Computer(Env(None, None), <<>>, NoEntry @@ ("second" :> Entry("record", "api", "k2", "none")), <<>>, <<>>, "yes"),
    Computer(Env(None, None), <<>>, "second" :> Entry("record", "api", "k1", "unsupported"), <<>>, <<>>, "yes"),
    Computer(Env(None, None), <<>>, "first" :> Entry("scalar", "none", None, "none"), <<>>, <<>>, "no") }

Nano(used, remaining, max, percent) ==
  [used |-> used, remaining |-> remaining, limit |-> max, percentUsed |-> percent]
Kimi(name, max, used, remaining) == [name |-> name, limit |-> max, used |-> used, remaining |-> remaining]
Zai(type, unit, percentage) == [type |-> type, unit |-> unit, percentage |-> percentage]
Mini(name, fiveHour, weekly) ==
  [name |-> name, fiveHour |-> [total |-> fiveHour[1], count |-> fiveHour[2]],
   weekly |-> [total |-> weekly[1], count |-> weekly[2]]]
OpenAi(windows, codeReview) == [windows |-> windows, codeReview |-> codeReview]
Used(kind, percent) == [kind |-> kind, used |-> percent]
Share(max, remaining, percent) == [limit |-> max, remaining |-> remaining, percent |-> percent]
Go(rolling, weekly, monthly) == [rolling |-> rolling, weekly |-> weekly, monthly |-> monthly]
Cap(max, remaining) == [limit |-> max, remaining |-> remaining]
Pass(subscribed, base, spend, hosting, bonus) ==
  [subscribed |-> subscribed, base |-> base, spend |-> spend, hosting |-> hosting, bonus |-> bonus]

ZaiAnswer == {NoAnswer, <<>>, <<Zai("TOKENS", 4, 10)>>,
  <<Zai("TOKENS", 3, 10), Zai("TOKENS", 6, 110), Zai("TIME_LIMIT", 5, 0), Zai("TOKENS", 3, 20)>>}
KeyedAnswer == [
  nanogpt |-> {[usage |-> u, balance |-> b] : b \in {"none", "amount", "text"},
    u \in {NoAnswer, [state |-> "unsaid", daily |-> Nano(X, X, X, X), monthly |-> Nano(X, 5, X, X)],
           [state |-> "active", daily |-> Nano(3, 7, X, X), monthly |-> Nano(X, -1, 10, 30)],
           [state |-> "paused", daily |-> Nano(X, X, 10, 20), monthly |-> Nano(X, X, 5, X)]}},
  kilo |-> {[balance |-> b, pass |-> p] : b \in {X, 5},
    p \in {NoAnswer, Pass(FALSE, 0, 0, "none", "none"), Pass(TRUE, -1, 0, "none", "none"),
           Pass(TRUE, 1, 0, "good", "issued"), Pass(TRUE, 1, 1, "none", "unknown")}},
  kimi |-> {NoAnswer, <<>>, <<Kimi("w", X, X, X)>>,
            <<Kimi("w", 10, X, 4), Kimi("h", 0, 2, X), Kimi("x", X, X, 3)>>},
  zai |-> ZaiAnswer, zhipu |-> ZaiAnswer,
  minimax |-> {NoAnswer, <<>>, <<Mini("other", <<1, 1>>, <<1, 1>>)>>,
    <<Mini("M*", <<0, 1>>, <<X, 1>>), Mini("M1", <<10, 12>>, <<10, 3>>), Mini("M2", <<10, 5>>, <<X, 3>>)>>,
    <<Mini("M*", <<10, 4>>, <<X, 1>>), Mini("M1", <<10, 12>>, <<10, 3>>)>>},
  openai |-> {NoAnswer, OpenAi(<<Used("hourly", 10), Used("hourly", 20)>>, X),
    OpenAi(<<Used("hourly", 10), Used("weekly", 120)>>, 3), OpenAi(<<Used("other", 10), Used("monthly", X)>>, 3)},
  synthetic |-> {NoAnswer, [rolling |-> Share(10, 5, X), weekly |-> Share(10, 5, 70)],
    [rolling |-> Share(10, 11, X), weekly |-> Share(10, 5, 70)], [rolling |-> Share(10, 10, X), weekly |-> Share(10, 0, X)]},
  deepseek |-> {NoAnswer, <<>>, <<"EUR", "CNY">>, <<"CNY", "USD">>},
  chutes |-> {NoAnswer, [quota |-> X, used |-> 3], [quota |-> 10, used |-> X], [quota |-> 10, used |-> 12]},
  openrouter |-> {NoAnswer, [cap |-> Cap(X, 3), budgets |-> <<>>],
                  [cap |-> Cap(10, 3), budgets |-> <<Cap(-1, 2), Cap(4, 1), Cap(4, 3)>>]},
  alibaba |-> {[fiveHour |-> 0, weekly |-> 40, monthly |-> 100]}]
  @@ ("ollama-cloud" :> {NoAnswer, <<>>, <<101>>, <<30, 50>>, <<X, 40>>})
  @@ ("opencode-go" :> [selections |-> {{"weekly"}, {"rolling", "weekly", "monthly"}},
        pages |-> {NoAnswer, [ssr |-> Go(X, X, X), slots |-> Go(X, X, X)],
                   [ssr |-> Go(X, X, X), slots |-> Go(10, 20, 30)], [ssr |-> Go(120, X, X), slots |-> Go(10, 20, 30)]}])

------------------------------------------------------------------------------
(* A collection: three providers, one of which keeps every row, another has *)
(* a message of its own.                                                    *)

Collecting(enabled, mode, onlyCurrent, bothFail, style, tokens) ==
  [enabled |-> enabled, mode |-> mode, onlyCurrent |-> onlyCurrent, surfaced |-> TRUE,
   bothFail |-> bothFail, style |-> style, tokens |-> tokens]
Fetched(attempted, entries, errors, accounting) ==
  [attempted |-> attempted, entries |-> entries, errors |-> errors, accounting |-> accounting]
Left(window, left) == [window |-> window, left |-> left]

CollectionSetting == {Collecting(FALSE, AutoDetected, FALSE, TRUE, "allWindows", FALSE)}
  \cup {Collecting(TRUE, mode, current, fail, "singleWindow", tokens) :
          mode \in {AutoDetected, {}, {"a", "b"}}, current, fail, tokens \in BOOLEAN}
CollectionResult ==
  {Fetched(TRUE, <<Left("d", 50), Left("w", 20), Left("v", X)>>, {}, <<>>),
   Fetched(TRUE, <<>>, {}, <<Left("v", X)>>), Fetched(TRUE, <<>>, {}, <<>>),
   Fetched(FALSE, <<>>, {}, <<>>), Fetched(TRUE, <<>>, {"bad"}, <<>>)}

------------------------------------------------------------------------------
(* A usage report: repeats within a session, a copy in its child, prices    *)
(* the user sets for a model that has none.                                 *)

Rates(input, output, cache) == [input |-> input, output |-> output, cache |-> cache]
From(seller, model) == [provider |-> <<seller>>, hint |-> <<>>, model |-> model]
Opus == From("anthropic", "opus")
Lab == From("lab", "lab-1")
ModelName == {"opus", "opus-free", "opus-9", "shared", "lab-1", "auto", "?", "gpt"}
Message(id, session, source, tokens) ==
  [id |-> id, session |-> session, source |-> source, created |-> 0, done |-> 0, tokens |-> tokens]
Root == [parent |-> "none", created |-> 0]

U == INSTANCE UsageReport WITH
  Snapshot <- [anthropic |-> [opus |-> Rates(2, 4, -1)], openai |-> [gpt |-> Rates(1, 2, 1), shared |-> Rates(1, 1, 1)],
               other |-> [shared |-> Rates(3, 3, 3)]],
  Unknown <- "?", SourceAlias <- [copilot |-> "openai"], Normal <- [m \in ModelName |-> m],
  Bare <- [m \in ModelName |-> IF m = "opus-free" THEN "opus" ELSE m], Alternatives <- <<>>,
  Family <- ("opus" :> "anthropic" @@ "opus-9" :> "anthropic" @@ "opus-free" :> "anthropic" @@ "gpt" :> "openai"),
  CursorProviders <- {<<"cursor">>}, CursorLocal <- [auto |-> Rates(1, 2, 0)],
  CursorAlias <- ("opus-4.5" :> <<"anthropic", "opus">>),
  Session <- {"s1", "s2", "s3"}, File <- {"f1"}, Source <- {Opus, Lab}, CliSource <- {Opus},
  Tokens <- {Rates(1, 1, 0)}, OwnKey <- {<<"lab", "lab-1">>}, OwnRates <- {Rates(5, -1, -1)},
  Database <- { [sessions |-> [s1 |-> Root],
                 messages |-> {Message(1, "s1", Opus, Rates(1, 1, 0)), Message(2, "s1", Opus, Rates(1, 1, 0))}],
                [sessions |-> [s1 |-> Root, s2 |-> [parent |-> "s1", created |-> 1]],
                 messages |-> {Message(1, "s1", Lab, Rates(0, 0, 1)), Message(2, "s2", Opus, Rates(1, 1, 0))}] },
  Window <- {[since |-> -1, until |-> 0], [since |-> 1, until |-> -1]},
  MaxMessages <- 4, MaxEntries <- 1, MaxEdits <- 2, MaxFaults <- 1, MaxNow <- 1,
  edits <- usageEdits

------------------------------------------------------------------------------
(* Completions that are counted locally: two sessions and a response.       *)

J == INSTANCE LocalCompletions WITH
  Process <- {"p1"}, Session <- {"s1", "s2"}, Response <- {"r1"}, Usage <- {"cheap"}, Cost <- [cheap |-> 1],
  Windows <- [roll |-> [kind |-> "rolling", length |-> 1], day |-> [kind |-> "day", length |-> 0]],
  Day <- 1, MaxNow <- 1, MaxItems <- 3, MaxFaults <- 1,
  now <- countNow, faults <- countFaults, messages <- countMessages

------------------------------------------------------------------------------

usageVars == <<now, usageEdits, faults, sessions, messages, transcripts, userFile, own, report>>
countVars == <<countNow, countFaults, issued, countMessages, lines, events, aliases, sync, known>>
vars == <<queriesVars, usageVars, countVars>>

UsageOff ==
  /\ now = Off /\ usageEdits = Off /\ faults = Off /\ sessions = Off /\ messages = Off
  /\ transcripts = Off /\ userFile = Off /\ own = Off /\ report = Off
CountOff ==
  /\ countNow = Off /\ countFaults = Off /\ issued = Off /\ countMessages = Off
  /\ lines = Off /\ events = Off /\ aliases = Off /\ sync = Off /\ known = Off

Init ==
  /\ QueriesInit
  /\ IF part = "usage" THEN U!UsageInit ELSE UsageOff
  /\ IF part = "count" THEN J!CompletionInit ELSE CountOff

Query == QueriesNext /\ UNCHANGED <<usageVars, countVars>>
Usage == part = "usage" /\ U!UsageNext /\ UNCHANGED <<queriesVars, countVars>>
Completions == part = "count" /\ J!CompletionNext /\ UNCHANGED <<queriesVars, usageVars>>

Next == Query \/ Usage \/ Completions
Spec == Init /\ [][Next]_vars

------------------------------------------------------------------------------
(* Properties of the parts; those of queries are in Queries.               *)

\* What a fork of a session copied is counted once, and every repeat of its own.
CopiesCollapse == part = "usage" => U!CopiesCollapse

\* A report has all of its window, a tree of sessions all that descend from its root,
\* each once and below its parent; and the tables of a report agree with each other
\* and with the summary of a session.
UsageIsWhole == part = "usage" => U!WindowIsWhole /\ U!TreeIsWhole /\ U!TablesAgree

\* Each completion that was ever entered is counted once, in the windows it is in, and
\* a share is shown only where all sources were read and all prices are known.
CountedHonestly == part = "count" => J!CountedHonestly
EachCountedOnce == [][CountedHonestly]_countVars

==============================================================================
