---------------------------- MODULE ProviderAnswers ----------------------------
(***************************************************************************)
(* How the providers that are asked with a key read an answer: which rows  *)
(* and errors each of them makes of it.  An answer is the part of a        *)
(* document the code reads, NoAnswer what has no such part: an error       *)
(* status, no JSON, another shape, or no connection.  Percentages are      *)
(* whole, Missing stands for what is no finite number.                     *)
(*                                                                         *)
(* An outcome has the rows, whose order is layout, and the errors of one   *)
(* fetch.                                                                  *)
(* A row has the window it is for and the percentage that is left of it;   *)
(* a row of another kind, an amount or a status, has Missing.              *)
(***************************************************************************)
EXTENDS Integers, Sequences, FiniteSetsExt

CONSTANT NoAnswer

Missing == -1000

Row(window, left) == [window |-> window, left |-> left]
Value(window) == Row(window, Missing)

NotAttempted == [attempted |-> FALSE, rows |-> {}, errors |-> {}]
Attempted(rows, errors) == [attempted |-> TRUE, rows |-> rows, errors |-> errors]
AttemptedError(what) == Attempted({}, {what})

\* clampPercent
Clamp(n) == IF n = Missing THEN 0 ELSE Max({0, Min({100, n})})

Share(part, whole) == (100 * part) \div whole

\* Rows of the windows that are known.
Known(windows, left) == {Row(w, left[w]) : w \in {v \in windows : left[v] # Missing}}

\* groupedPercentWindowEntries: where no window is known, a row says 0 %.
Grouped(windows, left) ==
  IF Known(windows, left) = {} THEN {Row("none", 0)} ELSE Known(windows, left)

------------------------------------------------------------------------------
(* Two requests at once: NanoGPT and Kilo.                                  *)

\* normalizeUsageWindow
NanoWindow(w) ==
  LET limit == IF w.limit > 0 THEN w.limit
               ELSE IF w.used # Missing /\ w.remaining # Missing THEN w.used + w.remaining
               ELSE Missing
      notUsed == IF w.percentUsed = Missing THEN Missing ELSE 100 - w.percentUsed
  IN  IF limit <= 0 THEN Missing
      ELSE IF w.remaining # Missing
      THEN IF w.remaining >= 0 THEN Clamp(Share(w.remaining, limit)) ELSE Clamp(notUsed)
      ELSE IF notUsed # Missing THEN Clamp(notUsed) ELSE 100

NanoLeft(usage) == [daily |-> NanoWindow(usage.daily), monthly |-> NanoWindow(usage.monthly)]

\* parseNanoGptUsage: an answer that says anything of a subscription.
NanoSubscribed(usage) ==
  /\ usage # NoAnswer
  /\ usage.state # "unsaid" \/ \E w \in {"daily", "monthly"} : NanoLeft(usage)[w] # Missing

\* mapNanoGptSuccess
NanoRows(usage, balance) ==
  (IF NanoSubscribed(usage) THEN Known({"daily", "monthly"}, NanoLeft(usage)) ELSE {})
  \cup (IF balance = "amount" THEN {Value("balance")} ELSE {})

\* queryNanoGptQuotaWithAuth: each of the requests may fail alone.
NanoGpt(usage, balance) ==
  LET rows == NanoRows(usage, balance)
  IN  IF ~NanoSubscribed(usage) /\ balance = "none" THEN AttemptedError("both")
      ELSE Attempted(rows,
                     (IF NanoSubscribed(usage) THEN {} ELSE {"usage"})
                       \cup (IF balance = "none" THEN {"balance"} ELSE {})
                       \cup (IF NanoSubscribed(usage) /\ usage.state # "active" THEN {"state"} ELSE {})
                       \cup (IF rows = {} THEN {"no usable data"} ELSE {}))

\* parseKiloPass: the subscription's amounts, each of which ends the whole where
\* it is none, and the state of the bonus.
KiloPass(pass) ==
  IF pass = NoAnswer \/ (pass.subscribed /\ (pass.base < 0 \/ pass.spend < 0 \/ pass.hosting = "bad"))
  THEN NoAnswer
  ELSE IF ~pass.subscribed THEN {}
  ELSE {Value("base"), Value("spend"), Value(pass.bonus)}
       \cup (IF pass.hosting = "good" THEN {Value("hosting")} ELSE {})

\* queryKiloQuota
Kilo(balance, pass) ==
  LET of == KiloPass(pass)
  IN  Attempted((IF balance = Missing THEN {} ELSE {Value("balance")})
                  \cup (IF of = NoAnswer THEN {} ELSE of),
                (IF balance = Missing THEN {"balance"} ELSE {})
                  \cup (IF of = NoAnswer THEN {"pass"} ELSE {}))

------------------------------------------------------------------------------
(* Lists of limits.                                                         *)

\* toUsageRow of kimi.ts
KimiLeft(l) ==
  LET used == IF l.used # Missing THEN l.used
              ELSE IF l.remaining # Missing /\ l.limit # Missing THEN l.limit - l.remaining ELSE 0
  IN  IF l.limit > 0 THEN Clamp(Share(l.limit - used, l.limit)) ELSE 0

KimiReadable(l) == l.limit # Missing \/ l.used # Missing

\* parseKimiUsagePayload, queryKimiQuotaWithAuth
Kimi(limits) ==
  LET read == IF limits = NoAnswer THEN {} ELSE {i \in DOMAIN limits : KimiReadable(limits[i])}
  IN  IF read = {} THEN AttemptedError("unexpected")
      ELSE Attempted({Row(limits[i].name, KimiLeft(limits[i])) : i \in read}, {})

\* queryZaiQuotaWithAuth: of one kind the last limit counts; a daily one, of unit 4,
\* does not.  Zhipu answers alike.
Zai(limits) ==
  LET kind(l) == IF l.type = "TIME_LIMIT" THEN "mcp"
                 ELSE IF l.unit = 3 THEN "fiveHour" ELSE IF l.unit = 6 THEN "weekly" ELSE "ignored"
      of(k) == {i \in DOMAIN limits : kind(limits[i]) = k}
      left == [k \in {"fiveHour", "weekly", "mcp"} |->
                 IF of(k) = {} THEN Missing ELSE Clamp(100 - limits[Max(of(k))].percentage)]
  IN  IF limits = NoAnswer THEN AttemptedError("invalid")
      ELSE Attempted(Grouped({"fiveHour", "weekly", "mcp"}, left), {})

Zhipu(limits) == Zai(limits)

\* normalizeMiniMaxCounts and buildMiniMaxEntry: the count is of what was used in
\* China, of what remains elsewhere.
MiniMaxLeft(w, china) ==
  IF Missing \in {w.total, w.count} \/ w.total <= 0 THEN Missing
  ELSE LET remaining == IF china THEN w.total - Max({0, w.count}) ELSE Min({w.total, w.count})
       IN  Min({100, Share(remaining, w.total)})

MiniMaxWindows(m, china) ==
  [w \in {"fiveHour", "weekly"} |-> MiniMaxLeft(m[w], china)]

\* getWorstPercent, above all percentages where nothing is known
MiniMaxWorst(m, china) ==
  LET left == {MiniMaxWindows(m, china)[w] : w \in {"fiveHour", "weekly"}} \ {Missing}
  IN  IF left = {} THEN 1000 ELSE Min(left)

\* selectCanonicalMiniMaxModel, of models in the order of their names
MiniMaxModel(list, models, china) ==
  LET wildcard == {i \in models : list[i].name = "M*"}
      known == wildcard # {} /\ MiniMaxWorst(list[Min(wildcard)], china) < 1000
      least == Min({MiniMaxWorst(list[i], china) : i \in models})
  IN  IF known THEN Min(wildcard)
      ELSE Min({i \in models : MiniMaxWorst(list[i], china) = least})

\* queryMiniMaxQuota: success without a model that says anything has no rows.
MiniMax(list, china) ==
  LET models == {i \in DOMAIN list : list[i].name # "other"}
  IN  IF list = NoAnswer THEN AttemptedError("error")
      ELSE IF models = {} THEN Attempted({}, {})
      ELSE Attempted(Known({"fiveHour", "weekly"},
                           MiniMaxWindows(list[MiniMaxModel(list, models, china)], china)), {})

------------------------------------------------------------------------------
(* Two windows.                                                             *)

\* parseRateLimitWindow and the windows of queryOpenAIQuotaWithAuth: two answers
\* for one kind that differ say nothing.
OpenAILeft(windows, codeReview) ==
  LET readable == {i \in DOMAIN windows : windows[i].kind # "other" /\ windows[i].used # Missing}
      of(k) == {Clamp(100 - windows[i].used) : i \in {j \in readable : windows[j].kind = k}}
  IN  [k \in {"hourly", "weekly", "monthly", "codeReview"} |->
         IF k = "codeReview" THEN (IF codeReview = Missing THEN Missing ELSE Clamp(100 - codeReview))
         ELSE IF Cardinality(of(k)) = 1 THEN Max(of(k)) ELSE Missing]

OpenAI(answer) ==
  LET left == OpenAILeft(answer.windows, answer.codeReview)
  IN  IF answer = NoAnswer \/ \A k \in DOMAIN left : left[k] = Missing
      THEN AttemptedError("No quota data")
      ELSE Attempted(Grouped({"hourly", "weekly", "monthly", "codeReview"}, left), {})

\* buildRollingFiveHourWindow, buildWeeklyTokenWindow: both, or neither.
Synthetic(answer) ==
  LET bad(w) == w.limit <= 0 \/ w.remaining < 0 \/ w.remaining > w.limit
      weekly == IF answer.weekly.percent \in 0..100 THEN answer.weekly.percent
                ELSE Clamp(Share(answer.weekly.remaining, answer.weekly.limit))
  IN  IF answer = NoAnswer \/ bad(answer.rolling) \/ bad(answer.weekly) THEN AttemptedError("missing")
      ELSE Attempted({Row("fiveHour", Clamp(Share(answer.rolling.remaining, answer.rolling.limit))),
                      Row("weekly", weekly)}, {})

\* queryOllamaCloudQuota: the first two tracks of the page, each of which may be
\* unreadable; a page that redirects is an expired cookie.
OllamaCloud(tracks) ==
  LET nth(i) == IF i \in DOMAIN tracks /\ tracks[i] \in 0..100 THEN 100 - tracks[i] ELSE Missing
      rows == Known({"session", "weekly"}, [session |-> nth(1), weekly |-> nth(2)])
  IN  IF tracks = NoAnswer \/ rows = {} THEN AttemptedError("could not parse") ELSE Attempted(rows, {})

\* A page of OpenCode Go has its windows in either of two formats, of which the first
\* that says anything counts.
OpenCodeGoUsed(p) == IF \E w \in DOMAIN p.ssr : p.ssr[w] # Missing THEN p.ssr ELSE p.slots
OpenCodeGoKnown(p) == {w \in DOMAIN p.ssr : OpenCodeGoUsed(p)[w] # Missing}

OpenCodeGoWindows == {"rolling", "weekly", "monthly"}

\* buildOpenCodeGoEntries
OpenCodeGoRows(p, selected) ==
  {Row(w, 100 - Max({0, OpenCodeGoUsed(p)[w]})) : w \in selected \cap OpenCodeGoKnown(p)}

\* fetchWithConfig: the pages of all workspaces.  A selection other than the default
\* names what it misses.
OpenCodeGo(pages, selected) ==
  LET failed == {i \in DOMAIN pages : pages[i] = NoAnswer \/ OpenCodeGoKnown(pages[i]) = {}}
      lacking == {i \in DOMAIN pages \ failed : ~(selected \subseteq OpenCodeGoKnown(pages[i]))
                                               /\ selected # OpenCodeGoWindows}
      rows == UNION {OpenCodeGoRows(pages[i], selected) : i \in DOMAIN pages \ failed}
  IN  Attempted(rows, {"page failed" : i \in failed} \cup {"window missing" : i \in lacking})

------------------------------------------------------------------------------
(* Amounts.                                                                 *)

\* normalizeDeepSeekBalance: balances in the two currencies it knows
DeepSeekKnown(currencies) == {currencies[i] : i \in DOMAIN currencies} \cap {"CNY", "USD"}

\* buildDeepSeekEntries: for want of balances the status
DeepSeek(currencies) ==
  IF currencies = NoAnswer THEN AttemptedError("error")
  ELSE IF DeepSeekKnown(currencies) = {} THEN Attempted({Value("status")}, {})
  ELSE Attempted({Value(c) : c \in DeepSeekKnown(currencies)}, {})

Chutes(answer) ==
  IF answer = NoAnswer THEN AttemptedError("error")
  ELSE LET amount(n) == IF n = Missing THEN 0 ELSE n
       IN  Attempted({Row("daily", IF amount(answer.quota) <= 0 THEN 0
                                   ELSE Clamp(Share(answer.quota - amount(answer.used), answer.quota)))}, {})

\* budget of openrouter.ts: without a limit a status, with one a percentage, that is
\* not clamped.
OpenRouterBudget(b) ==
  Row("budget", IF b.limit > 0 /\ b.remaining # Missing THEN Share(b.remaining, b.limit) ELSE Missing)

\* parseOpenRouterAccounting: a budget that is damaged, or after the 64th, is warned
\* about and leaves the others.
OpenRouter(answer, most) ==
  LET bad(b) == b.limit < 0 \/ b.remaining = Missing
      read == SubSeq(answer.budgets, 1, Min({most, Len(answer.budgets)}))
      good == {i \in DOMAIN read : ~bad(read[i])}
  IN  IF answer = NoAnswer THEN AttemptedError("unavailable")
      ELSE Attempted({OpenRouterBudget(answer.cap)} \cup {OpenRouterBudget(read[i]) : i \in good},
                     (IF Len(answer.budgets) > most THEN {"truncated"} ELSE {})
                       \cup (IF good # DOMAIN read THEN {"row unavailable"} ELSE {}))

==============================================================================
