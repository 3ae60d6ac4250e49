----------------------------- MODULE QueryProofs -----------------------------
(***************************************************************************)
(* The queries of Queries.tla, proved for any accounts, files, answers,    *)
(* machines, views and counts.  Each part has an invariant of its own and  *)
(* lemmas that say that it starts with it and that every step keeps it;    *)
(* the theorems at the end put them together, part by part.                *)
(***************************************************************************)
EXTENDS Queries, Sequences, WellFoundedInduction, FiniteSetTheorems, TLAPS

------------------------------------------------------------------------------
(* The keyed providers: the credential of an entry is asked with.           *)

Looking == {"idle", "selected", "unscoped", "checked"}

\* Whatever is looked for, no credential was asked with before; one is chosen for a
\* cache entry only by the last search of a prepared query.
KeyedIInv ==
  /\ keyedStage \in Looking \cup {"prepared", "asking", "done"}
  /\ purpose \in {"none", "available", "prepare", "check", "fetch"}
  /\ purpose # "none" => keyedStage \in Looking
  /\ credential # None => keyedStage \in {"prepared", "asking", "done"}
  /\ asked # None => keyedStage \in {"asking", "done"}
  /\ K!OwnCredential

\* At first nothing is looked for.
LEMMA KeyedStarts == K!KeyedInit => KeyedIInv
BY DEF K!KeyedInit, KeyedIInv, Looking, K!OwnCredential

\* What a search finds is used as its purpose says, and a cache entry goes with the
\* credential that was found for it.
LEMMA KeyedDecides ==
  ASSUME KeyedIInv, keyedStage \in Looking, NEW found,
         NEW for \in {"available", "prepare", "check", "fetch"}, K!Decide(for, found)
  PROVE  KeyedIInv'
<1>1. credential = None /\ asked = None
  BY DEF KeyedIInv, Looking
<1>2. purpose' = "none"
  BY DEF K!Decide
<1>3. CASE for = "available"
  BY <1>1, <1>2, <1>3 DEF KeyedIInv, Looking, K!Decide, K!Done, K!Goes, K!OwnCredential
<1>4. CASE for = "prepare"
  BY <1>1, <1>2, <1>4 DEF KeyedIInv, Looking, K!Decide, K!Goes, K!OwnCredential
<1>5. CASE for \in {"check", "fetch"}
  BY <1>1, <1>2, <1>5 DEF KeyedIInv, Looking, K!Decide, K!Done, K!Goes, K!Ask, K!OwnCredential
<1> QED
  BY <1>3, <1>4, <1>5

\* Every step keeps the invariant of the keyed providers.
LEMMA KeyedStep == ASSUME KeyedIInv, [K!KeyedNext]_keyedVars PROVE KeyedIInv'
<1>1. CASE K!Edit
  BY <1>1 DEF K!Edit, KeyedIInv, K!OwnCredential
<1>2. CASE K!Look
  <2>1. K!Purpose \in {"available", "prepare", "check", "fetch"} /\ keyedStage \in Looking
    BY <1>2 DEF K!Look, K!Purpose, Looking
  <2>2. CASE K!Early(world, provider) # K!NoneFound
    <3>1. K!Decide(K!Purpose, K!Early(world, provider))
      BY <1>2, <2>2 DEF K!Look
    <3> QED
      BY <2>1, <3>1, KeyedDecides
  <2>3. CASE K!Early(world, provider) = K!NoneFound
    BY <1>2, <2>1, <2>3 DEF K!Look, KeyedIInv, Looking, K!OwnCredential
  <2> QED
    BY <2>2, <2>3
<1>3. CASE K!ReadAuth
  BY <1>3, KeyedDecides DEF K!ReadAuth, KeyedIInv
<1>4. CASE K!FetchScoped
  BY <1>4 DEF K!FetchScoped, KeyedIInv, Looking, K!Ask, K!OwnCredential
<1>5. CASE K!Answer
  BY <1>5 DEF K!Answer, KeyedIInv, Looking, K!Done, K!OwnCredential
<1>6. CASE UNCHANGED keyedVars
  BY <1>6 DEF keyedVars, KeyedIInv, K!OwnCredential
<1> QED
  BY <1>1, <1>2, <1>3, <1>4, <1>5, <1>6 DEF K!KeyedNext

\* What is said for sure: that there is a row, or an error.
Says(r) == r.attempted /\ (r.rows # {} \/ r.errors # {})

\* Grouped rows have at least the one that says 0 %.
LEMMA GroupedSays == \A windows, left : K!Grouped(windows, left) # {}
BY DEF K!Grouped

\* An error says something,
LEMMA ErrorSays == \A what : Says(K!AttemptedError(what))
BY DEF Says, K!AttemptedError, K!Attempted

\* and so do rows.
LEMMA RowsSay == \A rows, errors : rows # {} \/ errors # {} => Says(K!Attempted(rows, errors))
BY DEF Says, K!Attempted

\* Two requests at once have an error for each that fails, and for no rows at all.
LEMMA BothSay ==
  /\ \A usage, balance : Says(K!NanoGpt(usage, balance))
  /\ \A balance, pass : Says(K!Kilo(balance, pass))
<1>1. ASSUME NEW usage, NEW balance PROVE Says(K!NanoGpt(usage, balance))
  BY ErrorSays, RowsSay DEF K!NanoGpt
<1>2. ASSUME NEW balance, NEW pass PROVE Says(K!Kilo(balance, pass))
  BY RowsSay DEF K!Kilo
<1> QED  BY <1>1, <1>2

\* Of a list of limits there is a row or an error, except of MiniMax.
LEMMA ListsSay ==
  /\ \A limits : Says(K!Kimi(limits))
  /\ \A limits : Says(K!Zai(limits))
  /\ \A list, china : K!MiniMax(list, china).attempted
<1>1. ASSUME NEW limits PROVE Says(K!Kimi(limits))
  BY ErrorSays, RowsSay DEF K!Kimi
<1>2. ASSUME NEW limits PROVE Says(K!Zai(limits))
  BY ErrorSays, RowsSay, GroupedSays DEF K!Zai
<1>3. ASSUME NEW list, NEW china PROVE K!MiniMax(list, china).attempted
  BY DEF K!MiniMax, K!AttemptedError, K!Attempted
<1> QED  BY <1>1, <1>2, <1>3

\* So there is of one or two windows,
LEMMA WindowsSay ==
  /\ \A reply : Says(K!OpenAI(reply))
  /\ \A reply : Says(K!Synthetic(reply))
  /\ \A tracks : Says(K!OllamaCloud(tracks))
<1>1. ASSUME NEW reply PROVE Says(K!OpenAI(reply))
  BY ErrorSays, RowsSay, GroupedSays DEF K!OpenAI
<1>2. ASSUME NEW reply PROVE Says(K!Synthetic(reply))
  BY ErrorSays, RowsSay DEF K!Synthetic
<1>3. ASSUME NEW tracks PROVE Says(K!OllamaCloud(tracks))
  BY ErrorSays, RowsSay DEF K!OllamaCloud
<1> QED  BY <1>1, <1>2, <1>3

\* and of amounts.
LEMMA AmountsSay ==
  /\ \A currencies : Says(K!DeepSeek(currencies))
  /\ \A reply : Says(K!Chutes(reply))
  /\ \A reply, most : Says(K!OpenRouter(reply, most))
<1>1. ASSUME NEW currencies PROVE Says(K!DeepSeek(currencies))
  BY ErrorSays, RowsSay DEF K!DeepSeek
<1>2. ASSUME NEW reply PROVE Says(K!Chutes(reply))
  BY ErrorSays, RowsSay DEF K!Chutes
<1>3. ASSUME NEW reply, NEW most PROVE Says(K!OpenRouter(reply, most))
  BY ErrorSays, RowsSay DEF K!OpenRouter
<1> QED  BY <1>1, <1>2, <1>3

\* What Alibaba's requests are counted to has a row for five hours.
LEMMA AlibabaSays ==
  ASSUME NEW a \in KeyedAnswers["alibaba"]
  PROVE  Says(K!Attempted(K!Known({"fiveHour", "weekly", "monthly"}, a), {}))
<1>1. K!Row("fiveHour", a["fiveHour"]) \in K!Known({"fiveHour", "weekly", "monthly"}, a)
  BY KeyedAssumption DEF K!Known
<1> QED  BY <1>1, RowsSay

\* An answer of any provider is read as something, MiniMax's as attempted.
LEMMA ReadingSays ==
  ASSUME NEW p \in Provider, p.id # "opencode-go", NEW a \in KeyedAnswers[p.id]
  PROVE  /\ K!Reading(p, a).attempted
         /\ Says(K!Reading(p, a)) \/ p.id = "minimax"
<1>1. p.id \in {"nanogpt", "kilo", "kimi", "zai", "zhipu", "minimax", "openai", "synthetic", "ollama-cloud",
                "deepseek", "chutes", "alibaba", "openrouter"}
  BY KeyedAssumption
<1>0. Says(K!Reading(p, a)) => K!Reading(p, a).attempted
  BY DEF Says
<1>2. CASE p.id = "nanogpt"
  <2>1. K!Reading(p, a) = K!NanoGpt(a.usage, a.balance)  BY <1>2, Zenon DEF K!Reading
  <2> QED  BY <2>1, <1>0, BothSay
<1>3. CASE p.id = "kilo"
  <2>1. K!Reading(p, a) = K!Kilo(a.balance, a.pass)  BY <1>3, Zenon DEF K!Reading
  <2> QED  BY <2>1, <1>0, BothSay
<1>4. CASE p.id = "kimi"
  <2>1. K!Reading(p, a) = K!Kimi(a)  BY <1>4, Zenon DEF K!Reading
  <2> QED  BY <2>1, <1>0, ListsSay
<1>5. CASE p.id = "zai"
  <2>1. K!Reading(p, a) = K!Zai(a)  BY <1>5, Zenon DEF K!Reading
  <2> QED  BY <2>1, <1>0, ListsSay
<1>6. CASE p.id = "zhipu"
  <2>1. K!Reading(p, a) = K!Zai(a)  BY <1>6, Zenon DEF K!Reading, K!Zhipu
  <2> QED  BY <2>1, <1>0, ListsSay
<1>7. CASE p.id = "minimax"
  <2>1. K!Reading(p, a) = K!MiniMax(a, p.china)  BY <1>7, Zenon DEF K!Reading
  <2> QED  BY <2>1, <1>7, ListsSay
<1>8. CASE p.id = "openai"
  <2>1. K!Reading(p, a) = K!OpenAI(a)  BY <1>8, Zenon DEF K!Reading
  <2> QED  BY <2>1, <1>0, WindowsSay
<1>9. CASE p.id = "synthetic"
  <2>1. K!Reading(p, a) = K!Synthetic(a)  BY <1>9, Zenon DEF K!Reading
  <2> QED  BY <2>1, <1>0, WindowsSay
<1>10. CASE p.id = "ollama-cloud"
  <2>1. K!Reading(p, a) = K!OllamaCloud(a)  BY <1>10, Zenon DEF K!Reading
  <2> QED  BY <2>1, <1>0, WindowsSay
<1>11. CASE p.id = "deepseek"
  <2>1. K!Reading(p, a) = K!DeepSeek(a)  BY <1>11, Zenon DEF K!Reading
  <2> QED  BY <2>1, <1>0, AmountsSay
<1>12. CASE p.id = "chutes"
  <2>1. K!Reading(p, a) = K!Chutes(a)  BY <1>12, Zenon DEF K!Reading
  <2> QED  BY <2>1, <1>0, AmountsSay
<1>13. CASE p.id = "alibaba"
  <2>1. K!Reading(p, a) = K!Attempted(K!Known({"fiveHour", "weekly", "monthly"}, a), {})
    BY <1>13, Zenon DEF K!Reading
  <2> QED  BY <2>1, <1>0, <1>13, AlibabaSays
<1>14. CASE p.id = "openrouter"
  <2>1. K!Reading(p, a) = K!OpenRouter(a, MaxBudgets)  BY <1>14, Zenon DEF K!Reading
  <2> QED  BY <2>1, <1>0, AmountsSay
<1> QED
  BY <1>1, <1>2, <1>3, <1>4, <1>5, <1>6, <1>7, <1>8, <1>9, <1>10, <1>11, <1>12, <1>13, <1>14

\* The page of a workspace has rows, fails, or lacks what was selected.
LEMMA PagesSay ==
  ASSUME NEW keys, \E i : i \in DOMAIN keys,
         NEW sheets \in [DOMAIN keys -> KeyedAnswers["opencode-go"].pages],
         NEW selected \in KeyedAnswers["opencode-go"].selections
  PROVE  Says(K!OpenCodeGo(sheets, selected))
<1> DEFINE failed == {j \in DOMAIN sheets : sheets[j] = NoAnswer \/ K!OpenCodeGoKnown(sheets[j]) = {}}
           lacking == {j \in DOMAIN sheets \ failed : ~(selected \subseteq K!OpenCodeGoKnown(sheets[j]))
                                                    /\ selected # K!OpenCodeGoWindows}
           rows == UNION {K!OpenCodeGoRows(sheets[j], selected) : j \in DOMAIN sheets \ failed}
           errors == {"page failed" : j \in failed} \cup {"window missing" : j \in lacking}
<1>1. PICK i : i \in DOMAIN sheets
  OBVIOUS
<1>2. K!OpenCodeGo(sheets, selected) = K!Attempted(rows, errors)
  BY DEF K!OpenCodeGo
<1>3. CASE i \in failed
  <2>1. "page failed" \in errors  BY <1>3
  <2> HIDE DEF rows, errors
  <2> QED  BY <1>2, <2>1, RowsSay
<1>4. CASE i \in lacking
  <2>1. "window missing" \in errors  BY <1>4
  <2> HIDE DEF rows, errors
  <2> QED  BY <1>2, <2>1, RowsSay
<1>5. CASE i \notin failed /\ i \notin lacking
  <2>1. sheets[i] \in KeyedAnswers["opencode-go"].pages \ {NoAnswer} /\ K!OpenCodeGoKnown(sheets[i]) # {}
    BY <1>1, <1>5
  <2>2. selected \subseteq K!OpenCodeGoKnown(sheets[i]) \/ selected = K!OpenCodeGoWindows
    BY <1>1, <1>5
  <2>3. K!OpenCodeGoKnown(sheets[i]) \subseteq K!OpenCodeGoWindows
    BY <2>1, KeyedAssumption DEF K!OpenCodeGoKnown
  <2>4. PICK w : w \in selected \cap K!OpenCodeGoKnown(sheets[i])
    BY <2>1, <2>2, <2>3, KeyedAssumption
  <2>5. K!OpenCodeGoRows(sheets[i], selected) # {}
    BY <2>4 DEF K!OpenCodeGoRows
  <2>6. rows # {}
    BY <1>1, <1>5, <2>5
  <2> HIDE DEF rows, errors
  <2> QED  BY <1>2, <2>6, RowsSay
<1> QED  BY <1>3, <1>4, <1>5

\* The credential of OpenCode Go has a workspace.
HasKey(key) == provider.id = "opencode-go" => \E i : i \in DOMAIN key
HasFound(found) == found.state \notin {"none", "invalid"} => HasKey(found.key)
Found == IF K!Early(world, provider) # K!NoneFound THEN K!Early(world, provider) ELSE K!Late(world, provider)

\* Where the whole pairs are not none, there is one to ask with.
LEMMA WholePairs ==
  \A pairs : K!Cookies(pairs) # <<>> => \E i : i \in DOMAIN K!Cookies(pairs)
<1> SUFFICES ASSUME NEW pairs, \A i : i \notin DOMAIN K!Cookies(pairs) PROVE K!Cookies(pairs) = <<>>
  OBVIOUS
<1> DEFINE whole == {j \in DOMAIN pairs : pairs[j].id /\ pairs[j].cookie # None}
<1>1. K!Cookies(pairs) = [i \in whole |-> pairs[i].cookie]
  BY DEF K!Cookies
<1>2. whole = {}
  BY <1>1
<1> QED  BY <1>1, <1>2

\* What is found in the environment has a key,
LEMMA EarlyHasKey == HasFound(K!Early(world, provider))
<1> SUFFICES ASSUME provider.id = "opencode-go" PROVE HasFound(K!Early(world, provider))
  BY DEF HasFound, HasKey
<1>1. K!Early(world, provider) = K!OpenCodeGoEnv(world)
  BY Zenon DEF K!Early
<1>2. HasFound(K!OpenCodeGoEnv(world))
  BY WholePairs DEF K!OpenCodeGoEnv, K!NoneFound, K!Configured, HasFound, HasKey
<1> QED  BY <1>1, <1>2

\* and so has what is found in a file.
LEMMA LateHasKey == HasFound(K!Late(world, provider))
<1> SUFFICES ASSUME provider.id = "opencode-go" PROVE HasFound(K!Late(world, provider))
  BY DEF HasFound, HasKey
<1>1. K!Late(world, provider) = K!FirstFile(world.own.files)
  BY Zenon DEF K!Late, K!OpenCodeGoFile
<1>2. HasFound(K!FirstFile(world.own.files))
  BY WholePairs DEF K!FirstFile, K!FirstOf, K!NoneFound, K!Configured, K!Invalid, HasFound, HasKey
<1> QED  BY <1>1, <1>2

\* A search that has begun found nothing in what it looked at first; what has been
\* found is a key; and what a query ends with says something, or that there is nothing
\* to ask with, for which there must be no key.
KeyedSays ==
  /\ provider \in Provider
  /\ purpose # "none" => purpose = K!Purpose /\ (steady => K!Early(world, provider) = K!NoneFound)
  /\ keyedStage = "prepared" => HasKey(credential)
  /\ keyedStage = "asking" => HasKey(asked)
  /\ keyedStage = "done" =>
       \/ keyedResult.attempted /\ (Says(keyedResult) \/ provider.id = "minimax")
       \/ keyedResult = K!NotAttempted
          /\ (steady /\ provider.gate # "or" => ~K!Available(world, provider, Found))

\* At first there is nothing to say.
LEMMA KeyedSaysStarts == K!KeyedInit => KeyedSays
BY DEF K!KeyedInit, KeyedSays

\* What each stage looks for a credential for.
LEMMA Purposes ==
  /\ K!Purpose \in {"available", "prepare", "check", "fetch", "none"}
  /\ K!Purpose = "available" <=> keyedStage = "idle"
  /\ K!Purpose = "prepare" <=> keyedStage = "selected"
  /\ K!Purpose = "check" <=> keyedStage = "unscoped" /\ provider.id = "kimi"
  /\ K!Purpose = "fetch" <=> keyedStage = "checked" \/ (keyedStage = "unscoped" /\ provider.id # "kimi")
<1>1. CASE keyedStage = "idle"
  <2>1. K!Purpose = "available"  BY <1>1, Zenon DEF K!Purpose
  <2> QED  BY <1>1, <2>1
<1>2. CASE keyedStage = "selected"
  <2>1. K!Purpose = "prepare"  BY <1>2, Zenon DEF K!Purpose
  <2> QED  BY <1>2, <2>1
<1>3. CASE keyedStage = "unscoped"
  <2>1. K!Purpose = IF provider.id = "kimi" THEN "check" ELSE "fetch"  BY <1>3, Zenon DEF K!Purpose
  <2> QED  BY <1>3, <2>1
<1>4. CASE keyedStage = "checked"
  <2>1. K!Purpose = "fetch"  BY <1>4, Zenon DEF K!Purpose
  <2> QED  BY <1>4, <2>1
<1>5. CASE keyedStage \notin {"idle", "selected", "unscoped", "checked"}
  <2>1. K!Purpose = "none"  BY <1>5, Zenon DEF K!Purpose
  <2> QED  BY <1>5, <2>1
<1> QED  BY <1>1, <1>2, <1>3, <1>4, <1>5

\* Without a credential nothing is available that needs one.
LEMMA NoneUnavailable ==
  ASSUME NEW p \in Provider, NEW w, NEW found, p.gate # "or", found.state = "none"
  PROVE  ~K!Available(w, p, found)
<1>1. p.gate \in {"and", "entry", "key"}
  BY KeyedAssumption
<1>2. CASE p.gate = "and"
  <2>1. K!Available(w, p, found) => found.state # "none"  BY <1>2, Zenon DEF K!Available
  <2> QED  BY <2>1
<1>3. CASE p.gate = "entry"
  <2>1. K!Available(w, p, found) => found.state # "none"  BY <1>3, Zenon DEF K!Available
  <2> QED  BY <2>1
<1>4. CASE p.gate = "key"
  <2>1. K!Available(w, p, found) => found.state = "configured"  BY <1>4, Zenon DEF K!Available
  <2> QED  BY <2>1
<1> QED  BY <1>1, <1>2, <1>3, <1>4

\* What is found decides: it is what there is, unless something was edited.
LEMMA DecideSays ==
  ASSUME KeyedSays, NEW for \in {"available", "prepare", "check", "fetch"}, for = K!Purpose, NEW found,
         K!Decide(for, found), HasFound(found), steady' => found = Found,
         UNCHANGED <<provider, world>>
  PROVE  KeyedSays'
<1>0. K!Available(world, provider, Found)' = K!Available(world, provider, Found)
  BY DEF K!Available, Found, K!Early, K!Late
<1>1. CASE for = "available"
  <2>1. /\ purpose' = "none"
        /\ IF ~K!Available(world, provider, found) THEN K!Done(K!NotAttempted)
           ELSE K!Goes(IF provider.cached THEN "selected" ELSE "unscoped")
    BY <1>1, Zenon DEF K!Decide
  <2> QED  BY <1>0, <1>1, <2>1 DEF KeyedSays, K!Done, K!Goes, HasKey
<1>2. CASE for = "prepare"
  <2>1. /\ purpose' = "none"
        /\ IF found.state # "configured" \/ K!Expired(found.key) THEN K!Goes("unscoped")
           ELSE keyedStage' = "prepared" /\ credential' = found.key /\ UNCHANGED <<asked, keyedResult>>
    BY <1>2, Zenon DEF K!Decide
  <2> QED  BY <1>2, <2>1 DEF KeyedSays, K!Goes, HasKey, HasFound
<1>3. CASE for \in {"check", "fetch"}
  <2>1. /\ purpose' = "none"
        /\ IF found.state = "none" THEN K!Done(K!NotAttempted)
           ELSE IF found.state = "invalid" THEN K!Done(K!AttemptedError(found.key))
           ELSE IF K!Expired(found.key) THEN K!Done(K!AttemptedError("Token expired"))
           ELSE IF for = "check" THEN K!Goes("checked") ELSE K!Ask(found.key)
    <3>1. for # "available" /\ for # "prepare"  BY <1>3
    <3> QED  BY <1>3, <3>1, Zenon DEF K!Decide
  <2>2. CASE found.state = "none"
    <3>1. provider.gate # "or" /\ steady' => ~K!Available(world, provider, Found)
      BY <2>2, NoneUnavailable DEF KeyedSays
    <3> QED  BY <1>0, <2>1, <2>2, <3>1 DEF KeyedSays, K!Done
  <2>3. CASE found.state # "none"
    <3>1. \A what : K!AttemptedError(what).attempted
      BY DEF K!AttemptedError, K!Attempted
    <3> QED  BY <2>1, <2>3, <3>1, ErrorSays DEF KeyedSays, K!Done, K!Goes, K!Ask, HasKey, HasFound
  <2> QED  BY <2>2, <2>3
<1> QED  BY <1>1, <1>2, <1>3

\* Every step keeps it.
LEMMA KeyedSaysStep == ASSUME KeyedSays, [K!KeyedNext]_keyedVars PROVE KeyedSays'
<1>1. CASE K!Edit
  BY <1>1 DEF K!Edit, KeyedSays, K!Purpose, HasKey
<1>2. CASE K!Look
  <2>1. UNCHANGED <<provider, world>> /\ K!Purpose # "none" /\ K!Purpose \in {"available", "prepare", "check", "fetch"}
    BY <1>2, Purposes DEF K!Look
  <2>2. CASE K!Early(world, provider) # K!NoneFound
    <3>1. K!Decide(K!Purpose, K!Early(world, provider))
      BY <1>2, <2>2 DEF K!Look
    <3> QED  BY <2>1, <2>2, <3>1, EarlyHasKey, DecideSays DEF Found
  <2>3. CASE K!Early(world, provider) = K!NoneFound
    <3>1. purpose' = K!Purpose /\ UNCHANGED <<keyedStage, credential, asked, keyedResult>>
      BY <1>2, <2>3 DEF K!Look
    <3>2. K!Purpose' = K!Purpose /\ K!Early(world, provider)' = K!Early(world, provider)
      BY <2>1, <3>1 DEF K!Purpose, K!Early
    <3>3. keyedStage \notin {"done"}
      BY <2>1, Purposes
    <3> QED  BY <2>1, <2>3, <3>1, <3>2, <3>3 DEF KeyedSays, HasKey
  <2> QED  BY <2>2, <2>3
<1>3. CASE K!ReadAuth
  <2>1. /\ UNCHANGED <<provider, world, steady>>
        /\ purpose \in {"available", "prepare", "check", "fetch"} /\ purpose = K!Purpose
        /\ K!Decide(purpose, K!Late(world, provider))
        /\ steady => K!Early(world, provider) = K!NoneFound
    BY <1>3, Purposes DEF K!ReadAuth, KeyedSays
  <2> QED  BY <2>1, LateHasKey, DecideSays DEF Found
<1>4. CASE K!FetchScoped
  BY <1>4 DEF K!FetchScoped, K!Ask, KeyedSays, K!Purpose, HasKey
<1>5. CASE K!Answer
  <2>1. keyedStage = "asking" /\ UNCHANGED <<provider, world, steady, purpose>> /\ purpose = "none"
    BY <1>5, Purposes DEF K!Answer, KeyedSays
  <2>2. keyedStage' = "done" /\ keyedResult'.attempted /\ (Says(keyedResult') \/ provider.id = "minimax")
    <3>1. CASE provider.id = "opencode-go"
      <4>1. PICK sheets \in [DOMAIN asked -> KeyedAnswers["opencode-go"].pages],
                 selected \in KeyedAnswers["opencode-go"].selections :
              K!Done(K!OpenCodeGo(sheets, selected))
        BY <1>5, <3>1 DEF K!Answer
      <4> QED  BY <2>1, <3>1, <4>1, PagesSay DEF K!Done, KeyedSays, HasKey, Says
    <3>2. CASE provider.id # "opencode-go"
      <4>1. PICK a \in KeyedAnswers[provider.id] : K!Done(K!Reading(provider, a))
        BY <1>5, <3>2 DEF K!Answer
      <4> QED  BY <3>2, <4>1, ReadingSays DEF K!Done, KeyedSays
    <3> QED  BY <3>1, <3>2
  <2> QED  BY <2>1, <2>2 DEF KeyedSays, Says
<1>6. CASE UNCHANGED keyedVars
  BY <1>6 DEF keyedVars, KeyedSays, K!Purpose, HasKey, Found, K!Early, K!Late, K!Available
<1> QED
  BY <1>1, <1>2, <1>3, <1>4, <1>5, <1>6 DEF K!KeyedNext

\* Which leaves no provider that is available unanswered.
LEMMA KeyedSaysImplies == KeyedSays => K!AvailableIsAnswered
BY DEF KeyedSays, K!AvailableIsAnswered, Found, Says

------------------------------------------------------------------------------
(* Anthropic: one request for each token, none during a pause.              *)

\* What a call of queryAnthropicQuota may await; "idle" up to "file" it has no request.
Before == {"idle", "keychain", "file"}
Sharing == {"requesting", "denied", "reading"}

Pausing == [failures : Nat, left : Nat]

\* The endpoint's count is that of the code, or one ahead of it while the code has not
\* yet taken note of a 429.
Noted(t) ==
  LET c == inFlight[t]
      entry == IF c # None /\ step[c] = "denied" THEN A!After429(cooldown[t], anthropicAsked[c])
               ELSE cooldown[t]
  IN  limit[t].failures = entry.failures /\ limit[t].left <= entry.left

AnthropicTypes ==
  /\ cooldown \in [Token -> Pausing] /\ limit \in [Token -> Pausing]
  /\ inFlight \in [Token -> Call \cup {None}]
  /\ step \in [Call -> Before \cup Sharing \cup {"joined"}]
  /\ anthropicToken \in [Call -> Token \cup {None}]
  /\ anthropicAsked \in [Call -> Nat]
  /\ DOMAIN anthropicResult = Call

\* One request at a time for each token, which is that of the call in its place.
OneRequest ==
  /\ \A c \in Call : step[c] \notin Before => anthropicToken[c] \in Token
  /\ \A c \in Call : step[c] = "joined" => inFlight[anthropicToken[c]] # None
  /\ \A c \in Call : step[c] \in Sharing => inFlight[anthropicToken[c]] = c
  /\ \A t \in Token : inFlight[t] # None => step[inFlight[t]] \in Sharing /\ anthropicToken[inFlight[t]] = t

AnthropicIInv ==
  /\ AnthropicTypes
  /\ OneRequest
  /\ \A t \in Token : Noted(t)
  /\ A!QuotaOfOwnToken


\* Math.min and Math.max of two numbers.
LEMMA MinOfTwo == ASSUME NEW a \in Int, NEW b \in Int PROVE A!Min({a, b}) = IF a <= b THEN a ELSE b
<1> DEFINE m == IF a <= b THEN a ELSE b
<1>1. m \in {a, b} /\ \A y \in {a, b} : m <= y  OBVIOUS
<1>2. \A x \in {a, b} : (\A y \in {a, b} : x <= y) => x = m  OBVIOUS
<1> QED  BY <1>1, <1>2 DEF A!Min

\* Math.max.
LEMMA MaxOfTwo == ASSUME NEW a \in Int, NEW b \in Int PROVE A!Max({a, b}) = IF a >= b THEN a ELSE b
<1> DEFINE m == IF a >= b THEN a ELSE b
<1>1. m \in {a, b} /\ \A y \in {a, b} : m >= y  OBVIOUS
<1>2. \A x \in {a, b} : (\A y \in {a, b} : x >= y) => x = m  OBVIOUS
<1> QED  BY <1>1, <1>2 DEF A!Max

\* The count of failures from which on the pause is the longest.
LEMMA SaturatedExists == A!Saturated \in Nat
<1> DEFINE Late == {n \in 0..CooldownMax : BackoffBase * 2^n >= CooldownMax}
<1>1. Late \subseteq Nat /\ Late # {}  BY AnthropicAssumption
<1>2. PICK n \in Late : \A m \in Late : <<m, n>> \notin OpToRel(<, Nat)
  <2> HIDE DEF Late
  <2>1. IsWellFoundedOn(OpToRel(<, Nat), Nat)  BY NatLessThanWellFounded
  <2> QED  BY <1>1, <2>1, WFMin
<1>3. \A m \in 0..(n - 1) : BackoffBase * 2^m < CooldownMax
  <2> SUFFICES ASSUME NEW m \in 0..(n - 1) PROVE BackoffBase * 2^m < CooldownMax
    OBVIOUS
  <2>1. m \in Nat /\ m < n /\ m \in 0..CooldownMax  BY AnthropicAssumption
  <2>2. <<m, n>> \in OpToRel(<, Nat)  BY <1>1, <2>1 DEF OpToRel
  <2>3. m \notin Late  BY <1>2, <2>2
  <2>4. BackoffBase * 2^m \in Int  BY <2>1, AnthropicAssumption
  <2> QED  BY <2>1, <2>3, <2>4, AnthropicAssumption
<1>4. n \in 0..CooldownMax /\ BackoffBase * 2^n >= CooldownMax  OBVIOUS
<1> HIDE DEF Late
<1>5. \E k \in 0..CooldownMax : BackoffBase * 2^k >= CooldownMax
                              /\ \A m \in 0..(k - 1) : BackoffBase * 2^m < CooldownMax
  BY <1>3, <1>4
<1>6. A!Saturated \in 0..CooldownMax  BY <1>5 DEF A!Saturated
<1> QED  BY <1>6, AnthropicAssumption

\* A 429 leaves an entry of the right kind.
LEMMA PauseType ==
  ASSUME NEW entry \in Pausing, NEW header \in Nat
  PROVE  A!After429(entry, header) \in Pausing
<1>1. entry.failures \in Nat /\ entry.failures + 1 \in Nat  BY DEF Pausing
<1>2. A!Min({entry.failures + 1, A!Saturated}) \in Nat  BY <1>1, SaturatedExists, MinOfTwo
<1>3. BackoffBase * 2^entry.failures \in Int  BY <1>1, AnthropicAssumption
<1>4. A!Min({CooldownMax, BackoffBase * 2^entry.failures}) \in Int
  BY <1>3, AnthropicAssumption, MinOfTwo
<1>5. A!Min({CooldownMax, header}) \in Nat  BY AnthropicAssumption, MinOfTwo
<1>6. A!CooldownDuration(entry.failures, header) \in Nat
  <2>1. \A a \in Int, b \in Nat : A!Max({a, b}) \in Nat  BY MaxOfTwo
  <2> QED  BY <1>4, <1>5, <2>1 DEF A!CooldownDuration
<1> QED  BY <1>2, <1>6 DEF A!After429, Pausing

\* Time leaves an entry of the right kind, which has less of its pause left.
LEMMA ElapsedType ==
  ASSUME NEW entry \in Pausing
  PROVE  /\ A!Elapsed(entry) \in Pausing /\ A!Elapsed(entry).failures = entry.failures
         /\ A!Elapsed(entry).left = IF entry.left = 0 THEN 0 ELSE entry.left - 1
<1>1. entry.left \in Nat /\ entry.left - 1 \in Int  BY DEF Pausing
<1>2. A!Max({0, entry.left - 1}) = IF entry.left = 0 THEN 0 ELSE entry.left - 1  BY <1>1, MaxOfTwo
<1> QED  BY <1>1, <1>2 DEF A!Elapsed, Pausing

\* At first there is no request and no pause.
LEMMA AnthropicStarts == A!AnthropicInit => AnthropicIInv
<1> SUFFICES ASSUME A!AnthropicInit PROVE AnthropicIInv
  OBVIOUS
<1>1. AnthropicTypes  BY DEF A!AnthropicInit, AnthropicTypes, Pausing, A!NoCooldown, Before
<1>2. OneRequest  BY DEF A!AnthropicInit, OneRequest, Before, Sharing
<1>3. \A t \in Token : Noted(t)  BY DEF A!AnthropicInit, Noted, A!NoCooldown
<1>4. A!QuotaOfOwnToken  BY DEF A!AnthropicInit, A!QuotaOfOwnToken
<1> QED  BY <1>1, <1>2, <1>3, <1>4 DEF AnthropicIInv

\* A call that has no request goes on, or ends with a failure or quota of the CLI.
LEMMA StepBefore ==
  ASSUME AnthropicIInv, NEW c \in Call, step[c] \in Before,
         UNCHANGED <<cooldown, inFlight, anthropicAsked, limit>>,
         anthropicToken' = anthropicToken \/ \E t \in Token : anthropicToken' = [anthropicToken EXCEPT ![c] = t],
         \/ UNCHANGED anthropicResult /\ \E to \in {"keychain", "file"} : step' = [step EXCEPT ![c] = to]
         \/ \E r : r.of = None /\ A!Finish(c, r)
  PROVE  AnthropicIInv'
<1> USE DEF AnthropicIInv
<1>1. PICK to \in Before : step' = [step EXCEPT ![c] = to]  BY DEF A!Finish, Before
<1>2. /\ step \in [Call -> Before \cup Sharing \cup {"joined"}] /\ step[c] \notin Sharing \cup {"joined"}
      /\ to \notin Sharing \cup {"joined"}
  BY DEF AnthropicTypes, Before, Sharing
<1>3. AnthropicTypes'
  <2>1. DOMAIN anthropicResult' = Call  BY DEF AnthropicTypes, A!Finish
  <2> QED  BY <1>1, <1>2, <2>1 DEF AnthropicTypes
<1>4. \A d \in Call : d # c => step'[d] = step[d] /\ anthropicToken'[d] = anthropicToken[d]
  BY <1>1 DEF AnthropicTypes
<1>5. step'[c] = to  BY <1>1, <1>2
<1>6. OneRequest'
  BY <1>2, <1>4, <1>5 DEF OneRequest, AnthropicTypes
<1>7. \A t \in Token : Noted(t)'
  <2> SUFFICES ASSUME NEW t \in Token PROVE Noted(t)'
    OBVIOUS
  <2>1. inFlight[t] # None => inFlight[t] \in Call /\ inFlight[t] # c
    BY <1>2 DEF OneRequest, AnthropicTypes
  <2> QED  BY <1>4, <2>1 DEF Noted
<1>8. A!QuotaOfOwnToken'
  <2> SUFFICES ASSUME NEW d \in Call, step'[d] = "idle", anthropicResult'[d].of # None
               PROVE  anthropicResult'[d].of = anthropicToken'[d]
    BY DEF A!QuotaOfOwnToken
  <2>1. d # c  BY <1>1, <1>5 DEF A!Finish, AnthropicTypes
  <2> QED  BY <1>4, <2>1 DEF A!QuotaOfOwnToken, A!Finish, AnthropicTypes
<1> QED  BY <1>3, <1>6, <1>7, <1>8

\* What a call does in its own steps.
LEMMA StepQuery ==
  ASSUME AnthropicIInv, NEW c \in Call, step[c] \in Before, NEW t \in Token, A!Query(c, t),
         UNCHANGED <<cooldown, anthropicAsked, limit>>
  PROVE  AnthropicIInv'
<1> USE DEF AnthropicIInv
<1>1. CASE cooldown[t].left > 0
  <2>1. A!Finish(c, A!Failure) /\ UNCHANGED inFlight /\ anthropicToken' = [anthropicToken EXCEPT ![c] = t]
    BY <1>1 DEF A!Query
  <2>2. A!Failure.of = None  BY DEF A!Failure
  <2> QED  BY <2>1, <2>2, StepBefore
<1>2. CASE ~(cooldown[t].left > 0)
  <2>1. PICK to \in {"joined", "requesting"} :
          /\ step' = [step EXCEPT ![c] = to]
          /\ anthropicToken' = [anthropicToken EXCEPT ![c] = t]
          /\ UNCHANGED anthropicResult
          /\ to = "joined" => inFlight[t] # None /\ UNCHANGED inFlight
          /\ to = "requesting" => inFlight[t] = None /\ inFlight' = [inFlight EXCEPT ![t] = c]
    BY <1>2 DEF A!Query
  <2>2. /\ step[c] \notin Sharing \cup {"joined"} /\ to \notin Before
        /\ step' \in [Call -> Before \cup Sharing \cup {"joined"}] /\ step'[c] = to
        /\ anthropicToken'[c] = t /\ c # None
        /\ \A d \in Call : d # c => step'[d] = step[d] /\ anthropicToken'[d] = anthropicToken[d]
    BY <2>1, AnthropicAssumption DEF AnthropicTypes, Before, Sharing
  <2>3. AnthropicTypes'  BY <2>1, <2>2 DEF AnthropicTypes
  <2>4. \A u \in Token : u # t => inFlight'[u] = inFlight[u]  BY <2>1 DEF AnthropicTypes
  <2>5. \A u \in Token : inFlight[u] # None => inFlight[u] # c /\ inFlight'[u] = inFlight[u]
    BY <2>1, <2>2, <2>4 DEF OneRequest
  <2>6. OneRequest'
    <3>1. to = "requesting" => inFlight'[t] = c  BY <2>1 DEF AnthropicTypes
    <3>2. \A d \in Call : d # c /\ step[d] \notin Before => inFlight[anthropicToken[d]] # None
      BY AnthropicAssumption DEF OneRequest, AnthropicTypes
    <3>3. \A d \in Call : step'[d] \notin Before => anthropicToken'[d] \in Token
      BY <2>2 DEF OneRequest
    <3>4. \A d \in Call : step'[d] = "joined" => inFlight'[anthropicToken'[d]] # None
      <4> SUFFICES ASSUME NEW d \in Call, step'[d] = "joined" PROVE inFlight'[anthropicToken'[d]] # None
        OBVIOUS
      <4>1. CASE d = c  BY <2>1, <2>2, <4>1
      <4>2. CASE d # c  BY <2>2, <2>5, <4>2 DEF OneRequest, Before
      <4> QED  BY <4>1, <4>2
    <3>5. \A d \in Call : step'[d] \in Sharing => inFlight'[anthropicToken'[d]] = d
      <4> SUFFICES ASSUME NEW d \in Call, step'[d] \in Sharing PROVE inFlight'[anthropicToken'[d]] = d
        OBVIOUS
      <4>1. CASE d = c  BY <2>1, <2>2, <3>1, <4>1 DEF Sharing
      <4>2. CASE d # c
        <5>1. step[d] \notin Before  BY <2>2, <4>2 DEF Before, Sharing
        <5> QED  BY <2>2, <2>5, <3>2, <4>2, <5>1 DEF OneRequest
      <4> QED  BY <4>1, <4>2
    <3>6. \A u \in Token : inFlight'[u] # None => step'[inFlight'[u]] \in Sharing /\ anthropicToken'[inFlight'[u]] = u
      <4> SUFFICES ASSUME NEW u \in Token, inFlight'[u] # None
                   PROVE  step'[inFlight'[u]] \in Sharing /\ anthropicToken'[inFlight'[u]] = u
        OBVIOUS
      <4>1. CASE inFlight[u] = None  BY <2>1, <2>2, <2>4, <3>1, <4>1 DEF Sharing
      <4>2. CASE inFlight[u] # None  BY <2>2, <2>5, <4>2 DEF OneRequest, AnthropicTypes
      <4> QED  BY <4>1, <4>2
    <3> QED  BY <3>3, <3>4, <3>5, <3>6 DEF OneRequest
  <2>7. \A u \in Token : Noted(u)'
    <3> SUFFICES ASSUME NEW u \in Token PROVE Noted(u)'
      OBVIOUS
    <3>1. CASE inFlight[u] = None
      <4>1. limit[u].failures = cooldown[u].failures /\ limit[u].left <= cooldown[u].left
        BY <3>1 DEF Noted
      <4>2. inFlight'[u] = None \/ step'[inFlight'[u]] # "denied"
        BY <2>1, <2>2, <2>4, <3>1 DEF AnthropicTypes
      <4> QED  BY <4>1, <4>2 DEF Noted
    <3>2. CASE inFlight[u] # None
      <4>1. inFlight'[u] = inFlight[u] /\ inFlight[u] \in Call /\ step'[inFlight[u]] = step[inFlight[u]]
        BY <2>2, <2>5, <3>2 DEF AnthropicTypes
      <4> QED  BY <4>1 DEF Noted
    <3> QED  BY <3>1, <3>2
  <2>8. A!QuotaOfOwnToken'
    BY <2>1, <2>2 DEF A!QuotaOfOwnToken, Before
  <2> QED  BY <2>3, <2>6, <2>7, <2>8
<1> QED  BY <1>1, <1>2

\* The request of a call settles: nothing waits for its token any more.
LEMMA StepSettle ==
  ASSUME AnthropicIInv, NEW c \in Call, step[c] \in Sharing, NEW r, A!Settle(c, r),
         r.of \in {None, anthropicToken[c]},
         UNCHANGED <<anthropicToken, limit>>,
         \/ step[c] # "denied" /\ UNCHANGED <<cooldown, anthropicAsked>>
         \/ /\ step[c] = "denied"
            /\ cooldown' = [cooldown EXCEPT ![anthropicToken[c]] = A!After429(@, anthropicAsked[c])]
            /\ anthropicAsked' = [anthropicAsked EXCEPT ![c] = 0]
  PROVE  AnthropicIInv'
<1> USE DEF AnthropicIInv
<1> DEFINE t == anthropicToken[c]
           waiting == {d \in Call : step[d] = "joined" /\ anthropicToken[d] = anthropicToken[c]} \cup {c}
<1>1. /\ inFlight' = [inFlight EXCEPT ![t] = None]
      /\ step' = [d \in Call |-> IF d \in waiting THEN "idle" ELSE step[d]]
      /\ anthropicResult' = [d \in Call |-> IF d \in waiting THEN r ELSE anthropicResult[d]]
  BY DEF A!Settle
<1>2. t \in Token /\ inFlight[t] = c /\ \A d \in waiting : d \in Call /\ anthropicToken[d] = t
  BY DEF OneRequest, Before, Sharing
<1>3. \A d \in Call : anthropicToken[d] = t => step'[d] \in Before
  BY <1>1, <1>2 DEF OneRequest, AnthropicTypes, Before
<1>4. \A d \in Call : anthropicToken[d] # t => step'[d] = step[d] /\ anthropicResult'[d] = anthropicResult[d]
  BY <1>1, <1>2
<1>5. \A d \in Call : anthropicToken[d] = t => step'[d] = "idle" \/ step'[d] = step[d]
  BY <1>1
<1> HIDE DEF waiting, t
<1>6. \A u \in Token : u # t => inFlight'[u] = inFlight[u]  BY <1>1 DEF AnthropicTypes
<1>7. inFlight'[t] = None  BY <1>1, <1>2 DEF AnthropicTypes
<1>8. AnthropicTypes'
  <2>1. cooldown' \in [Token -> Pausing] /\ anthropicAsked' \in [Call -> Nat]
    <3>1. A!After429(cooldown[t], anthropicAsked[c]) \in Pausing
      BY <1>2, PauseType DEF AnthropicTypes
    <3> QED  BY <1>2, <3>1 DEF AnthropicTypes, t
  <2>2. step' \in [Call -> Before \cup Sharing \cup {"joined"}]
    BY <1>1 DEF AnthropicTypes, Before
  <2> QED  BY <1>1, <2>1, <2>2 DEF AnthropicTypes
<1>9. OneRequest'
  BY <1>2, <1>3, <1>4, <1>6, <1>7 DEF OneRequest, AnthropicTypes, Before, Sharing
<1>10. \A u \in Token : Noted(u)'
  <2> SUFFICES ASSUME NEW u \in Token PROVE Noted(u)'
    OBVIOUS
  <2>1. CASE u = t
    <3>1. limit[t].failures = cooldown'[t].failures /\ limit[t].left <= cooldown'[t].left
      BY <1>2, AnthropicAssumption DEF Noted, AnthropicTypes, t
    <3> QED  BY <1>7, <2>1, <3>1 DEF Noted
  <2>2. CASE u # t
    <3>1. cooldown'[u] = cooldown[u]  BY <2>2 DEF AnthropicTypes, t
    <3>2. inFlight[u] # None => /\ inFlight[u] \in Call /\ inFlight[u] # c
                                /\ step'[inFlight[u]] = step[inFlight[u]]
      BY <1>2, <1>4, <2>2 DEF OneRequest, AnthropicTypes
    <3>3. inFlight[u] # None => anthropicAsked'[inFlight[u]] = anthropicAsked[inFlight[u]]
      BY <3>2 DEF AnthropicTypes
    <3> QED  BY <1>6, <2>2, <3>1, <3>2, <3>3 DEF Noted
  <2> QED  BY <2>1, <2>2
<1>11. A!QuotaOfOwnToken'
  <2> SUFFICES ASSUME NEW d \in Call, step'[d] = "idle", anthropicResult'[d].of # None
               PROVE  anthropicResult'[d].of = anthropicToken[d]
    BY DEF A!QuotaOfOwnToken
  <2>1. CASE d \in waiting  BY <1>1, <1>2, <2>1 DEF t
  <2>2. CASE d \notin waiting  BY <1>1, <2>2 DEF A!QuotaOfOwnToken
  <2> QED  BY <2>1, <2>2
<1> QED  BY <1>8, <1>9, <1>10, <1>11

\* Every step keeps the invariant of Anthropic.
LEMMA AnthropicStep == ASSUME AnthropicIInv, [A!AnthropicNext]_anthropicVars PROVE AnthropicIInv'
<1>1. ASSUME NEW c \in Call, A!Probe(c) PROVE AnthropicIInv'
  <2>1. step[c] \in Before  BY <1>1 DEF A!Probe, Before
  <2>2. A!Failure.of = None /\ \A q : A!Success(q, None).of = None  BY DEF A!Failure, A!Success
  <2>3. \/ UNCHANGED anthropicResult /\ \E to \in {"keychain", "file"} : step' = [step EXCEPT ![c] = to]
        \/ \E r : r.of = None /\ A!Finish(c, r)
    BY <1>1, <2>2 DEF A!Probe
  <2> QED  BY <1>1, <2>1, <2>3, StepBefore DEF A!Probe
<1>2. ASSUME NEW c \in Call, A!ReadKeychain(c) PROVE AnthropicIInv'
  <2>1. step[c] \in Before  BY <1>2 DEF A!ReadKeychain, Before
  <2>2. CASE \E t \in Token : A!Query(c, t)
    BY <1>2, <2>1, <2>2, StepQuery DEF A!ReadKeychain
  <2>3. CASE step' = [step EXCEPT ![c] = "file"] /\ UNCHANGED <<anthropicToken, anthropicResult, inFlight>>
    BY <1>2, <2>1, <2>3, StepBefore DEF A!ReadKeychain
  <2> QED  BY <1>2, <2>2, <2>3 DEF A!ReadKeychain
<1>3. ASSUME NEW c \in Call, A!ReadCredentialsFile(c) PROVE AnthropicIInv'
  <2>1. step[c] \in Before  BY <1>3 DEF A!ReadCredentialsFile, Before
  <2>2. CASE \E t \in Token : A!Query(c, t)
    BY <1>3, <2>1, <2>2, StepQuery DEF A!ReadCredentialsFile
  <2>3. CASE A!Finish(c, A!Failure) /\ UNCHANGED <<anthropicToken, inFlight>>
    <3>1. A!Failure.of = None  BY DEF A!Failure
    <3> QED  BY <1>3, <2>1, <2>3, <3>1, StepBefore DEF A!ReadCredentialsFile
  <2> QED  BY <1>3, <2>2, <2>3 DEF A!ReadCredentialsFile
<1>4. ASSUME NEW c \in Call, A!RequestFails(c) \/ A!Pause(c) \/ A!ReadBody(c) PROVE AnthropicIInv'
  <2>1. step[c] \in Sharing  BY <1>4 DEF A!RequestFails, A!Pause, A!ReadBody, Sharing
  <2>2. A!Failure.of = None /\ \A q : A!Success(q, anthropicToken[c]).of = anthropicToken[c]
    BY DEF A!Failure, A!Success
  <2>3. \E r : r.of \in {None, anthropicToken[c]} /\ A!Settle(c, r)
    BY <1>4, <2>2 DEF A!RequestFails, A!Pause, A!ReadBody
  <2>4. \/ step[c] # "denied" /\ UNCHANGED <<cooldown, anthropicAsked>>
        \/ /\ step[c] = "denied"
           /\ cooldown' = [cooldown EXCEPT ![anthropicToken[c]] = A!After429(@, anthropicAsked[c])]
           /\ anthropicAsked' = [anthropicAsked EXCEPT ![c] = 0]
    BY <1>4 DEF A!RequestFails, A!Pause, A!ReadBody
  <2>5. UNCHANGED <<anthropicToken, limit>>  BY <1>4 DEF A!RequestFails, A!Pause, A!ReadBody
  <2> QED  BY <2>1, <2>3, <2>4, <2>5, StepSettle
<1>5. ASSUME NEW c \in Call, A!Denied(c) PROVE AnthropicIInv'
  <2> USE DEF AnthropicIInv
  <2>0. PICK t \in Token : t = anthropicToken[c]
    BY <1>5 DEF A!Denied, OneRequest, Before
  <2>1. PICK header \in Nat :
          /\ limit' = [limit EXCEPT ![t] = A!After429(@, header)]
          /\ anthropicAsked' = [anthropicAsked EXCEPT ![c] = header]
    BY <1>5, <2>0, AnthropicAssumption DEF A!Denied
  <2>2. /\ step[c] = "requesting" /\ step' = [step EXCEPT ![c] = "denied"]
        /\ UNCHANGED <<cooldown, inFlight, anthropicToken, anthropicResult>>
    BY <1>5 DEF A!Denied
  <2>3. t \in Token /\ inFlight[t] = c /\ c # None
    BY <2>0, <2>2, AnthropicAssumption DEF OneRequest, Before, Sharing
  <2>4. cooldown[t] \in Pausing /\ A!After429(cooldown[t], header) \in Pausing
        /\ limit[t] \in Pausing /\ A!After429(limit[t], header) \in Pausing
    BY <2>3, PauseType DEF AnthropicTypes
  <2>5. /\ step' \in [Call -> Before \cup Sharing \cup {"joined"}] /\ step'[c] = "denied"
        /\ \A d \in Call : d # c => step'[d] = step[d] /\ anthropicAsked'[d] = anthropicAsked[d]
    BY <2>1, <2>2 DEF AnthropicTypes, Sharing
  <2>6. AnthropicTypes'
    BY <2>1, <2>2, <2>3, <2>4, <2>5 DEF AnthropicTypes
  <2>7. OneRequest'
    BY <2>2, <2>3, <2>5 DEF OneRequest, Sharing, Before
  <2>8. Noted(t)'
    <3>1. limit[t].failures = cooldown[t].failures  BY <2>2, <2>3 DEF Noted
    <3>2. limit'[t] = A!After429(limit[t], header)  BY <2>1, <2>3 DEF AnthropicTypes
    <3>3. A!After429(limit[t], header) = A!After429(cooldown[t], header)  BY <3>1 DEF A!After429
    <3>4. anthropicAsked'[c] = header  BY <2>1 DEF AnthropicTypes
    <3>5. A!After429(cooldown[t], header).left <= A!After429(cooldown[t], header).left
      BY <2>4 DEF Pausing
    <3> QED  BY <2>2, <2>3, <2>5, <3>2, <3>3, <3>4, <3>5 DEF Noted
  <2>9. \A u \in Token : u # t => Noted(u)'
    <3> SUFFICES ASSUME NEW u \in Token, u # t PROVE Noted(u)'
      OBVIOUS
    <3>1. limit'[u] = limit[u] /\ Noted(u)  BY <2>1 DEF AnthropicTypes
    <3>2. inFlight[u] # None => inFlight[u] \in Call /\ inFlight[u] # c
      BY <2>3 DEF OneRequest, AnthropicTypes
    <3> QED  BY <2>2, <2>5, <3>1, <3>2 DEF Noted
  <2>10. A!QuotaOfOwnToken'
    BY <2>2, <2>5 DEF A!QuotaOfOwnToken
  <2> QED  BY <2>6, <2>7, <2>8, <2>9, <2>10
<1>6. ASSUME NEW c \in Call, A!Answered(c) PROVE AnthropicIInv'
  <2> USE DEF AnthropicIInv
  <2>0. PICK t \in Token : t = anthropicToken[c]
    BY <1>6 DEF A!Answered, OneRequest, Before
  <2>1. /\ step[c] = "requesting" /\ step' = [step EXCEPT ![c] = "reading"]
        /\ cooldown' = [cooldown EXCEPT ![t] = A!NoCooldown] /\ limit' = [limit EXCEPT ![t] = A!NoCooldown]
        /\ UNCHANGED <<inFlight, anthropicToken, anthropicAsked, anthropicResult>>
    BY <1>6, <2>0 DEF A!Answered
  <2>2. t \in Token /\ inFlight[t] = c /\ c # None /\ A!NoCooldown \in Pausing
    BY <2>0, <2>1, AnthropicAssumption DEF OneRequest, Before, Sharing, A!NoCooldown, Pausing
  <2>3. /\ step' \in [Call -> Before \cup Sharing \cup {"joined"}] /\ step'[c] = "reading"
        /\ \A d \in Call : d # c => step'[d] = step[d]
    BY <2>1 DEF AnthropicTypes, Sharing
  <2>4. AnthropicTypes'
    BY <2>1, <2>2, <2>3 DEF AnthropicTypes
  <2>5. OneRequest'
    BY <2>1, <2>2, <2>3 DEF OneRequest, Sharing, Before
  <2>6. Noted(t)'
    BY <2>1, <2>2, <2>3 DEF Noted, AnthropicTypes, A!NoCooldown
  <2>7. \A u \in Token : u # t => Noted(u)'
    <3> SUFFICES ASSUME NEW u \in Token, u # t PROVE Noted(u)'
      OBVIOUS
    <3>1. limit'[u] = limit[u] /\ cooldown'[u] = cooldown[u] /\ Noted(u)  BY <2>1 DEF AnthropicTypes
    <3>2. inFlight[u] # None => inFlight[u] \in Call /\ inFlight[u] # c
      BY <2>2 DEF OneRequest, AnthropicTypes
    <3> QED  BY <2>1, <2>3, <3>1, <3>2 DEF Noted
  <2>8. A!QuotaOfOwnToken'
    BY <2>1, <2>3 DEF A!QuotaOfOwnToken
  <2> QED  BY <2>4, <2>5, <2>6, <2>7, <2>8
<1>7. CASE A!Elapse
  <2> USE DEF AnthropicIInv
  <2>1. /\ UNCHANGED <<inFlight, step, anthropicToken, anthropicAsked, anthropicResult>>
        /\ \A t \in Token : cooldown'[t] = A!Elapsed(cooldown[t]) /\ limit'[t] = A!Elapsed(limit[t])
    BY <1>7 DEF A!Elapse
  <2>2. AnthropicTypes'
    BY <1>7, ElapsedType DEF AnthropicTypes, A!Elapse
  <2>3. ASSUME NEW t \in Token PROVE Noted(t)'
    <3>1. /\ cooldown'[t].failures = cooldown[t].failures /\ limit'[t].failures = limit[t].failures
          /\ limit'[t].left = IF limit[t].left = 0 THEN 0 ELSE limit[t].left - 1
          /\ cooldown'[t].left = IF cooldown[t].left = 0 THEN 0 ELSE cooldown[t].left - 1
          /\ cooldown[t] \in Pausing /\ limit[t] \in Pausing
      BY <2>1, ElapsedType DEF AnthropicTypes
    <3>2. CASE inFlight[t] # None /\ step[inFlight[t]] = "denied"
      <4> DEFINE asks == anthropicAsked[inFlight[t]]
      <4>1. A!After429(cooldown'[t], asks) = A!After429(cooldown[t], asks)  BY <3>1 DEF A!After429
      <4>2. A!After429(cooldown[t], asks) \in Pausing
        BY <3>1, <3>2, PauseType DEF AnthropicTypes
      <4>3. /\ limit[t].failures = A!After429(cooldown[t], asks).failures
            /\ limit[t].left <= A!After429(cooldown[t], asks).left
        BY <3>2 DEF Noted
      <4>4. limit'[t].left <= A!After429(cooldown[t], asks).left
        BY <3>1, <4>2, <4>3 DEF Pausing
      <4> QED  BY <2>1, <3>1, <3>2, <4>1, <4>3, <4>4 DEF Noted
    <3>3. CASE ~(inFlight[t] # None /\ step[inFlight[t]] = "denied")
      <4>1. limit[t].failures = cooldown[t].failures /\ limit[t].left <= cooldown[t].left
        BY <3>3 DEF Noted
      <4>2. limit'[t].left <= cooldown'[t].left  BY <3>1, <4>1 DEF Pausing
      <4> QED  BY <2>1, <3>1, <3>3, <4>1, <4>2 DEF Noted
    <3> QED  BY <3>2, <3>3
  <2>4. OneRequest' /\ A!QuotaOfOwnToken'
    BY <2>1 DEF OneRequest, A!QuotaOfOwnToken
  <2> QED  BY <2>2, <2>3, <2>4
<1>8. CASE UNCHANGED anthropicVars
  BY <1>8 DEF anthropicVars, AnthropicIInv, AnthropicTypes, OneRequest, Noted, A!QuotaOfOwnToken
<1> QED
  BY <1>1, <1>2, <1>3, <1>4, <1>5, <1>6, <1>7, <1>8 DEF A!AnthropicNext, A!CallStep

\* Only the query of a token that is not paused, and not asked for, begins a request.
LEMMA AnthropicAsks == ASSUME AnthropicIInv, A!AnthropicNext PROVE A!AsksInTurn
<1> USE DEF AnthropicIInv
<1> SUFFICES ASSUME NEW c \in Call, step[c] # "requesting", step'[c] = "requesting"
             PROVE  /\ limit[anthropicToken'[c]].left = 0
                    /\ \A d \in Call :
                         anthropicToken[d] = anthropicToken'[c] => step[d] \in {"idle", "keychain", "file"}
  BY DEF A!AsksInTurn, A!Requesting
<1>1. \E d \in Call, t \in Token : A!Query(d, t)
  <2>1. ~A!Elapse  BY DEF A!Elapse
  <2>2. ASSUME NEW d \in Call PROVE ~A!Probe(d) /\ ~A!Denied(d) /\ ~A!Answered(d)
    BY DEF A!Probe, A!Denied, A!Answered, A!Finish, AnthropicTypes
  <2>3. ASSUME NEW d \in Call PROVE ~A!RequestFails(d) /\ ~A!Pause(d) /\ ~A!ReadBody(d)
    BY DEF A!RequestFails, A!Pause, A!ReadBody, A!Settle
  <2>4. ASSUME NEW d \in Call, A!ReadKeychain(d) PROVE \E t \in Token : A!Query(d, t)
    BY <2>4 DEF A!ReadKeychain, AnthropicTypes
  <2>5. ASSUME NEW d \in Call, A!ReadCredentialsFile(d) PROVE \E t \in Token : A!Query(d, t)
    BY <2>5 DEF A!ReadCredentialsFile, A!Finish, AnthropicTypes
  <2> QED  BY <2>1, <2>2, <2>3, <2>4, <2>5 DEF A!AnthropicNext, A!CallStep
<1>2. PICK d \in Call, t \in Token : A!Query(d, t)  BY <1>1
<1>3. /\ d = c /\ ~(cooldown[t].left > 0) /\ inFlight[t] = None
      /\ anthropicToken' = [anthropicToken EXCEPT ![c] = t]
  BY <1>2 DEF A!Query, A!Finish, AnthropicTypes
<1>4. anthropicToken'[c] = t  BY <1>3 DEF AnthropicTypes
<1>5. limit[t].left = 0
  <2>1. limit[t].left <= cooldown[t].left  BY <1>3 DEF Noted
  <2> QED  BY <1>3, <2>1 DEF AnthropicTypes, Pausing
<1>6. \A e \in Call : anthropicToken[e] = t => step[e] \in Before
  BY <1>3, AnthropicAssumption DEF OneRequest, AnthropicTypes
<1> QED  BY <1>4, <1>5, <1>6 DEF Before

------------------------------------------------------------------------------
(* Copilot: a query follows its plan, and the plan is what is foretold.     *)

\* A query that has decided nothing has no plan; one that goes on has a plan, and asks
\* for the name of the user only where it has none.
CopilotIInv ==
  /\ copilotStage \in {"idle", "preparing", "unscoped", "reading"} => plan = C!NoPlan
  /\ copilotStage \in {"prepared", "username", "usage", "budgets", "internal"} => plan.by \in {"pat", "oauth"}
  /\ copilotStage = "username" => plan.target.username = None
  /\ plan = [by |-> plan.by, token |-> plan.token, host |-> plan.host, model |-> plan.model,
             tier |-> plan.tier, target |-> plan.target]

\* The fields of the plans.
LEMMA PlanForms ==
  ASSUME NEW pat, NEW auth, NEW target
  PROVE  /\ C!NoPlan = [by |-> "none", token |-> None, host |-> None, model |-> None, tier |-> None,
                        target |-> C!NoTarget]
         /\ C!PatPlan(pat, target) = [by |-> "pat", token |-> pat.token, host |-> pat.host,
                                      model |-> pat.model, tier |-> pat.tier, target |-> target]
         /\ C!OAuthPlan(auth) = [by |-> "oauth", token |-> auth.access, host |-> auth.host,
                                 model |-> None, tier |-> None, target |-> C!NoTarget]
<1>1. C!NoPlan = [by |-> "none", token |-> None, host |-> None, model |-> None, tier |-> None,
                  target |-> C!NoTarget]
  BY DEF C!NoPlan
<1>2. C!PatPlan(pat, target) = [by |-> "pat", token |-> pat.token, host |-> pat.host,
                                model |-> pat.model, tier |-> pat.tier, target |-> target]
  BY DEF C!PatPlan
<1>3. C!OAuthPlan(auth) = [by |-> "oauth", token |-> auth.access, host |-> auth.host,
                           model |-> None, tier |-> None, target |-> C!NoTarget]
  <2>1. C!OAuthPlan(auth) = [[[C!NoPlan EXCEPT !.by = "oauth"] EXCEPT !.token = auth.access]
                                EXCEPT !.host = auth.host]
    BY DEF C!OAuthPlan
  <2>2. [C!NoPlan EXCEPT !.by = "oauth"] =
                 [by |-> "oauth", token |-> None, host |-> None, model |-> None, tier |-> None,
                  target |-> C!NoTarget]
    BY <1>1
  <2> QED BY <2>1, <2>2
<1> QED  BY <1>1, <1>2, <1>3

\* At first there is no plan.
LEMMA CopilotStarts == C!CopilotInit => CopilotIInv
BY PlanForms DEF C!CopilotInit, CopilotIInv

\* Whether a configuration has a target, and of which scope, is the same in all months.
LEMMA ScopeOfAllMonths ==
  ASSUME NEW c, NEW p, NEW q
  PROVE  /\ C!BillingTarget(c, p).scope = C!BillingTarget(c, q).scope
         /\ C!BillingTarget(c, p) = C!NoTarget <=> C!BillingTarget(c, q) = C!NoTarget
BY DEF C!BillingTarget, C!NoTarget

\* A file of a PAT that can be used has a target.
LEMMA ReadIsValid ==
  ASSUME NEW files, C!ReadPat(files) \notin {C!Absent, C!Unreadable}
  PROVE  C!BillingTarget(C!ReadPat(files), month) # C!NoTarget
<1>1. C!ValidConfig(C!ReadPat(files))  BY DEF C!ReadPat
<1> QED  BY <1>1, ScopeOfAllMonths DEF C!ValidConfig

\* Every step keeps the invariant of Copilot.
LEMMA CopilotStep == ASSUME CopilotIInv, [C!CopilotNext]_copilotVars PROVE CopilotIInv'
<1> USE PlanForms
<1>1. CASE C!Edit  BY <1>1 DEF C!Edit, CopilotIInv
<1>2. CASE C!Prepare  BY <1>2 DEF C!Prepare, C!Freeze, CopilotIInv
<1>3. CASE C!PrepareOAuth  BY <1>3 DEF C!PrepareOAuth, C!Freeze, CopilotIInv
<1>4. CASE C!FetchPrepared  BY <1>4 DEF C!FetchPrepared, C!Launch, C!Request, CopilotIInv
<1>5. CASE C!FetchUnscoped  BY <1>5 DEF C!FetchUnscoped, C!Launch, C!Request, C!Done, CopilotIInv
<1>6. CASE C!FetchUnscopedOAuth  BY <1>6 DEF C!FetchUnscopedOAuth, C!Launch, C!Request, C!Done, CopilotIInv
<1>7. CASE C!RequestFails  BY <1>7 DEF C!RequestFails, C!Done, CopilotIInv
<1>8. CASE C!Username  BY <1>8 DEF C!Username, C!Request, CopilotIInv
<1>9. CASE C!Usage  BY <1>9 DEF C!Usage, C!Request, C!Done, CopilotIInv
<1>10. CASE C!Budgets  BY <1>10 DEF C!Budgets, C!Done, CopilotIInv
<1>11. CASE C!Internal  BY <1>11 DEF C!Internal, C!Done, CopilotIInv
<1>12. CASE UNCHANGED copilotVars  BY <1>12 DEF copilotVars, CopilotIInv
<1> QED
  BY <1>1, <1>2, <1>3, <1>4, <1>5, <1>6, <1>7, <1>8, <1>9, <1>10, <1>11, <1>12 DEF C!CopilotNext

\* A request carries what the plan says.
LEMMA CopilotSends == ASSUME CopilotIInv, C!CopilotNext PROVE C!SentAsPlanned
<1> USE PlanForms
<1>1. CASE UNCHANGED sent
  BY <1>1 DEF C!SentAsPlanned
<1>2. CASE C!FetchPrepared
  <2>1. plan # C!NoPlan  BY <1>2 DEF C!FetchPrepared, CopilotIInv
  <2> QED  BY <1>2, <2>1 DEF C!FetchPrepared, C!Launch, C!Request, C!SentAsPlanned
<1>3. CASE C!FetchUnscoped
  <2>1. plan = C!NoPlan  BY <1>3 DEF C!FetchUnscoped, CopilotIInv
  <2> QED  BY <1>3, <2>1 DEF C!FetchUnscoped, C!Launch, C!Request, C!SentAsPlanned
<1>4. CASE C!FetchUnscopedOAuth
  <2>1. plan = C!NoPlan  BY <1>4 DEF C!FetchUnscopedOAuth, CopilotIInv
  <2> QED  BY <1>4, <2>1 DEF C!FetchUnscopedOAuth, C!Launch, C!Request, C!SentAsPlanned
<1>5. CASE C!Username
  <2>1. plan # C!NoPlan /\ plan.target.username = None  BY <1>5 DEF C!Username, CopilotIInv
  <2>2. /\ plan' = [plan EXCEPT !.target.username = plan.token]
        /\ sent' = sent \cup {[kind |-> "usage", token |-> plan'.token, host |-> plan'.host,
                               target |-> plan'.target]}
    BY <1>5 DEF C!Username, C!Request
  <2>3. /\ plan'.token = plan.token /\ plan'.host = plan.host
        /\ plan'.target = [plan.target EXCEPT !.username = plan.token]
    BY <2>2 DEF CopilotIInv
  <2> QED  BY <2>1, <2>2, <2>3 DEF C!SentAsPlanned
<1>6. CASE C!Usage
  <2>1. plan # C!NoPlan  BY <1>6 DEF C!Usage, CopilotIInv
  <2> QED  BY <1>6, <2>1 DEF C!Usage, C!Request, C!SentAsPlanned
<1> QED
  BY <1>1, <1>2, <1>3, <1>4, <1>5, <1>6
  DEF C!CopilotNext, C!Edit, C!Prepare, C!PrepareOAuth, C!Freeze, C!RequestFails, C!Budgets, C!Internal

\* The diagnostics of a valid configuration, of a damaged one, and without any.
LEMMA DiagnosedPat ==
  ASSUME NEW pat, NEW auth, pat \notin {C!Absent, C!Unreadable}, C!BillingTarget(pat, month) # C!NoTarget
  PROVE  /\ C!Diagnostics(pat, auth, month).api # "internal"
         /\ C!Diagnostics(pat, auth, month).host = pat.host
         /\ C!Diagnostics(pat, auth, month).scope = C!BillingTarget(pat, month).scope
         /\ C!Available(FALSE, pat, auth, month) <=> ~C!Incompatible(C!BillingTarget(pat, month), pat.kind)
BY DEF C!Diagnostics, C!Available

\* A damaged file of a PAT is diagnosed as such.
LEMMA DiagnosedDamaged == ASSUME NEW auth PROVE ~C!Available(FALSE, C!Unreadable, auth, month)
<1>1. C!Absent # C!Unreadable  BY DEF C!Absent, C!Unreadable
<1> QED  BY <1>1 DEF C!Diagnostics, C!Available

\* Without a PAT the tokens of OAuth are diagnosed.
LEMMA DiagnosedOAuth ==
  ASSUME NEW auth
  PROVE  /\ C!Available(FALSE, C!Absent, auth, month) <=> auth # C!Absent /\ ~C!BadHost(auth.host)
         /\ auth # C!Absent /\ ~C!BadHost(auth.host) =>
              /\ C!Diagnostics(C!Absent, auth, month).api = "internal"
              /\ C!Diagnostics(C!Absent, auth, month).host = auth.host
BY DEF C!Diagnostics, C!Available

\* What a query with a billing configuration decides, and one with none.
LEMMA CopilotDecides == ASSUME CopilotIInv, C!CopilotNext PROVE C!Foretold
<1> SUFFICES ASSUME C!Decides PROVE C!GoesAsForetold
  BY DEF C!Foretold
<1> DEFINE pat == C!ReadPat(patFiles)
           auth == C!SelectAuth(authFile)
<1>1. plan = C!NoPlan  BY DEF C!Decides, CopilotIInv
<1>2. CASE C!Prepare \/ C!FetchUnscoped
  <2>1. copilotStage \in {"idle", "unscoped"}  BY <1>2 DEF C!Prepare, C!FetchUnscoped
  <2>2. pat # C!Absent  BY <1>2 DEF C!Prepare, C!FetchUnscoped, C!Decides
  <2>3. CASE pat = C!Unreadable
    <3>1. plan' = C!NoPlan
      BY <1>1, <1>2, <2>2, <2>3 DEF C!Prepare, C!FetchUnscoped, C!Freeze
    <3> QED  BY <2>1, <2>3, <3>1, DiagnosedDamaged DEF C!GoesAsForetold
  <2>4. CASE pat # C!Unreadable
    <3>1. C!PatTarget(pat) # C!NoTarget  BY <2>2, <2>4, ReadIsValid DEF C!PatTarget
    <3>2. CASE C!Incompatible(C!PatTarget(pat), pat.kind)
      <4>1. plan' = C!NoPlan
        BY <1>1, <1>2, <2>2, <3>2 DEF C!Prepare, C!FetchUnscoped, C!Freeze
      <4> QED  BY <2>1, <2>2, <2>4, <3>1, <3>2, <4>1, DiagnosedPat DEF C!GoesAsForetold, C!PatTarget
    <3>3. CASE ~C!Incompatible(C!PatTarget(pat), pat.kind)
      <4>1. plan' = C!PatPlan(pat, C!PatTarget(pat))
        BY <1>2, <2>2, <2>4, <3>3 DEF C!Prepare, C!FetchUnscoped, C!Freeze
      <4>2. plan' # C!NoPlan /\ plan'.host = pat.host /\ plan'.by = "pat" /\ plan'.target = C!PatTarget(pat)
        BY <4>1, PlanForms
      <4>3. /\ C!Diagnostics(pat, auth, month).api # "internal"
            /\ C!Diagnostics(pat, auth, month).host = plan'.host
            /\ C!Diagnostics(pat, auth, month).scope = plan'.target.scope
            /\ C!Available(FALSE, pat, auth, month)
        BY <2>2, <2>4, <3>1, <3>3, <4>2, DiagnosedPat DEF C!PatTarget
      <4> QED  BY <2>1, <4>2, <4>3 DEF C!GoesAsForetold
    <3> QED  BY <3>2, <3>3
  <2> QED  BY <2>3, <2>4
<1>3. CASE C!PrepareOAuth \/ C!FetchUnscopedOAuth
  <2>1. copilotStage \in {"preparing", "reading"}  BY <1>3 DEF C!PrepareOAuth, C!FetchUnscopedOAuth
  <2>2. CASE auth = C!Absent \/ auth.access = None \/ C!BadHost(auth.host)
    <3>1. plan' = C!NoPlan
      BY <1>1, <1>3, <2>2 DEF C!PrepareOAuth, C!FetchUnscopedOAuth, C!Freeze
    <3> QED  BY <2>1, <2>2, <3>1, DiagnosedOAuth DEF C!GoesAsForetold
  <2>3. CASE ~(auth = C!Absent \/ auth.access = None \/ C!BadHost(auth.host))
    <3>1. plan' = C!OAuthPlan(auth)
      BY <1>3, <2>3 DEF C!PrepareOAuth, C!FetchUnscopedOAuth, C!Freeze
    <3>2. plan' # C!NoPlan /\ plan'.host = auth.host /\ plan'.by = "oauth"
      BY <3>1, PlanForms
    <3> QED  BY <2>1, <2>3, <3>2, DiagnosedOAuth DEF C!GoesAsForetold
  <2> QED  BY <2>2, <2>3
<1>4. ~(C!Edit \/ C!FetchPrepared \/ C!RequestFails \/ C!Username \/ C!Usage \/ C!Budgets \/ C!Internal)
  BY DEF C!Decides, C!Edit, C!FetchPrepared, C!RequestFails, C!Username, C!Usage, C!Budgets, C!Internal
<1> QED
  BY <1>2, <1>3, <1>4 DEF C!CopilotNext

\* A result of a request says what kind it is of.
IsResult(r) == "mode" \in DOMAIN r /\ r.mode # "none"

\* Without a request there is nothing to show; what has been read before the budgets is
\* a result, and so is what a query with a request ends with.
RequestIInv ==
  /\ copilotStage \in {"idle", "preparing", "unscoped", "reading", "prepared", "username", "usage", "budgets",
                       "internal", "done"}
  /\ copilotStage \in {"idle", "preparing", "unscoped", "reading", "prepared"} => sent = {}
  /\ copilotStage = "budgets" \/ (copilotStage = "done" /\ sent # {}) => IsResult(copilotResult)

\* At first there is no request.
LEMMA RequestStarts == C!CopilotInit => RequestIInv
BY DEF C!CopilotInit, RequestIInv

\* All that a request may be answered with is a result.
LEMMA ResultsAre ==
  /\ IsResult(C!ErrorResult) /\ IsResult(C!PlanResult)
  /\ \A used, total, percent : IsResult(C!Quota(used, total, percent))
  /\ \A items, tier : IsResult(C!LegacyResult(items, tier))
  /\ \A credits, scope : IsResult(C!AiCreditResult(credits, scope))
  /\ \A s : IsResult(C!InternalUser(s))
<1>1. IsResult(C!ErrorResult) /\ IsResult(C!PlanResult)
  BY DEF IsResult, C!ErrorResult, C!PlanResult, C!NoResult
<1>2. \A used, total, percent : IsResult(C!Quota(used, total, percent))
  <2> SUFFICES ASSUME NEW used, NEW total, NEW percent PROVE IsResult(C!Quota(used, total, percent))
    OBVIOUS
  <2>1. C!Quota(used, total, percent) =
          [[[[C!NoResult EXCEPT !.mode = "user_quota"] EXCEPT !.used = used] EXCEPT !.total = total]
             EXCEPT !.percent = percent]
    BY DEF C!Quota
  <2> QED  BY <2>1 DEF C!NoResult, IsResult
<1>0. \A r : IsResult(r) => IsResult(C!Unlimited(r))
  BY DEF IsResult, C!Unlimited
<1>3. \A items, tier : IsResult(C!LegacyResult(items, tier))
  <2> SUFFICES ASSUME NEW items, NEW tier PROVE IsResult(C!LegacyResult(items, tier))
    OBVIOUS
  <2> DEFINE used == C!LegacyUsage(items)
             total == IF tier = "pro" THEN 300 ELSE 1500
  <2>1. C!LegacyResult(items, tier) = IF used = C!Missing THEN C!ErrorResult
                                      ELSE C!Quota(used, total, C!PercentRemaining(used, total))
    BY DEF C!LegacyResult
  <2> HIDE DEF used, total
  <2> QED  BY <1>1, <1>2, <2>1
<1>4. \A credits, scope : IsResult(C!AiCreditResult(credits, scope))
  <2> SUFFICES ASSUME NEW credits, NEW scope PROVE IsResult(C!AiCreditResult(credits, scope))
    OBVIOUS
  <2>1. CASE credits = C!NoTotals
    BY <1>1, <2>1 DEF C!AiCreditResult
  <2>2. CASE credits # C!NoTotals
    BY <2>2 DEF C!AiCreditResult, C!NoResult, IsResult
  <2> QED  BY <2>1, <2>2
<1>5. \A s : IsResult(C!LegacyInternal(s))
  BY <1>0, <1>1, <1>2 DEF C!LegacyInternal
<1>6. \A s : IsResult(C!InternalUser(s))
  BY <1>0, <1>1, <1>2, <1>5 DEF C!InternalUser
<1> QED  BY <1>1, <1>2, <1>3, <1>4, <1>6

\* Every step of Copilot keeps it.
LEMMA RequestStep == ASSUME RequestIInv, [C!CopilotNext]_copilotVars PROVE RequestIInv'
<1> USE DEF RequestIInv
<1>1. CASE C!Edit  BY <1>1 DEF C!Edit
<1>2. CASE C!Prepare  BY <1>2 DEF C!Prepare, C!Freeze
<1>3. CASE C!PrepareOAuth  BY <1>3 DEF C!PrepareOAuth, C!Freeze
<1>4. CASE C!FetchPrepared  BY <1>4 DEF C!FetchPrepared, C!Launch, C!Request
<1>5. CASE C!FetchUnscoped  BY <1>5 DEF C!FetchUnscoped, C!Launch, C!Request, C!Done
<1>6. CASE C!FetchUnscopedOAuth  BY <1>6 DEF C!FetchUnscopedOAuth, C!Launch, C!Request, C!Done
<1>7. CASE C!RequestFails
  BY <1>7, ResultsAre DEF C!RequestFails, C!Done, IsResult
<1>8. CASE C!Username  BY <1>8 DEF C!Username, C!Request
<1>9. CASE C!Usage  BY <1>9, ResultsAre DEF C!Usage, C!Request, C!Done
<1>10. CASE C!Budgets  BY <1>10 DEF C!Budgets, C!Done, IsResult
<1>11. CASE C!Internal  BY <1>11, ResultsAre DEF C!Internal, C!Done
<1>12. CASE UNCHANGED copilotVars  BY <1>12 DEF copilotVars
<1> QED
  BY <1>1, <1>2, <1>3, <1>4, <1>5, <1>6, <1>7, <1>8, <1>9, <1>10, <1>11, <1>12 DEF C!CopilotNext

\* What is a result has a row or an error.
LEMMA RequestImplies == RequestIInv => C!RequestIsAnswered
<1> SUFFICES ASSUME IsResult(copilotResult) PROVE C!Rows(copilotResult) # <<>> \/ C!ShowsError(copilotResult)
  BY DEF RequestIInv, C!RequestIsAnswered
<1>1. \A first : <<first>> \o <<>> # <<>> /\ \A second : <<first>> \o <<second>> # <<>>
  OBVIOUS
<1> QED  BY <1>1 DEF IsResult, C!Rows, C!ShowsError

------------------------------------------------------------------------------
(* Google: copies of the file of tokens are honest, tokens are the own ones.*)

Honest(cache) == \A k \in DOMAIN cache : cache[k].of = k.refresh
OwnTokens(i) == {G!List[i].refresh, G!List[i].access.of}

Steps == {"waiting", "lookup", "refresh", "again", "store", "store again", "write", "write again",
          "ask", "ask again", "done"}

GoogleTypes ==
  /\ clock \in Nat /\ job \in {"quota", "tokens"}
  /\ DOMAIN pc = G!Asked(setup) /\ DOMAIN token = G!Asked(setup) /\ DOMAIN got = G!Asked(setup)
  /\ \A i \in DOMAIN pc : pc[i] \in Steps

\* All copies of the file of tokens are honest, the ones on their way to it, too.
HonestCopies ==
  /\ mem # Unloaded => Honest(mem)
  /\ disk # Torn => Honest(disk)
  /\ \A i \in DOMAIN writing :
       "data" \in DOMAIN writing[i] /\ Honest(writing[i].data)
  /\ \A i \in DOMAIN pc : pc[i] \in {"write", "write again"} => i \in DOMAIN writing

\* A token in use is the account's: a new one of its refresh token.
OwnTokensOnly ==
  \A i \in DOMAIN pc :
    /\ pc[i] \in {"store", "store again"} => token[i].of = G!List[i].refresh
    /\ pc[i] \in {"write", "write again", "ask", "ask again", "again"} => token[i].of \in OwnTokens(i)

\* An account that is done has something to show, and a query that is, for each.
Outcomes ==
  /\ \A i \in DOMAIN pc :
       /\ pc[i] = "done" /\ job = "quota" => got[i].status \in {"ok", "error"}
       /\ got[i].status = "ok" => got[i].of \in OwnTokens(i)
  /\ googleResult # G!NoneYet => \A i \in DOMAIN pc : pc[i] = "done"
  /\ googleResult = G!NoneYet \/ googleResult.status = "success" => G!Asked(setup) = DOMAIN G!List
  /\ googleResult.status = "success" => \A i \in DOMAIN pc :
       i \in googleResult.errors \/ (got[i].status = "ok" /\ googleResult.rows[i] = got[i].readings)

GoogleIInv == GoogleTypes /\ HonestCopies /\ OwnTokensOnly /\ Outcomes

\* The invariant says that accounts are kept apart.
LEMMA GoogleImplies == GoogleIInv => G!AccountsKeptApart
BY DEF GoogleIInv, G!AccountsKeptApart, GoogleTypes, HonestCopies, Outcomes, Honest, OwnTokens

\* The key of a cached token has the refresh token of its account.
LEMMA KeyKeepsRefresh == ASSUME NEW a PROVE G!KeyOf(a).refresh = a.refresh
BY DEF G!KeyOf

\* A query that asks no account has its outcome, which is no success.
LEMMA EarlyOutcome ==
  ASSUME NEW s
  PROVE  /\ G!Early(s) # G!NoneYet => G!Asked(s) = {}
         /\ G!Early(s) = G!NoneYet => G!Asked(s) = DOMAIN G!Accounts(s)
         /\ G!Early(s).status # "success"
BY DEF G!Early, G!NoneYet, G!Asked

\* A file stays honest when an honest token is put in it.
LEMMA PutKeepsHonest ==
  ASSUME NEW f, NEW k, NEW v, Honest(f), v.of = k.refresh
  PROVE  Honest(G!Put(f, k, v))
BY DEF Honest, G!Put

\* At first nothing is cached.
LEMMA GoogleStarts == G!GoogleInit => GoogleIInv
<1> SUFFICES ASSUME G!GoogleInit PROVE GoogleIInv
  OBVIOUS
<1> USE DEF G!GoogleInit
<1>1. GoogleTypes  BY DEF GoogleTypes, Steps
<1>2. HonestCopies  BY DEF HonestCopies, Honest
<1>3. OwnTokensOnly  BY DEF OwnTokensOnly
<1>4. Outcomes  BY EarlyOutcome DEF Outcomes, G!NoneYet, G!List
<1> QED  BY <1>1, <1>2, <1>3, <1>4 DEF GoogleIInv

\* A query begins anew with the accounts and the file that there are.
LEMMA StepBegin ==
  ASSUME GoogleIInv, NEW j \in {"quota", "tokens"}, G!Begin(setup, j), clock' = clock,
         mem' = mem \/ mem' = Unloaded,
         disk' \in {disk, Torn} \cup {writing[i].data : i \in DOMAIN writing}
  PROVE  GoogleIInv'
<1> USE DEF G!Begin, GoogleIInv
<1>1. GoogleTypes'  BY DEF GoogleTypes, Steps
<1>2. HonestCopies'
  <2>1. mem' # Unloaded => Honest(mem')
    BY DEF HonestCopies
  <2>3. disk' # Torn => Honest(disk')
    BY DEF HonestCopies
  <2>2. DOMAIN writing' = {} /\ \A i \in DOMAIN pc' : pc'[i] = "waiting"
    OBVIOUS
  <2> QED  BY <2>1, <2>2, <2>3 DEF HonestCopies
<1>3. OwnTokensOnly'  BY DEF OwnTokensOnly
<1>4. Outcomes'  BY EarlyOutcome DEF Outcomes, G!NoneYet, G!List
<1> QED  BY <1>1, <1>2, <1>3, <1>4

\* An account goes on, and no other.
OnlyAccount(i) ==
  /\ UNCHANGED <<setup, job, clock, googleResult>>
  /\ DOMAIN pc' = DOMAIN pc /\ DOMAIN token' = DOMAIN token /\ DOMAIN got' = DOMAIN got
  /\ \A k \in DOMAIN pc \ {i} : pc'[k] = pc[k] /\ token'[k] = token[k] /\ got'[k] = got[k]
  /\ pc[i] # "done" /\ pc'[i] \in Steps

\* ... with a token of its own, towards an outcome with a token of its own.
LEMMA StepAccount ==
  ASSUME GoogleIInv, NEW i \in DOMAIN pc, OnlyAccount(i), HonestCopies',
         pc'[i] \in {"store", "store again"} => token'[i].of = G!List[i].refresh,
         pc'[i] \in {"write", "write again", "ask", "ask again", "again"} => token'[i].of \in OwnTokens(i),
         pc'[i] = "done" /\ job = "quota" => got'[i].status \in {"ok", "error"},
         got'[i].status = "ok" => got'[i].of \in OwnTokens(i)
  PROVE  GoogleIInv'
<1> USE DEF GoogleIInv, OnlyAccount
<1>1. G!List' = G!List /\ googleResult = G!NoneYet /\ \A k : OwnTokens(k)' = OwnTokens(k)
  BY DEF Outcomes, G!List, OwnTokens
<1>2. GoogleTypes'
  BY DEF GoogleTypes
<1>3. OwnTokensOnly'
  <2> SUFFICES ASSUME NEW k \in DOMAIN pc
               PROVE  /\ pc'[k] \in {"store", "store again"} => token'[k].of = G!List[k].refresh
                      /\ pc'[k] \in {"write", "write again", "ask", "ask again", "again"} =>
                           token'[k].of \in OwnTokens(k)
    BY <1>1 DEF OwnTokensOnly
  <2>1. CASE k = i  BY <2>1
  <2>2. CASE k # i  BY <2>2 DEF OwnTokensOnly
  <2> QED  BY <2>1, <2>2
<1>4. Outcomes'
  <2>1. googleResult'.status # "success"  BY <1>1 DEF G!NoneYet
  <2>2. \A k \in DOMAIN pc :
          /\ pc'[k] = "done" /\ job = "quota" => got'[k].status \in {"ok", "error"}
          /\ got'[k].status = "ok" => got'[k].of \in OwnTokens(k)
    BY DEF Outcomes
  <2>3. G!Asked(setup) = DOMAIN G!List  BY <1>1 DEF Outcomes
  <2> QED  BY <1>1, <2>1, <2>2, <2>3 DEF Outcomes
<1> QED  BY <1>2, <1>3, <1>4

\* What EXCEPT does to a function of accounts, for two that go on and one that ends.
Set(f, g, i, v) ==
  DOMAIN g = DOMAIN f /\ g[i] = v /\ \A k \in DOMAIN f \ {i} : g[k] = f[k]

\* What an account that goes on changes.
LEMMA GoesSets ==
  ASSUME GoogleTypes, NEW i \in DOMAIN pc, NEW to, pc' = [pc EXCEPT ![i] = to]
  PROVE  Set(pc, pc', i, to)
BY DEF Set

\* What an account that uses a token changes.
LEMMA UsesSets ==
  ASSUME GoogleTypes, NEW i \in DOMAIN pc, NEW used, token' = [token EXCEPT ![i] = used]
  PROVE  Set(token, token', i, used)
BY DEF Set, GoogleTypes

\* What an account that ends changes.
LEMMA EndsSets ==
  ASSUME GoogleTypes, NEW i \in DOMAIN pc, NEW outcome, G!Ends(i, outcome)
  PROVE  Set(pc, pc', i, "done") /\ Set(got, got', i, outcome)
BY DEF Set, GoogleTypes, G!Ends

\* A failure is no quota.
LEMMA FailureStatus == \A why : G!Failure(why).status = "error"
BY DEF G!Failure

\* A step of one account, seen from all.
LEMMA OnlyOne ==
  ASSUME GoogleTypes, NEW i \in DOMAIN pc, pc[i] # "done", NEW to \in Steps, Set(pc, pc', i, to),
         token' = token \/ \E v : Set(token, token', i, v),
         got' = got \/ \E v : Set(got, got', i, v),
         UNCHANGED <<setup, job, clock, googleResult>>
  PROVE  OnlyAccount(i) /\ pc'[i] = to
BY DEF OnlyAccount, Set, GoogleTypes

\* Every step keeps the invariant of Google.
LEMMA GoogleStep == ASSUME GoogleIInv, [G!GoogleNext]_googleVars PROVE GoogleIInv'
<1> USE DEF GoogleIInv
<1>0. \A i \in DOMAIN pc : i \in DOMAIN token /\ i \in DOMAIN got  BY DEF GoogleTypes
<1>1. ASSUME NEW i \in DOMAIN pc, G!Take(i) PROVE GoogleIInv'
  <2>1. pc[i] = "waiting" /\ UNCHANGED <<setup, job, clock, mem, disk, writing, token, googleResult>>
    BY <1>1 DEF G!Take
  <2>2. \/ Set(pc, pc', i, "done") /\ Set(got, got', i, G!Failure("No projectId"))
        \/ Set(pc, pc', i, "lookup") /\ got' = got
    BY <1>1, EndsSets, GoesSets DEF G!Take
  <2>3. OnlyAccount(i) /\ pc'[i] \in {"done", "lookup"}
    BY <2>1, <2>2, OnlyOne DEF Steps
  <2>4. \/ pc'[i] = "done" /\ got'[i].status = "error"
        \/ pc'[i] = "lookup" /\ got'[i] = got[i]
    BY <2>2, FailureStatus DEF Set
  <2>5. HonestCopies'
    BY <2>1, <2>3 DEF OnlyAccount, HonestCopies
  <2> QED  BY <2>3, <2>4, <2>5, StepAccount DEF Outcomes
<1>2. ASSUME NEW i \in DOMAIN pc, G!LookUp(i) PROVE GoogleIInv'
  <2>1. /\ pc[i] = "lookup" /\ mem # Unloaded
        /\ UNCHANGED <<setup, job, clock, mem, disk, writing, googleResult>>
    BY <1>2 DEF G!LookUp
  <2>2. \E to \in {"ask", "done", "refresh"} : Set(pc, pc', i, to) /\ (to = "done" => job # "quota")
    BY <1>2, GoesSets DEF G!LookUp
  <2>3. token' = token \/ \E v : Set(token, token', i, v)
    BY <1>2, UsesSets DEF G!LookUp
  <2>4. got' = got \/ Set(got, got', i, [status |-> "ready"])
    BY <1>0, <1>2 DEF G!LookUp, Set
  <2>5. OnlyAccount(i) /\ pc'[i] \in {"ask", "done", "refresh"} /\ (pc'[i] = "done" => job # "quota")
    BY <2>1, <2>2, <2>3, <2>4, OnlyOne DEF Steps, Set
  <2>6. pc'[i] = "ask" => token'[i].of \in OwnTokens(i)
    <3>1. CASE G!Lasts(G!Cached(i))
      <4>1. ~G!Lasts(G!NoToken)
        BY GoogleAssumption DEF G!Lasts, G!NoToken, G!Missing, GoogleTypes
      <4>2. G!Cached(i).of = G!List[i].refresh
        BY <2>1, <3>1, <4>1, KeyKeepsRefresh DEF G!Cached, HonestCopies, Honest
      <4> QED  BY <1>0, <1>2, <3>1, <4>2 DEF G!LookUp, OwnTokens
    <3>2. CASE ~G!Lasts(G!Cached(i))
      BY <1>0, <1>2, <3>2 DEF G!LookUp, OwnTokens
    <3> QED  BY <3>1, <3>2
  <2>7. got'[i] = got[i] \/ got'[i].status = "ready"  BY <2>4 DEF Set
  <2>8. HonestCopies'  BY <2>1, <2>5 DEF OnlyAccount, HonestCopies
  <2> QED  BY <2>5, <2>6, <2>7, <2>8, StepAccount DEF Outcomes
<1>3. ASSUME NEW i \in DOMAIN pc, G!Refresh(i) PROVE GoogleIInv'
  <2>1. /\ pc[i] \in {"refresh", "again"}
        /\ UNCHANGED <<setup, job, clock, mem, disk, writing, googleResult>>
    BY <1>3 DEF G!Refresh
  <2>2. \/ token' = token /\ \E why : Set(pc, pc', i, "done") /\ Set(got, got', i, G!Failure(why))
        \/ /\ got' = got /\ \E to \in {"store", "store again"} : Set(pc, pc', i, to)
           /\ \E used : Set(token, token', i, used) /\ used.of = G!List[i].refresh
    <3>1. ASSUME NEW why, G!Ends(i, G!Failure(why)), token' = token
          PROVE  Set(pc, pc', i, "done") /\ Set(got, got', i, G!Failure(why))
      BY <3>1, EndsSets
    <3>2. ASSUME NEW until, token' = [token EXCEPT ![i] = [of |-> G!List[i].refresh, until |-> until]]
          PROVE  \E used : Set(token, token', i, used) /\ used.of = G!List[i].refresh
      <4> DEFINE used == [of |-> G!List[i].refresh, until |-> until]
      <4>1. used.of = G!List[i].refresh  OBVIOUS
      <4>2. token' = [token EXCEPT ![i] = used]  BY <3>2
      <4> HIDE DEF used
      <4>3. Set(token, token', i, used)  BY <4>2, UsesSets
      <4> QED  BY <4>1, <4>3
    <3>3. pc' = [pc EXCEPT ![i] = IF pc[i] = "again" THEN "store again" ELSE "store"]
            => \E to \in {"store", "store again"} : Set(pc, pc', i, to)
      BY GoesSets
    <3> QED  BY <1>3, <3>1, <3>2, <3>3 DEF G!Refresh
  <2>3. OnlyAccount(i) /\ pc'[i] \in {"done", "store", "store again"}
    BY <2>1, <2>2, OnlyOne DEF Steps
  <2>4. \/ pc'[i] = "done" /\ got'[i].status = "error"
        \/ pc'[i] \in {"store", "store again"} /\ token'[i].of = G!List[i].refresh /\ got'[i] = got[i]
    BY <2>2, FailureStatus DEF Set
  <2>5. HonestCopies'  BY <2>1, <2>3 DEF OnlyAccount, HonestCopies
  <2> QED  BY <2>3, <2>4, <2>5, StepAccount DEF Outcomes
<1>4. ASSUME NEW i \in DOMAIN pc, G!EndWrite(i) PROVE GoogleIInv'
  <2>1. /\ pc[i] \in {"write", "write again"} /\ i \in DOMAIN writing
        /\ writing' = G!Drop(writing, i) /\ disk' \in {writing[i].data, Torn, disk}
        /\ UNCHANGED <<setup, job, clock, mem, token, googleResult>>
    BY <1>4 DEF G!EndWrite, HonestCopies
  <2>2. \/ Set(pc, pc', i, "done") /\ Set(got, got', i, G!Failure("EACCES"))
        \/ job = "tokens" /\ Set(pc, pc', i, "done") /\ Set(got, got', i, [status |-> "ready"])
        \/ got' = got /\ \E to \in {"ask", "ask again"} : Set(pc, pc', i, to)
    BY <1>4, EndsSets, GoesSets DEF G!EndWrite
  <2>3. OnlyAccount(i) /\ pc'[i] \in {"done", "ask", "ask again"}
    BY <2>1, <2>2, OnlyOne DEF Steps
  <2>4. \/ pc'[i] = "done" /\ got'[i].status = "error"
        \/ pc'[i] = "done" /\ got'[i].status = "ready" /\ job = "tokens"
        \/ pc'[i] \in {"ask", "ask again"} /\ got'[i] = got[i]
    <3>1. [status |-> "ready"].status = "ready"  OBVIOUS
    <3> QED  BY <2>2, <3>1, FailureStatus DEF Set
  <2>5. HonestCopies'
    BY <2>1, <2>3 DEF OnlyAccount, HonestCopies, G!Drop
  <2>6. token'[i].of \in OwnTokens(i)  BY <2>1 DEF OwnTokensOnly
  <2> QED  BY <2>3, <2>4, <2>5, <2>6, StepAccount DEF Outcomes
<1>5. ASSUME NEW i \in DOMAIN pc, G!Ask(i) PROVE GoogleIInv'
  <2>1. /\ pc[i] \in {"ask", "ask again"}
        /\ UNCHANGED <<setup, job, clock, mem, disk, writing, token, googleResult>>
    BY <1>5 DEF G!Ask
  <2>2. \/ \E readings : /\ Set(pc, pc', i, "done")
                         /\ Set(got, got', i, [status |-> "ok", of |-> token[i].of, readings |-> readings])
        \/ \E why : Set(pc, pc', i, "done") /\ Set(got, got', i, G!Failure(why))
        \/ got' = got /\ Set(pc, pc', i, "again")
    BY <1>5, EndsSets, GoesSets DEF G!Ask
  <2>3. OnlyAccount(i) /\ pc'[i] \in {"done", "again"}
    BY <2>1, <2>2, OnlyOne DEF Steps
  <2>4. \/ pc'[i] = "done" /\ got'[i].status = "ok" /\ got'[i].of = token[i].of
        \/ pc'[i] = "done" /\ got'[i].status = "error"
        \/ pc'[i] = "again" /\ got'[i] = got[i]
    <3>1. CASE \E readings : /\ Set(pc, pc', i, "done")
                             /\ Set(got, got', i, [status |-> "ok", of |-> token[i].of, readings |-> readings])
      BY <3>1 DEF Set
    <3>2. CASE \E why : Set(pc, pc', i, "done") /\ Set(got, got', i, G!Failure(why))
      BY <3>2, FailureStatus DEF Set
    <3>3. CASE got' = got /\ Set(pc, pc', i, "again")
      BY <3>3 DEF Set
    <3> QED  BY <2>2, <3>1, <3>2, <3>3
  <2>5. token[i].of \in OwnTokens(i) /\ token' = token  BY <2>1 DEF OwnTokensOnly
  <2>6. HonestCopies'  BY <2>1, <2>3 DEF OnlyAccount, HonestCopies
  <2> QED  BY <2>3, <2>4, <2>5, <2>6, StepAccount DEF Outcomes
<1>6. ASSUME NEW i \in DOMAIN pc, G!Store(i) PROVE GoogleIInv'
  <2>1. /\ pc[i] \in {"store", "store again"} /\ mem # Unloaded
        /\ mem' = G!Put(mem, G!KeyOf(G!List[i]), token[i])
        /\ writing' = G!Put([j \in DOMAIN writing |-> [writing[j] EXCEPT !.alone = FALSE]], i,
                            [data |-> mem', alone |-> writing = <<>>])
        /\ pc' = [pc EXCEPT ![i] = IF pc[i] = "store" THEN "write" ELSE "write again"]
        /\ UNCHANGED <<setup, job, clock, runs, disk, token, got, googleResult>>
    BY <1>6 DEF G!Store
  <2>2. token[i].of = G!List[i].refresh  BY <2>1 DEF OwnTokensOnly
  <2>3. Honest(mem')  BY <2>1, <2>2, KeyKeepsRefresh, PutKeepsHonest DEF HonestCopies
  <2>4. HonestCopies'
    <3>1. \A j \in DOMAIN writing :
            /\ "data" \in DOMAIN [writing[j] EXCEPT !.alone = FALSE]
            /\ [writing[j] EXCEPT !.alone = FALSE].data = writing[j].data
      BY DEF HonestCopies
    <3>2. \A j \in DOMAIN writing' : "data" \in DOMAIN writing'[j] /\ Honest(writing'[j].data)
      BY <2>1, <2>3, <3>1 DEF HonestCopies, G!Put
    <3>3. \A j \in DOMAIN pc' : pc'[j] \in {"write", "write again"} => j \in DOMAIN writing'
      BY <2>1 DEF HonestCopies, G!Put
    <3> QED  BY <2>1, <2>3, <3>2, <3>3 DEF HonestCopies
  <2>5. GoogleTypes'  BY <2>1 DEF GoogleTypes, Steps
  <2>6. OwnTokensOnly'  BY <2>1, <2>2 DEF OwnTokensOnly, OwnTokens, G!List
  <2>7. Outcomes'  BY <2>1 DEF Outcomes, OwnTokens, G!List
  <2> QED  BY <2>4, <2>5, <2>6, <2>7
<1>7. CASE G!Load
  <2>1. Honest(mem')
    <3>1. Honest(<<>>)  BY DEF Honest
    <3> QED  BY <1>7, <3>1 DEF G!Load, HonestCopies
  <2>2. HonestCopies'  BY <1>7, <2>1 DEF G!Load, HonestCopies
  <2>3. GoogleTypes' /\ OwnTokensOnly' /\ Outcomes'
    BY <1>7 DEF G!Load, GoogleTypes, OwnTokensOnly, Outcomes, OwnTokens, G!List
  <2> QED  BY <2>2, <2>3
<1>8. CASE G!Finish
  <2>1. /\ googleResult = G!NoneYet /\ \A i \in DOMAIN pc : pc[i] = "done"
        /\ UNCHANGED <<setup, job, clock, runs, mem, disk, writing, pc, token, got>>
    BY <1>8 DEF G!Finish
  <2>2. GoogleTypes' /\ HonestCopies' /\ OwnTokensOnly'
    BY <2>1 DEF GoogleTypes, HonestCopies, Honest, OwnTokensOnly, OwnTokens, G!List
  <2>3. googleResult'.status = "success" =>
          /\ job = "quota"
          /\ googleResult'.errors = {i \in DOMAIN got : got[i].status = "error"}
          /\ googleResult'.rows =
             [i \in DOMAIN got |-> IF got[i].status = "ok" THEN got[i].readings ELSE <<>>]
    BY <1>8 DEF G!Finish, GoogleTypes
  <2>4. googleResult'.status = "success" => \A i \in DOMAIN pc :
          i \in googleResult'.errors \/ (got[i].status = "ok" /\ googleResult'.rows[i] = got[i].readings)
    BY <2>1, <2>3 DEF Outcomes, GoogleTypes
  <2>5. Outcomes'  BY <2>1, <2>4 DEF Outcomes, OwnTokens, G!List
  <2> QED  BY <2>2, <2>5
<1>9. CASE G!Again
  BY <1>9, StepBegin DEF G!Again, G!Begin
<1>10. CASE G!Restart
  BY <1>10, StepBegin DEF G!Restart, G!Begin
<1>11. CASE G!Tick
  <2>1. HonestCopies'  BY <1>11 DEF G!Tick, HonestCopies
  <2>2. GoogleTypes' /\ OwnTokensOnly' /\ Outcomes'
    <3>1. clock' \in Nat  BY <1>11 DEF G!Tick, GoogleTypes
    <3> QED  BY <1>11, <3>1 DEF G!Tick, GoogleTypes, OwnTokensOnly, Outcomes, OwnTokens, G!List
  <2> QED  BY <2>1, <2>2
<1>12. CASE UNCHANGED googleVars
  BY <1>12 DEF googleVars, GoogleTypes, HonestCopies, OwnTokensOnly, Outcomes, OwnTokens, G!List
<1> QED
  BY <1>1, <1>2, <1>3, <1>4, <1>5, <1>6, <1>7, <1>8, <1>9, <1>10, <1>11, <1>12 DEF G!GoogleNext

\* A query of Google that goes to no account has the outcome that says so.
GoogleAsks ==
  /\ setup \in Setup
  /\ googleResult.status \in {"unconfigured", "companion"} => googleResult = G!Early(setup)

\* A query starts with the outcome that is known without asking.
LEMMA GoogleAsksStarts == G!GoogleInit => GoogleAsks
BY DEF G!GoogleInit, GoogleAsks

\* Every step keeps the outcome that was known from the start.
LEMMA GoogleAsksStep == ASSUME GoogleAsks, [G!GoogleNext]_googleVars PROVE GoogleAsks'
<1> USE DEF GoogleAsks
<1>1. ASSUME NEW i \in DOMAIN pc, G!Take(i) \/ G!LookUp(i) \/ G!Refresh(i) \/ G!Store(i) \/ G!EndWrite(i) \/ G!Ask(i)
      PROVE  UNCHANGED <<setup, googleResult>>
  BY <1>1 DEF G!Take, G!LookUp, G!Refresh, G!Store, G!EndWrite, G!Ask
<1>2. CASE G!Load \/ G!Tick
  BY <1>2 DEF G!Load, G!Tick
<1>3. CASE G!Finish
  BY <1>3 DEF G!Finish
<1>4. CASE G!Again
  BY <1>4 DEF G!Again, G!Begin
<1>5. CASE G!Restart
  BY <1>5 DEF G!Restart, G!Begin
<1>6. CASE UNCHANGED googleVars
  BY <1>6 DEF googleVars
<1> QED  BY <1>1, <1>2, <1>3, <1>4, <1>5, <1>6 DEF G!GoogleNext

\* What is available has accounts and a companion.
LEMMA GoogleAsksImplies == GoogleAsks => G!AvailableIsAsked
<1> SUFFICES ASSUME GoogleAsks, G!Available(setup), googleResult.status \in {"unconfigured", "companion"}
             PROVE  FALSE
  BY DEF G!AvailableIsAsked
<1>1. setup.product \in {"antigravity", "gemini", "agy"}
  BY GoogleAssumption DEF GoogleAsks
<1>2. G!CompanionState(setup) = "present"
  BY DEF G!Available
<1>3. G!Early(setup).status = "unconfigured" /\ G!Accounts(setup) = <<>>
  BY <1>2 DEF GoogleAsks, G!Early, G!NoneYet
<1>4. CASE setup.product = "antigravity"
  <2> DEFINE present == {i \in DOMAIN setup.files : setup.files[i].exists}
  <2>1. G!AntigravityPresence(setup.files) = "present"
    BY <1>4 DEF G!Available
  <2>2. G!FirstListed(setup.files, present) # <<>>
    BY <2>1 DEF G!AntigravityPresence
  <2>3. G!Listed(setup.files, DOMAIN setup.files) = G!Listed(setup.files, present)
    BY <1>4, GoogleAssumption DEF GoogleAsks, G!Listed
  <2>4. G!FirstListed(setup.files, DOMAIN setup.files) = G!FirstListed(setup.files, present)
    BY <2>3 DEF G!FirstListed
  <2>5. G!Accounts(setup) = G!ReadAntigravityAccounts(setup.files)
    BY <1>4, Zenon DEF G!Accounts
  <2> QED  BY <2>2, <2>4, <2>5, <1>3 DEF G!ReadAntigravityAccounts
<1>5. CASE setup.product = "gemini"
  <2>1. G!AuthPresence(setup.entries, setup.configured) = "present"
    BY <1>5 DEF G!Available
  <2>2. G!Accounts(setup) = G!ResolveAccounts(setup.entries, setup.configured)
    BY <1>5, Zenon DEF G!Accounts
  <2> QED  BY <2>1, <2>2, <1>3 DEF G!AuthPresence
<1>6. CASE setup.product = "agy"
  <2>1. G!AuthPresence(setup.entries, setup.configured) = "present"
    BY <1>6 DEF G!Available, G!AgyPresence
  <2>2. G!Accounts(setup) = G!ResolveAccounts(setup.entries, setup.configured)
    BY <1>6, Zenon DEF G!Accounts, G!AgyAccounts
  <2> QED  BY <2>1, <2>2, <1>3 DEF G!AuthPresence
<1> QED  BY <1>1, <1>4, <1>5, <1>6

------------------------------------------------------------------------------
(* Token sync: what a steady merge has counted.                             *)

\* What a merge of a machine has counted: its own sessions with all their tokens, and
\* of others only sessions that it does not have.
OwnAlone(m) ==
  /\ index[m] = DOMAIN db[m]
  /\ {<<m, s, ownSums[m][s]>> : s \in DOMAIN ownSums[m]} \subseteq counted[m]
  /\ \A c \in counted[m] :
       \/ c \in {<<m, s, ownSums[m][s]>> : s \in DOMAIN ownSums[m]}
       \/ c[1] # m /\ c[2] \notin index[m]

SyncTypes ==
  /\ DOMAIN db = Machine /\ DOMAIN mergeStage = Machine /\ DOMAIN ownSums = Machine
  /\ DOMAIN index = Machine /\ DOMAIN todo = Machine /\ DOMAIN counted = Machine
  /\ DOMAIN mergeSteady = Machine

SyncIInv ==
  /\ SyncTypes
  /\ \A m \in Machine :
       /\ \A s \in DOMAIN db[m] : db[m][s] \in Nat
       /\ todo[m] \subseteq Machine \ {m}
       /\ mergeSteady[m] /\ mergeStage[m] # "idle" => ownSums[m] = T!Sums(db[m])
       /\ mergeSteady[m] /\ mergeStage[m] \in {"files", "merged"} => OwnAlone(m)

\* What was counted agrees with what the invariant says of it.
LEMMA SyncImplies == SyncIInv => T!OwnCountedOnce
<1> SUFFICES ASSUME SyncIInv, NEW m \in Machine, mergeStage[m] = "merged", mergeSteady[m],
                    NEW s \in SyncSession
             PROVE  /\ s \in DOMAIN db[m] => T!Of(m, s) = {<<m, s, t>> : t \in {db[m][s]} \ {0}}
                    /\ s \notin DOMAIN db[m] => \A c \in T!Of(m, s) : c[1] # m
  BY DEF T!OwnCountedOnce
<1>1. /\ ownSums[m] = T!Sums(db[m]) /\ OwnAlone(m) /\ \A x \in DOMAIN db[m] : db[m][x] \in Nat
  BY DEF SyncIInv
<1>2. /\ DOMAIN ownSums[m] = {x \in DOMAIN db[m] : db[m][x] > 0}
      /\ \A x \in DOMAIN ownSums[m] : ownSums[m][x] = db[m][x]
  BY <1>1 DEF T!Sums, T!Restrict
<1>3. ASSUME s \in DOMAIN db[m] PROVE T!Of(m, s) = {<<m, s, t>> : t \in {db[m][s]} \ {0}}
  <2>1. ASSUME NEW c \in T!Of(m, s) PROVE c \in {<<m, s, t>> : t \in {db[m][s]} \ {0}}
    BY <1>1, <1>2, <1>3, <2>1 DEF T!Of, OwnAlone
  <2>2. ASSUME NEW c \in {<<m, s, t>> : t \in {db[m][s]} \ {0}} PROVE c \in T!Of(m, s)
    BY <1>1, <1>2, <1>3, <2>2 DEF T!Of, OwnAlone
  <2> QED BY <2>1, <2>2
<1>4. ASSUME s \notin DOMAIN db[m], NEW c \in T!Of(m, s) PROVE c[1] # m
  BY <1>1, <1>2, <1>4 DEF T!Of, OwnAlone
<1> QED BY <1>3, <1>4

\* At first no machine has a session.
LEMMA SyncStarts == T!SyncInit => SyncIInv
BY DEF T!SyncInit, SyncIInv, SyncTypes

\* Whatever happens to sessions of a machine, a merge of it is not steady then.
LEMMA EditsKeep ==
  ASSUME SyncIInv, NEW m \in Machine, NEW sessions, T!Edits(m, sessions),
         \A s \in DOMAIN sessions : sessions[s] \in Nat
  PROVE  SyncIInv'
<1>1. SyncTypes'
  BY DEF SyncIInv, SyncTypes, T!Edits, T!mergeVars
<1>2. ASSUME NEW n \in Machine
      PROVE  /\ \A s \in DOMAIN db'[n] : db'[n][s] \in Nat
             /\ todo'[n] \subseteq Machine \ {n}
             /\ mergeSteady'[n] /\ mergeStage'[n] # "idle" => ownSums'[n] = T!Sums(db'[n])
             /\ mergeSteady'[n] /\ mergeStage'[n] \in {"files", "merged"} => OwnAlone(n)'
  <2>1. CASE n = m
    BY <2>1 DEF SyncIInv, SyncTypes, T!Edits, T!mergeVars
  <2>2. CASE n # m
    <3>1. /\ db'[n] = db[n] /\ mergeSteady'[n] = mergeSteady[n]
          /\ todo' = todo /\ mergeStage' = mergeStage /\ ownSums' = ownSums
          /\ index' = index /\ counted' = counted
      BY <2>2 DEF SyncIInv, SyncTypes, T!Edits, T!mergeVars
    <3> QED BY <3>1 DEF SyncIInv, OwnAlone
  <2> QED BY <2>1, <2>2
<1> QED BY <1>1, <1>2 DEF SyncIInv

\* The state that the invariant is about, but for one machine's merge.
Elsewhere(m) ==
  \A n \in Machine \ {m} :
    /\ mergeSteady'[n] = mergeSteady[n] /\ mergeStage'[n] = mergeStage[n]
    /\ ownSums'[n] = ownSums[n] /\ index'[n] = index[n]
    /\ todo'[n] = todo[n] /\ counted'[n] = counted[n]

\* A step of one merge leaves what holds of the others.
LEMMA MergeKeeps ==
  ASSUME SyncIInv, SyncTypes', db' = db, NEW m \in Machine, Elsewhere(m),
         /\ todo'[m] \subseteq Machine \ {m}
         /\ mergeSteady'[m] /\ mergeStage'[m] # "idle" => ownSums'[m] = T!Sums(db[m])
         /\ mergeSteady'[m] /\ mergeStage'[m] \in {"files", "merged"} => OwnAlone(m)'
  PROVE  SyncIInv'
<1>1. ASSUME NEW n \in Machine
      PROVE  /\ \A s \in DOMAIN db'[n] : db'[n][s] \in Nat
             /\ todo'[n] \subseteq Machine \ {n}
             /\ mergeSteady'[n] /\ mergeStage'[n] # "idle" => ownSums'[n] = T!Sums(db'[n])
             /\ mergeSteady'[n] /\ mergeStage'[n] \in {"files", "merged"} => OwnAlone(n)'
  <2>1. CASE n = m
    BY <2>1 DEF SyncIInv
  <2>2. CASE n # m
    BY <2>2 DEF SyncIInv, Elsewhere, OwnAlone
  <2> QED BY <2>1, <2>2
<1> QED BY <1>1 DEF SyncIInv

\* Every step keeps the invariant.
LEMMA SyncStep == SyncIInv /\ [T!SyncNext]_syncVars => SyncIInv'
<1> SUFFICES ASSUME SyncIInv, [T!SyncNext]_syncVars PROVE SyncIInv'
  OBVIOUS
<1>1. CASE UNCHANGED syncVars
  BY <1>1 DEF syncVars, SyncIInv, SyncTypes, OwnAlone
<1>2. ASSUME NEW m \in Machine, NEW s \in SyncSession, T!Work(m, s) PROVE SyncIInv'
  <2>1. PICK tokens \in Int : tokens \in Nat /\ T!Edits(m, T!Set(db[m], s, tokens))
    <3>1. (IF s \in DOMAIN db[m] THEN db[m][s] ELSE 0) \in Nat
      BY DEF SyncIInv
    <3> QED BY <1>2, <3>1 DEF T!Work
  <2>2. \A x \in DOMAIN T!Set(db[m], s, tokens) : T!Set(db[m], s, tokens)[x] \in Nat
    BY <2>1 DEF SyncIInv, T!Set
  <2> QED BY <2>1, <2>2, EditsKeep
<1>3. ASSUME NEW m \in Machine, NEW s \in SyncSession, T!Delete(m, s) PROVE SyncIInv'
  <2>1. \A x \in DOMAIN T!Restrict(db[m], DOMAIN db[m] \ {s}) :
           T!Restrict(db[m], DOMAIN db[m] \ {s})[x] \in Nat
    BY DEF SyncIInv, T!Restrict
  <2> QED BY <1>3, <2>1, EditsKeep DEF T!Delete
<1>4. ASSUME NEW m \in Machine, NEW n \in Machine, NEW s \in SyncSession, T!Copy(m, n, s)
      PROVE  SyncIInv'
  <2>1. \A x \in DOMAIN T!Set(db[n], s, db[m][s]) : T!Set(db[n], s, db[m][s])[x] \in Nat
    BY <1>4 DEF SyncIInv, T!Set, T!Copy
  <2> QED BY <1>4, <2>1, EditsKeep DEF T!Copy
<1>5. ASSUME NEW m \in Machine, T!Export(m) \/ T!Push(m) \/ T!Pull(m) PROVE SyncIInv'
  <2>1. /\ db' = db /\ mergeStage' = mergeStage /\ ownSums' = ownSums /\ index' = index
        /\ todo' = todo /\ counted' = counted /\ mergeSteady' = mergeSteady
    BY <1>5 DEF T!Export, T!Push, T!Pull, T!mergeVars
  <2> QED BY <2>1 DEF SyncIInv, SyncTypes, OwnAlone
<1>6. ASSUME NEW m \in Machine, T!MergeOwn(m) PROVE SyncIInv'
  <2>1. SyncTypes'
    BY <1>6 DEF SyncIInv, SyncTypes, T!MergeOwn
  <2>2. /\ todo'[m] \subseteq Machine \ {m} /\ mergeStage'[m] = "index"
        /\ ownSums'[m] = T!Sums(db[m])
    BY <1>6 DEF SyncIInv, SyncTypes, T!MergeOwn
  <2>3. db' = db /\ Elsewhere(m)
    BY <1>6 DEF T!MergeOwn, Elsewhere, SyncIInv, SyncTypes
  <2> QED BY <2>1, <2>2, <2>3, MergeKeeps
<1>7. ASSUME NEW m \in Machine, T!MergeIndex(m) PROVE SyncIInv'
  <2>1. SyncTypes'
    BY <1>7 DEF SyncIInv, SyncTypes, T!MergeIndex
  <2>2. todo'[m] \subseteq Machine \ {m}
    BY <1>7 DEF SyncIInv, SyncTypes, T!MergeIndex
  <2>3. mergeSteady'[m] => ownSums'[m] = T!Sums(db[m])
    BY <1>7 DEF SyncIInv, SyncTypes, T!MergeIndex
  <2>4. OwnAlone(m)'
    BY <1>7 DEF SyncIInv, SyncTypes, T!MergeIndex, OwnAlone
  <2>5. db' = db /\ Elsewhere(m)
    BY <1>7 DEF T!MergeIndex, Elsewhere, SyncIInv, SyncTypes
  <2> QED BY <2>1, <2>2, <2>3, <2>4, <2>5, MergeKeeps
<1>8. ASSUME NEW m \in Machine, NEW n \in Machine, T!MergeFile(m, n) PROVE SyncIInv'
  <2>1. SyncTypes'
    BY <1>8 DEF SyncIInv, SyncTypes, T!MergeFile
  <2>2. todo'[m] \subseteq Machine \ {m} /\ n # m
    BY <1>8 DEF SyncIInv, SyncTypes, T!MergeFile
  <2>3. /\ mergeStage' = mergeStage /\ mergeSteady' = mergeSteady /\ ownSums' = ownSums
        /\ index' = index /\ db' = db
    BY <1>8 DEF T!MergeFile
  <2>4. /\ counted[m] \subseteq counted'[m]
        /\ \A c \in counted'[m] : c \in counted[m] \/ (c[1] # m /\ c[2] \notin index[m])
    <3> DEFINE new == IF checkouts[m][n] \in {None, Damaged} THEN {} ELSE T!New(m, n)
    <3>1. counted'[m] = counted[m] \cup new
      BY <1>8 DEF SyncIInv, SyncTypes, T!MergeFile
    <3>2. \A c \in new : c[1] # m /\ c[2] \notin index[m]
      BY <2>2 DEF T!New
    <3> HIDE DEF new
    <3> QED BY <3>1, <3>2
  <2>5. mergeSteady[m] /\ mergeStage[m] \in {"files", "merged"} => OwnAlone(m)'
    BY <2>3, <2>4 DEF OwnAlone, SyncIInv
  <2>6. Elsewhere(m)
    BY <1>8 DEF T!MergeFile, Elsewhere, SyncIInv, SyncTypes
  <2>7. mergeSteady'[m] /\ mergeStage'[m] # "idle" => ownSums'[m] = T!Sums(db[m])
    BY <2>3 DEF SyncIInv
  <2> QED BY <2>1, <2>2, <2>3, <2>5, <2>6, <2>7, MergeKeeps
<1>9. ASSUME NEW m \in Machine, T!Merged(m) PROVE SyncIInv'
  <2>1. SyncTypes'
    BY <1>9 DEF SyncIInv, SyncTypes, T!Merged
  <2>2. /\ mergeStage[m] = "files" /\ mergeStage'[m] = "merged"
        /\ mergeSteady' = mergeSteady /\ ownSums' = ownSums
        /\ index' = index /\ db' = db /\ todo' = todo /\ counted' = counted
    BY <1>9 DEF T!Merged, SyncIInv, SyncTypes
  <2>3. Elsewhere(m)
    BY <1>9 DEF T!Merged, Elsewhere, SyncIInv, SyncTypes
  <2>4. /\ todo'[m] \subseteq Machine \ {m}
        /\ mergeSteady'[m] => ownSums'[m] = T!Sums(db[m])
        /\ mergeSteady'[m] => OwnAlone(m)'
    BY <2>2 DEF SyncIInv, OwnAlone
  <2> QED BY <2>1, <2>2, <2>3, <2>4, MergeKeeps
<1> QED BY <1>1, <1>2, <1>3, <1>4, <1>5, <1>6, <1>7, <1>8, <1>9 DEF T!SyncNext, syncVars, T!syncVars

------------------------------------------------------------------------------
(* The panels: each resource by itself, then its views.                     *)

Load == [current : BOOLEAN, found : Int \cup {None}]
LiveResource == [place : V!Place, refs : Nat, disposed : {FALSE}, load : Load \cup {None},
                 queued : BOOLEAN, timers : Nat, panel : Int, failed : BOOLEAN,
                 wanted : Int, heard : Int]
GoneResource == [place : V!Place, refs : {0}, disposed : {TRUE}]

\* A load that is overtaken has a reload queued behind it, one that is not finds what
\* there was when the resource was last told to reload.
LoadInHand(r) ==
  IF r.load = None THEN ~r.queued /\ (r.failed \/ r.panel >= r.wanted)
  ELSE IF r.load.current THEN r.load.found = None \/ r.load.found >= r.wanted
  ELSE r.queued
\* Without a timer to come, it was told to reload after it heard of the last event.
Sound(r, now) ==
  /\ r.wanted <= now /\ r.heard <= now /\ (r.timers = 0 => r.heard <= r.wanted)
  /\ LoadInHand(r)

\* The fields of loads.
LEMMA Loads == /\ V!NewLoad \in Load /\ V!NewLoad # None 
               /\ \A l \in Load : l.current \in BOOLEAN /\ l.found \in Int \cup {None} /\ l # None
               /\ V!NewLoad.current /\ V!NewLoad.found = None
<1>1. V!NewLoad \in Load
  BY DEF Load, V!NewLoad
<1>2. V!NewLoad.current /\ V!NewLoad.found = None
  BY DEF V!NewLoad
<1>3. \A l \in Load : l.current \in BOOLEAN /\ l.found \in Int \cup {None} /\ l # None
  BY LiveAssumption DEF Load
<1> QED BY <1>1, <1>2, <1>3

\* A new resource is one.
LEMMA NewIsLive ==
  ASSUME NEW p \in V!Place, data \in [V!Place -> Int]
  PROVE  V!NewResource(p) \in LiveResource
<1>1. data[p] \in Int
  OBVIOUS
<1>2. (IF p = Home THEN 0 ELSE MountDelays) \in Nat
  BY LiveAssumption
<1>3. V!NewLoad \in Load
  BY Loads
<1> QED BY <1>1, <1>2, <1>3 DEF V!NewResource, V!Loading, LiveResource
\* It has a load that is not overtaken.
LEMMA NewIsSound ==
  ASSUME NEW p \in V!Place, data \in [V!Place -> Int]
  PROVE  Sound(V!NewResource(p), data[p])
<1>1. data[p] \in Int
  OBVIOUS
<1>2. /\ V!NewResource(p).wanted = data[p] /\ V!NewResource(p).heard = data[p]
      /\ V!NewResource(p).load = V!NewLoad
  BY DEF V!NewResource
<1> QED BY <1>1, <1>2, Loads DEF Sound, LoadInHand

\* A reload leaves a load that finds what there is now, or one queued.
LEMMA ReloadedIsSound ==
  ASSUME NEW r \in LiveResource, data \in [V!Place -> Int], r.heard <= data[r.place]
  PROVE  /\ V!Reloaded(r) \in LiveResource /\ V!Reloaded(r).place = r.place
         /\ V!Reloaded(r).refs = r.refs
         /\ Sound(V!Reloaded(r), data[r.place])
<1>0. data[r.place] \in Int
  BY DEF LiveResource
<1>1. CASE r.load = None
  <2> DEFINE q == [[r EXCEPT !.wanted = data[r.place]] EXCEPT !.load = V!NewLoad]
  <2>1. V!Reloaded(r) = q
    BY <1>1, Zenon DEF V!Reloaded, LiveResource
  <2>2. q \in LiveResource
    BY <1>0, Loads DEF LiveResource
  <2>3. /\ q.place = r.place /\ q.refs = r.refs /\ q.timers = r.timers
        /\ q.wanted = data[r.place] /\ q.load = V!NewLoad /\ q.heard = r.heard
    BY DEF LiveResource
  <2> QED BY <2>1, <2>2, <2>3, <1>0, Loads DEF Sound, LoadInHand
<1>2. CASE r.load # None
  <2> DEFINE l == [r.load EXCEPT !.current = FALSE]
             q == [[[r EXCEPT !.wanted = data[r.place]] EXCEPT !.queued = TRUE] EXCEPT !.load = l]
  <2>0. r.load \in Load
    BY <1>2 DEF LiveResource
  <2>1. V!Reloaded(r) = q
    BY <1>2, <2>0 DEF V!Reloaded, LiveResource
  <2>2. l \in Load /\ ~l.current
    BY <2>0 DEF Load
  <2> HIDE DEF l
  <2>3. q \in LiveResource
    BY <1>0, <2>2 DEF LiveResource
  <2>4. /\ q.place = r.place /\ q.refs = r.refs /\ q.timers = r.timers
        /\ q.wanted = data[r.place] /\ q.load = l /\ q.queued /\ q.heard = r.heard
    BY DEF LiveResource
  <2> QED BY <2>1, <2>2, <2>3, <2>4, <1>0, Loads DEF Sound, LoadInHand
<1> QED BY <1>1, <1>2

Kind == LiveResource \cup GoneResource

\* A resource is alive or what is left of one.
LEMMA Kinds ==
  ASSUME NEW r \in Kind
  PROVE  /\ r.place \in V!Place /\ r.disposed \in BOOLEAN
         /\ ~r.disposed => r \in LiveResource
         /\ r.disposed => r = V!Disposed(r.place)
<1>1. CASE r \in LiveResource
  BY <1>1 DEF LiveResource
<1>2. CASE r \in GoneResource
  BY <1>2 DEF GoneResource, V!Disposed
<1> QED BY <1>1, <1>2 DEF Kind

\* What is left of a resource has no more than its place.
LEMMA Gone == ASSUME NEW p \in V!Place
              PROVE V!Disposed(p) \in Kind /\ V!Disposed(p).disposed /\ V!Disposed(p).place = p
BY DEF V!Disposed, GoneResource, Kind

\* A load that ends leaves a panel that shows enough, or the next load.
LEMMA EndedIsSound ==
  ASSUME NEW r \in LiveResource, data \in [V!Place -> Int], r.heard <= data[r.place],
         r.queued \/ ((r.failed \/ r.panel >= r.wanted) /\ Sound(r, data[r.place]))
  PROVE  /\ V!Ended(r) \in LiveResource /\ V!Ended(r).place = r.place
         /\ V!Ended(r).refs = r.refs
         /\ Sound(V!Ended(r), data[r.place])
<1> DEFINE idle == [[r EXCEPT !.load = None] EXCEPT !.queued = FALSE]
<1>1. idle \in LiveResource
  BY DEF LiveResource
<1>2. /\ idle.place = r.place /\ idle.refs = r.refs /\ idle.heard = r.heard
      /\ idle.load = None /\ ~idle.queued /\ idle.wanted = r.wanted /\ idle.timers = r.timers
      /\ idle.panel = r.panel /\ (idle.failed = r.failed)
  BY DEF LiveResource
<1>3. V!Ended(r) = IF r.queued THEN V!Reloaded(idle) ELSE idle
  BY DEF V!Ended
<1> HIDE DEF idle
<1>4. CASE r.queued
  BY <1>1, <1>2, <1>3, <1>4, ReloadedIsSound
<1>5. CASE ~r.queued
  BY <1>1, <1>2, <1>3, <1>5 DEF Sound, LoadInHand
<1> QED BY <1>4, <1>5

Viewers == [i \in Nat |-> {v \in View : shown[v] = i}]

\* A resource has as many references as it has viewers, is in the registry while it has
\* one, and is disposed of when it has none.
Counted(r, i, map, viewers) ==
  IF r.disposed THEN viewers = {}
  ELSE /\ viewers # {} /\ r.refs = Cardinality(viewers) /\ map[r.place] = i
       /\ Sound(r, data[r.place])

Held(resources, map, viewers) ==
  /\ resources \in Seq(Kind)
  /\ map \in [V!Place -> DOMAIN resources \cup {None}]
  /\ \A p \in V!Place : map[p] # None => ~resources[map[p]].disposed /\ resources[map[p]].place = p
  /\ \A i \in DOMAIN resources : Counted(resources[i], i, map, viewers[i])

LiveIInv ==
  /\ data \in [V!Place -> Int]
  /\ shown \in [View -> DOMAIN resource \cup {None}]
  /\ Held(resource, registry, Viewers)

\* The invariant has what the panels promise.
LEMMA LiveImplies == LiveIInv => V!RestsCurrent /\ V!SharedByViews
<1> SUFFICES ASSUME LiveIInv PROVE V!RestsCurrent /\ V!SharedByViews
  OBVIOUS
<1>0. DOMAIN resource \subseteq Nat /\ \A i \in DOMAIN resource : resource[i] \in Kind
  BY DEF LiveIInv, Held
<1>1. V!RestsCurrent
  <2> SUFFICES ASSUME NEW i \in DOMAIN resource, ~resource[i].disposed, 
                      resource[i].load = None, ~resource[i].failed
               PROVE  /\ resource[i].panel >= resource[i].wanted
                      /\ resource[i].timers = 0 => resource[i].panel >= resource[i].heard
    BY DEF V!RestsCurrent
  <2>1. resource[i] \in LiveResource /\ Sound(resource[i], data[resource[i].place])
    BY <1>0, Kinds DEF LiveIInv, Held, Counted
  <2>2. resource[i].panel \in Int /\ resource[i].wanted \in Int /\ resource[i].heard \in Int
    BY <2>1 DEF LiveResource
  <2> QED BY <2>1, <2>2 DEF Sound, LoadInHand
<1>2. ASSUME NEW v \in View, shown[v] # None
      PROVE  ~resource[shown[v]].disposed /\ registry[resource[shown[v]].place] = shown[v]
  <2>1. shown[v] \in DOMAIN resource /\ v \in Viewers[shown[v]]
    BY <1>0, <1>2 DEF LiveIInv, Viewers
  <2> QED BY <2>1 DEF LiveIInv, Held, Counted
<1>3. ASSUME NEW i \in DOMAIN resource
      PROVE  resource[i].disposed <=> \A v \in View : shown[v] # i
  <2>1. Viewers[i] = {v \in View : shown[v] = i}
    BY <1>0 DEF Viewers
  <2> QED BY <2>1 DEF LiveIInv, Held, Counted
<1>4. ASSUME NEW p \in V!Place, registry[p] # None
      PROVE  \E v \in View : shown[v] = registry[p]
  <2>1. registry[p] \in DOMAIN resource /\ ~resource[registry[p]].disposed
    BY <1>4 DEF LiveIInv, Held
  <2> QED BY <2>1, <1>3
<1> QED BY <1>1, <1>2, <1>3, <1>4 DEF V!SharedByViews

\* At first there is no resource.
LEMMA LiveStarts == V!LiveInit => LiveIInv
<1> SUFFICES ASSUME V!LiveInit PROVE LiveIInv
  OBVIOUS
<1>1. resource = <<>> /\ DOMAIN resource = {}
  BY DEF V!LiveInit
<1> QED BY <1>1 DEF V!LiveInit, LiveIInv, Held

\* A step that leaves views and the registry alone keeps what it leaves of resources.
LEMMA Told ==
  ASSUME LiveIInv, data' \in [V!Place -> Int], registry' = registry, shown' = shown,
         resource' \in Seq(Kind), DOMAIN resource' = DOMAIN resource,
         \A i \in DOMAIN resource :
           IF resource[i].disposed THEN resource'[i] = resource[i]
           ELSE /\ ~resource'[i].disposed /\ resource'[i].place = resource[i].place
                /\ resource'[i].refs = resource[i].refs
                /\ Sound(resource'[i], data'[resource[i].place])
  PROVE  LiveIInv'
<1>1. Viewers' = Viewers
  BY DEF Viewers
<1>2. ASSUME NEW i \in DOMAIN resource
      PROVE  Counted(resource[i], i, registry, Viewers[i])'
  <2>1. CASE resource[i].disposed
    BY <1>1, <2>1 DEF LiveIInv, Held, Counted
  <2>2. CASE ~resource[i].disposed
    BY <1>1, <2>2 DEF LiveIInv, Held, Counted
  <2> QED BY <2>1, <2>2
<1>3. \A p \in V!Place : registry[p] # None =>
        ~resource'[registry[p]].disposed /\ resource'[registry[p]].place = p
  BY DEF LiveIInv, Held
<1> QED BY <1>1, <1>2, <1>3 DEF LiveIInv, Held

\* The same of a step of one resource.
LEMMA ToldOne ==
  ASSUME LiveIInv, NEW i \in DOMAIN resource, NEW r \in LiveResource, ~resource[i].disposed,
         data' = data, registry' = registry, shown' = shown,
         resource' = [resource EXCEPT ![i] = r],
         r.place = resource[i].place, r.refs = resource[i].refs,
         Sound(r, data[resource[i].place])
  PROVE  LiveIInv'
<1>1. resource \in Seq(Kind) /\ r \in Kind /\ data \in [V!Place -> Int]
  BY DEF LiveIInv, Held, Kind
<1>2. /\ resource' \in Seq(Kind) /\ DOMAIN resource' = DOMAIN resource
      /\ \A j \in DOMAIN resource : resource'[j] = IF j = i THEN r ELSE resource[j]
  BY <1>1
<1>3. ~r.disposed
  BY DEF LiveResource
<1>4. ASSUME NEW j \in DOMAIN resource
      PROVE  IF resource[j].disposed THEN resource'[j] = resource[j]
             ELSE /\ ~resource'[j].disposed /\ resource'[j].place = resource[j].place
                  /\ resource'[j].refs = resource[j].refs
                  /\ Sound(resource'[j], data'[resource[j].place])
  <2>1. CASE j = i
    BY <1>2, <1>3, <2>1
  <2>2. CASE j # i
    BY <1>2, <2>2 DEF LiveIInv, Held, Counted
  <2> QED BY <2>1, <2>2
<1> QED BY <1>1, <1>2, <1>4, Told

\* What holds of a resource that is there.
LEMMA Living ==
  ASSUME LiveIInv, NEW i \in DOMAIN resource, ~resource[i].disposed
  PROVE  /\ resource[i] \in LiveResource /\ Sound(resource[i], data[resource[i].place])
         /\ resource[i].place \in V!Place /\ data[resource[i].place] \in Int
<1>1. resource[i] \in Kind
  BY DEF LiveIInv, Held
<1>2. resource[i].place \in V!Place
  BY <1>1, Kinds
<1> QED BY <1>1, <1>2, Kinds DEF LiveIInv, Held, Counted

\* A timer and the interval tell a resource to reload.
LEMMA StepReload == 
  ASSUME LiveIInv, NEW i \in DOMAIN resource, V!Timer(i) \/ V!Interval(i)
  PROVE  LiveIInv'
<1> DEFINE t == [resource[i] EXCEPT !.timers = resource[i].timers - 1]
           r == resource[i]
<1>1. r \in LiveResource /\ ~r.disposed /\ Sound(r, data[r.place]) /\ data \in [V!Place -> Int]
  BY Living DEF V!Timer, V!Interval, V!Alive, LiveIInv
<1>2. CASE V!Interval(i)
  <2>1. resource' = [resource EXCEPT ![i] = V!Reloaded(r)] /\ UNCHANGED <<data, registry, shown>>
    BY <1>2 DEF V!Interval
  <2> QED BY <1>1, <2>1, ReloadedIsSound, ToldOne DEF Sound
<1>3. CASE V!Timer(i)
  <2>1. resource' = [resource EXCEPT ![i] = V!Reloaded(t)] /\ UNCHANGED <<data, registry, shown>>
    BY <1>3 DEF V!Timer
  <2>2. r.timers - 1 \in Nat
    BY <1>1, <1>3 DEF V!Timer, LiveResource
  <2>3. t \in LiveResource /\ t.place = r.place /\ t.refs = r.refs /\ t.heard = r.heard
    BY <1>1, <2>2 DEF LiveResource
  <2> HIDE DEF t
  <2> QED BY <1>1, <2>1, <2>3, ReloadedIsSound, ToldOne DEF Sound
<1> QED BY <1>2, <1>3

\* A load finds what there is, which is no less than when it was asked for.
LEMMA StepFind == 
  ASSUME LiveIInv, NEW i \in DOMAIN resource, V!Find(i)
  PROVE  LiveIInv'
<1> DEFINE r == resource[i]
           l == [r.load EXCEPT !.found = data[r.place]]
           q == [r EXCEPT !.load = l]
<1>1. /\ r \in LiveResource /\ ~r.disposed /\ Sound(r, data[r.place]) /\ data[r.place] \in Int
      /\ r.load \in Load
  <2>1. r \in LiveResource /\ ~r.disposed /\ Sound(r, data[r.place]) /\ data[r.place] \in Int
    BY Living DEF V!Find, V!Alive
  <2> QED BY <2>1 DEF LiveResource, V!Find
<1>2. resource' = [resource EXCEPT ![i] = q] /\ UNCHANGED <<data, registry, shown>>
  BY DEF V!Find
<1>3. l \in Load /\ l.found = data[r.place] /\ (l.current <=> r.load.current)
  BY <1>1 DEF Load
<1> HIDE DEF l
<1>4. q \in LiveResource
  BY <1>1, <1>3 DEF LiveResource
<1>5. /\ q.place = r.place /\ q.refs = r.refs /\ q.wanted = r.wanted /\ q.heard = r.heard
      /\ q.timers = r.timers /\ q.load = l /\ (q.queued <=> r.queued)
  BY <1>1 DEF LiveResource
<1> HIDE DEF q
<1>6. Sound(q, data[r.place])
  BY <1>1, <1>3, <1>5, Loads DEF Sound, LoadInHand
<1> QED BY <1>1, <1>2, <1>4, <1>5, <1>6, ToldOne

\* A load that was overtaken leaves the panel as it is, and is followed by another;
\* one that fails says so.
LEMMA StepFinish == 
  ASSUME LiveIInv, NEW i \in DOMAIN resource, V!Finish(i)
  PROVE  LiveIInv'
<1> DEFINE r == resource[i]
           p == [[r EXCEPT !.panel = r.load.found] EXCEPT !.failed = FALSE]
           f == [r EXCEPT !.failed = r.load.current]
<1>1. /\ r \in LiveResource /\ ~r.disposed /\ Sound(r, data[r.place]) /\ data \in [V!Place -> Int]
  BY Living DEF V!Finish, V!Alive, LiveIInv
<1>2. r.load \in Load /\ r.load # None
  BY <1>1 DEF LiveResource, V!Finish
<1>3. /\ UNCHANGED <<data, registry, shown>>
      /\ \/ /\ r.load.found # None /\ r.load.current
            /\ resource' = [resource EXCEPT ![i] = V!Ended(p)]
         \/ ~r.load.current /\ resource' = [resource EXCEPT ![i] = V!Ended(r)]
         \/ resource' = [resource EXCEPT ![i] = V!Ended(f)]
  <2>1. CASE r.load.current
    BY <2>1 DEF V!Finish
  <2>2. CASE ~r.load.current
    BY <2>2 DEF V!Finish
  <2> QED BY <2>1, <2>2
<1>4. CASE /\ r.load.found # None /\ r.load.current
           /\ resource' = [resource EXCEPT ![i] = V!Ended(p)]
  <2>1. r.load.found \in Int /\ r.load.found >= r.wanted
    BY <1>1, <1>2, <1>4, Loads DEF Sound, LoadInHand
  <2>2. p \in LiveResource
    BY <1>1, <2>1 DEF LiveResource
  <2>3. /\ p.place = r.place /\ p.refs = r.refs /\ p.wanted = r.wanted /\ p.heard = r.heard
        /\ p.timers = r.timers /\ p.load = r.load /\ (p.queued <=> r.queued) /\ p.panel = r.load.found
    BY <1>1 DEF LiveResource
  <2> HIDE DEF p
  <2>4. Sound(p, data[r.place])
    BY <1>1, <1>2, <2>1, <2>3 DEF Sound, LoadInHand
  <2>5. /\ V!Ended(p) \in LiveResource /\ V!Ended(p).place = r.place /\ V!Ended(p).refs = r.refs
        /\ Sound(V!Ended(p), data[r.place])
    BY <1>1, <2>1, <2>2, <2>3, <2>4, EndedIsSound DEF Sound
  <2> QED BY <1>1, <1>3, <1>4, <2>5, ToldOne
<1>5. CASE ~r.load.current /\ resource' = [resource EXCEPT ![i] = V!Ended(r)]
  <2>1. r.queued
    BY <1>1, <1>2, <1>5 DEF Sound, LoadInHand
  <2>2. /\ V!Ended(r) \in LiveResource /\ V!Ended(r).place = r.place /\ V!Ended(r).refs = r.refs
        /\ Sound(V!Ended(r), data[r.place])
    BY <1>1, <2>1, EndedIsSound DEF Sound
  <2> QED BY <1>1, <1>3, <1>5, <2>2, ToldOne
<1>6. CASE resource' = [resource EXCEPT ![i] = V!Ended(f)]
  <2>1. r.load.current \in BOOLEAN
    BY <1>2, Loads
  <2>2. f \in LiveResource
    BY <1>1, <2>1 DEF LiveResource
  <2>3. /\ f.place = r.place /\ f.refs = r.refs /\ f.wanted = r.wanted /\ f.heard = r.heard
        /\ f.timers = r.timers /\ f.load = r.load /\ (f.queued <=> r.queued)
        /\ (f.failed <=> r.load.current)
    BY <1>1, <2>1 DEF LiveResource
  <2> HIDE DEF f
  <2>4. f.queued \/ f.failed
    BY <1>1, <1>2, <2>3 DEF Sound, LoadInHand
  <2>5. Sound(f, data[r.place])
    BY <1>1, <1>2, <2>3 DEF Sound, LoadInHand
  <2>6. /\ V!Ended(f) \in LiveResource /\ V!Ended(f).place = r.place /\ V!Ended(f).refs = r.refs
        /\ Sound(V!Ended(f), data[r.place])
    BY <1>1, <2>2, <2>3, <2>4, <2>5, EndedIsSound DEF Sound
  <2> QED BY <1>1, <1>3, <1>6, <2>6, ToldOne
<1> QED BY <1>3, <1>4, <1>5, <1>6

\* Whoever hears of a change gets a timer.
LEMMA StepChange == 
  ASSUME LiveIInv, NEW s \in Session, NEW told \in BOOLEAN, V!Change(s, told)
  PROVE  LiveIInv'
<1>1. /\ data \in [V!Place -> Int] /\ resource \in Seq(Kind) 
      /\ registry' = registry /\ shown' = shown
  BY DEF V!Change, LiveIInv, Held
<1>2. data' \in [V!Place -> Int] /\ \A p \in V!Place : data[p] <= data'[p]
  <2>1. data' = [p \in V!Place |-> IF p \in {s, Home} THEN data[p] + 1 ELSE data[p]]
    BY DEF V!Change
  <2> QED BY <1>1, <2>1
<1>3. DOMAIN resource' = DOMAIN resource
  BY DEF V!Change
<1>4. ASSUME NEW i \in DOMAIN resource
      PROVE  /\ resource'[i] \in Kind
             /\ IF resource[i].disposed THEN resource'[i] = resource[i]
                ELSE /\ ~resource'[i].disposed /\ resource'[i].place = resource[i].place
                     /\ resource'[i].refs = resource[i].refs
                     /\ Sound(resource'[i], data'[resource[i].place])
  <2> DEFINE r == resource[i]
             q == [[r EXCEPT !.timers = r.timers + EventDelays] EXCEPT !.heard = data'[r.place]]
  <2>1. CASE told /\ r.place \in {s, Home} /\ V!Alive(i)
    <3>1. resource'[i] = q
      BY <2>1 DEF V!Change
    <3>2. /\ r \in LiveResource /\ ~r.disposed /\ Sound(r, data[r.place]) /\ r.place \in V!Place
          /\ data[r.place] \in Int
      BY <2>1, Living DEF V!Alive
    <3>3. data'[r.place] \in Int /\ data[r.place] <= data'[r.place]
      BY <1>2, <3>2
    <3>4. q \in LiveResource
      <4>1. r.timers + EventDelays \in Nat
        BY <3>2, LiveAssumption DEF LiveResource
      <4> QED BY <3>2, <3>3, <4>1 DEF LiveResource
    <3>5. /\ q.place = r.place /\ q.refs = r.refs /\ q.wanted = r.wanted /\ q.heard = data'[r.place]
          /\ q.timers = r.timers + EventDelays /\ q.load = r.load /\ (q.queued <=> r.queued)
          /\ (q.failed <=> r.failed) /\ q.panel = r.panel
      BY <3>2 DEF LiveResource
    <3>6. q.timers # 0 /\ r.wanted \in Int
      BY <3>2, <3>5, LiveAssumption DEF LiveResource
    <3>7. ~q.disposed
      BY <3>2 DEF LiveResource
    <3> HIDE DEF q
    <3>8. Sound(q, data'[r.place])
      BY <3>2, <3>3, <3>5, <3>6 DEF Sound, LoadInHand
    <3> QED BY <3>1, <3>2, <3>4, <3>5, <3>7, <3>8 DEF Kind
  <2>2. CASE ~(told /\ r.place \in {s, Home} /\ V!Alive(i))
    <3>1. resource'[i] = r
      BY <2>2 DEF V!Change
    <3>2. r \in Kind
      BY <1>1
    <3>3. CASE ~r.disposed
      <4>1. /\ r \in LiveResource /\ Sound(r, data[r.place]) /\ r.place \in V!Place
            /\ data[r.place] \in Int
        BY <3>3, Living
      <4>2. r.wanted \in Int /\ r.heard \in Int
        BY <4>1 DEF LiveResource
      <4>3. data'[r.place] \in Int /\ data[r.place] <= data'[r.place]
        BY <1>2, <4>1
      <4>4. Sound(r, data'[r.place])
        BY <4>1, <4>2, <4>3 DEF Sound
      <4> QED BY <3>1, <3>2, <3>3, <4>4
    <3> QED BY <3>1, <3>2, <3>3
  <2> QED BY <2>1, <2>2
<1>5. resource' \in Seq(Kind)
  <2> DEFINE told2(i) == IF told /\ resource[i].place \in {s, Home} /\ V!Alive(i)
                         THEN [resource[i] EXCEPT !.timers = resource[i].timers + EventDelays,
                                                  !.heard = data'[resource[i].place]]
                         ELSE resource[i]
  <2>1. resource' = [i \in DOMAIN resource |-> told2(i)]
    BY DEF V!Change
  <2> HIDE DEF told2
  <2>2. DOMAIN resource = 1..Len(resource) /\ Len(resource) \in Nat
    BY <1>1
  <2>3. \A i \in DOMAIN resource : told2(i) \in Kind
    BY <1>4, <2>1
  <2> QED BY <2>1, <2>2, <2>3
<1> QED BY <1>1, <1>2, <1>3, <1>4, <1>5, Told

\* The references of a resource that is there.
LEMMA References == ASSUME NEW r \in LiveResource PROVE r.refs \in Nat /\ ~r.disposed
BY DEF LiveResource

\* A reference more or less is none to what a resource loads.
LEMMA Referred ==
  ASSUME NEW r \in LiveResource, NEW n \in Nat, Sound(r, data[r.place])
  PROVE  LET q == [r EXCEPT !.refs = n]
         IN  q \in LiveResource /\ q.refs = n /\ q.place = r.place /\ Sound(q, data[q.place])
<1> DEFINE q == [r EXCEPT !.refs = n]
<1>1. q \in LiveResource
  BY DEF LiveResource
<1>2. /\ q.place = r.place /\ q.refs = n /\ q.wanted = r.wanted /\ q.heard = r.heard
      /\ q.timers = r.timers /\ q.load = r.load /\ (q.queued <=> r.queued)
      /\ (q.failed <=> r.failed) /\ q.panel = r.panel
  BY DEF LiveResource
<1> HIDE DEF q
<1>3. Sound(q, data[q.place])
  BY <1>2 DEF Sound, LoadInHand
<1> QED BY <1>1, <1>2, <1>3 DEF q

\* A view more: the resource of the place in the registry, or a new one in it.
LEMMA Acquires ==
  ASSUME LiveIInv, NEW v \in View, NEW p \in V!Place, NEW after,
         registry[p] # None => v \notin Viewers[registry[p]],
         after[V!Acquired(p).id] = Viewers[V!Acquired(p).id] \cup {v},
         \A k \in Nat \ {V!Acquired(p).id} : after[k] = Viewers[k]
  PROVE  /\ Held(V!Acquired(p).resources, V!Acquired(p).map, after)
         /\ V!Acquired(p).id \in DOMAIN V!Acquired(p).resources
         /\ DOMAIN resource \subseteq DOMAIN V!Acquired(p).resources
         /\ V!Acquired(p).map[p] = V!Acquired(p).id
<1>0. /\ resource \in Seq(Kind) /\ DOMAIN resource = 1..Len(resource) /\ Len(resource) \in Nat
      /\ registry \in [V!Place -> DOMAIN resource \cup {None}]
      /\ data \in [V!Place -> Int] /\ None \notin Nat
  BY LiveAssumption DEF LiveIInv, Held
<1>1. CASE registry[p] # None
  <2>0. PICK i : i = registry[p]
    OBVIOUS
  <2> DEFINE q == [resource[i] EXCEPT !.refs = resource[i].refs + 1]
  <2>1. /\ i \in DOMAIN resource /\ ~resource[i].disposed /\ resource[i].place = p
        /\ v \notin Viewers[i] /\ i \in Nat
    BY <1>0, <1>1, <2>0 DEF LiveIInv, Held
  <2>2. /\ V!Acquired(p).id = i /\ V!Acquired(p).map = registry
        /\ V!Acquired(p).resources = [resource EXCEPT ![i] = q]
    BY <1>1, <2>0 DEF V!Acquired
  <2>3. resource[i] \in LiveResource /\ Sound(resource[i], data[resource[i].place])
    BY <2>1, Living
  <2>4. /\ q \in LiveResource /\ q.refs = resource[i].refs + 1 /\ q.place = p
        /\ Sound(q, data[q.place]) /\ ~q.disposed
    <3>1. resource[i].refs + 1 \in Nat
      BY <2>3, References
    <3>2. q \in LiveResource => ~q.disposed
      BY DEF LiveResource
    <3> QED BY <2>1, <2>3, <3>1, <3>2, Referred
  <2>5. /\ Viewers[i] # {} /\ resource[i].refs = Cardinality(Viewers[i])
    BY <2>1 DEF LiveIInv, Held, Counted
  <2>6. Cardinality(after[i]) = Cardinality(Viewers[i]) + 1
    <3>1. IsFiniteSet(Viewers[i])
      <4>1. Viewers[i] \subseteq View
        BY <2>1 DEF Viewers
      <4> QED BY <4>1, LiveAssumption, FS_Subset
    <3>2. after[i] = Viewers[i] \cup {v}
      BY <2>2
    <3> QED BY <2>1, <3>1, <3>2, FS_AddElement
  <2> HIDE DEF q
  <2>7. /\ V!Acquired(p).resources \in Seq(Kind)
        /\ DOMAIN V!Acquired(p).resources = DOMAIN resource
        /\ \A k \in DOMAIN resource : V!Acquired(p).resources[k] = IF k = i THEN q ELSE resource[k]
    BY <1>0, <2>1, <2>2, <2>4 DEF Kind
  <2>8. ASSUME NEW k \in DOMAIN resource
        PROVE  Counted(V!Acquired(p).resources[k], k, registry, after[k])
    <3>1. CASE k = i
      BY <1>0, <2>1, <2>2, <2>4, <2>5, <2>6, <2>7, <3>1, <2>0 DEF Counted
    <3>2. CASE k # i
      BY <1>0, <2>2, <2>7, <3>2 DEF LiveIInv, Held
    <3> QED BY <3>1, <3>2
  <2>9. ASSUME NEW o \in V!Place, registry[o] # None
        PROVE  /\ ~V!Acquired(p).resources[registry[o]].disposed
               /\ V!Acquired(p).resources[registry[o]].place = o
    <3>1. /\ registry[o] \in DOMAIN resource /\ ~resource[registry[o]].disposed
          /\ resource[registry[o]].place = o
      BY <1>0, <2>9 DEF LiveIInv, Held
    <3>2. CASE registry[o] = i
      BY <2>1, <2>4, <2>7, <3>1, <3>2
    <3>3. CASE registry[o] # i
      BY <2>7, <3>1, <3>3
    <3> QED BY <3>2, <3>3
  <2> QED BY <1>0, <2>1, <2>2, <2>7, <2>8, <2>9, <2>0 DEF Held
<1>2. CASE registry[p] = None
  <2> DEFINE n == Len(resource) + 1
             q == V!NewResource(p)
  <2>1. /\ V!Acquired(p).id = n /\ V!Acquired(p).map = [registry EXCEPT ![p] = n]
        /\ V!Acquired(p).resources = Append(resource, q)
    BY <1>2 DEF V!Acquired
  <2>2. q \in LiveResource /\ Sound(q, data[p]) /\ q.place = p /\ q.refs = 1 /\ ~q.disposed
    <3>1. q.place = p /\ q.refs = 1 /\ ~q.disposed
      BY DEF V!NewResource
    <3> QED BY <1>0, <3>1, NewIsLive, NewIsSound
  <2>3. after[n] = {v} /\ Cardinality(after[n]) = 1
    <3>1. Viewers[n] = {}
      BY <1>0 DEF LiveIInv, Viewers
    <3>2. after[n] = {v}
      BY <1>0, <2>1, <3>1
    <3> QED BY <3>2, FS_Singleton
  <2> HIDE DEF q
  <2>4. /\ V!Acquired(p).resources \in Seq(Kind)
        /\ DOMAIN V!Acquired(p).resources = DOMAIN resource \cup {n}
        /\ \A k \in DOMAIN resource : V!Acquired(p).resources[k] = resource[k]
        /\ V!Acquired(p).resources[n] = q
    BY <1>0, <2>1, <2>2 DEF Kind
  <2>5. /\ V!Acquired(p).map \in [V!Place -> DOMAIN V!Acquired(p).resources \cup {None}]
        /\ \A o \in V!Place : V!Acquired(p).map[o] = IF o = p THEN n ELSE registry[o]
    BY <1>0, <2>1, <2>4
  <2>6. ASSUME NEW k \in DOMAIN resource
        PROVE  Counted(V!Acquired(p).resources[k], k, V!Acquired(p).map, after[k])
    <3>1. k # n /\ k \in Nat
      BY <1>0
    <3>2. after[k] = Viewers[k] /\ Counted(resource[k], k, registry, Viewers[k])
      BY <2>1, <3>1 DEF LiveIInv, Held
    <3>3. resource[k].place \in V!Place
      BY <1>0, Kinds
    <3>4. CASE resource[k].disposed
      BY <2>4, <3>2, <3>4 DEF Counted
    <3>5. CASE ~resource[k].disposed
      <4>1. k # None
        BY <1>0, <3>1
      <4>2. resource[k].place # p
        BY <1>2, <3>2, <3>5, <4>1 DEF Counted
      <4> QED BY <2>4, <2>5, <3>2, <3>3, <3>5, <4>2 DEF Counted
    <3> QED BY <3>4, <3>5
  <2>7. Counted(V!Acquired(p).resources[n], n, V!Acquired(p).map, after[n])
    BY <2>2, <2>3, <2>4, <2>5 DEF Counted
  <2>8. ASSUME NEW o \in V!Place, V!Acquired(p).map[o] # None
        PROVE  /\ ~V!Acquired(p).resources[V!Acquired(p).map[o]].disposed
               /\ V!Acquired(p).resources[V!Acquired(p).map[o]].place = o
    BY <1>0, <2>2, <2>4, <2>5, <2>8 DEF LiveIInv, Held
  <2> QED BY <1>0, <2>1, <2>4, <2>5, <2>6, <2>7, <2>8 DEF Held
<1> QED BY <1>1, <1>2

\* A view less: the last one disposes of the resource and takes it from the registry.
LEMMA Releases ==
  ASSUME NEW resources, NEW map, NEW before, NEW after, NEW i \in DOMAIN resources,
         NEW v \in before[i], IsFiniteSet(before[i]), data' = data,
         Held(resources, map, before), V!Release(resources, map, i),
         after[i] = before[i] \ {v}, \A k \in Nat \ {i} : after[k] = before[k]
  PROVE  Held(resource', registry', after) /\ DOMAIN resource' = DOMAIN resources
<1> DEFINE r == resources[i]
<1>0. /\ resources \in Seq(Kind) /\ DOMAIN resources = 1..Len(resources) /\ Len(resources) \in Nat
      /\ map \in [V!Place -> DOMAIN resources \cup {None}] /\ None \notin Nat /\ i \in Nat
  BY LiveAssumption DEF Held
<1>1. /\ ~r.disposed /\ r.refs = Cardinality(before[i]) /\ map[r.place] = i
      /\ Sound(r, data[r.place])
  BY DEF Held, Counted
<1>2. r \in LiveResource /\ r.place \in V!Place
  BY <1>0, <1>1, Kinds
<1>3. after[i] = before[i] \ {v} /\ IsFiniteSet(after[i]) /\ Cardinality(after[i]) = r.refs - 1
  BY <1>0, <1>1, FS_RemoveElement
<1>4. resource' = [resources EXCEPT ![i] = V!Left(r)]
  BY DEF V!Release
<1>5. r.refs \in Nat /\ Cardinality(after[i]) \in Nat
  BY <1>2, <1>3, FS_CardinalityType DEF LiveResource
<1>6. CASE r.refs > 1
  <2> DEFINE q == [r EXCEPT !.refs = r.refs - 1]
  <2>1. V!Left(r) = q
    BY <1>6 DEF V!Left
  <2>2. q \in LiveResource /\ q.refs = r.refs - 1 /\ q.place = r.place /\ Sound(q, data[q.place])
    BY <1>1, <1>2, <1>5, <1>6, Referred
  <2>3. ~q.disposed
    BY <2>2 DEF LiveResource
  <2>4. after[i] # {}
    BY <1>3, <1>5, <1>6, FS_EmptySet
  <2> HIDE DEF q
  <2>5. /\ resource' \in Seq(Kind) /\ DOMAIN resource' = DOMAIN resources
        /\ \A k \in DOMAIN resources : resource'[k] = IF k = i THEN q ELSE resources[k]
    BY <1>0, <1>4, <2>1, <2>2 DEF Kind
  <2>6. registry' = map
    BY <2>3, <2>5 DEF V!Release
  <2>7. ASSUME NEW k \in DOMAIN resources
        PROVE  Counted(resource'[k], k, registry', after[k])
    <3>1. CASE k = i
      BY <1>1, <1>3, <2>2, <2>3, <2>4, <2>5, <2>6, <3>1 DEF Counted
    <3>2. CASE k # i
      BY <1>0, <2>5, <2>6, <3>2 DEF Held
    <3> QED BY <3>1, <3>2
  <2>8. \A p \in V!Place : map[p] # None =>
          ~resource'[map[p]].disposed /\ resource'[map[p]].place = p
    BY <1>0, <2>2, <2>3, <2>5 DEF Held
  <2> QED BY <1>0, <2>5, <2>6, <2>7, <2>8 DEF Held
<1>7. CASE ~(r.refs > 1)
  <2> DEFINE q == V!Disposed(r.place)
  <2>1. V!Left(r) = q
    BY <1>7 DEF V!Left
  <2>2. q \in Kind /\ q.disposed /\ q.place = r.place
    BY <1>2, Gone
  <2>3. after[i] = {}
    BY <1>3, <1>5, <1>7, FS_EmptySet
  <2> HIDE DEF q
  <2>4. /\ resource' \in Seq(Kind) /\ DOMAIN resource' = DOMAIN resources
        /\ \A k \in DOMAIN resources : resource'[k] = IF k = i THEN q ELSE resources[k]
    BY <1>0, <1>4, <2>1, <2>2
  <2>5. registry' = [map EXCEPT ![r.place] = None]
    BY <2>2, <2>4 DEF V!Release
  <2>6. /\ registry' \in [V!Place -> DOMAIN resource' \cup {None}]
        /\ \A p \in V!Place : registry'[p] = IF p = r.place THEN None ELSE map[p]
    BY <1>0, <2>4, <2>5
  <2>7. ASSUME NEW k \in DOMAIN resources
        PROVE  Counted(resource'[k], k, registry', after[k])
    <3>1. CASE k = i
      BY <2>2, <2>3, <2>4, <3>1 DEF Counted
    <3>2. CASE k # i
      <4>1. /\ resource'[k] = resources[k] /\ after[k] = before[k]
            /\ Counted(resources[k], k, map, before[k]) /\ resources[k].place \in V!Place
        BY <1>0, <2>4, <3>2, Kinds DEF Held
      <4>2. CASE resources[k].disposed
        BY <4>1, <4>2 DEF Counted
      <4>3. CASE ~resources[k].disposed
        <5>1. resources[k].place # r.place
          BY <1>1, <3>2, <4>1, <4>3 DEF Counted
        <5> QED BY <2>6, <4>1, <4>3, <5>1 DEF Counted
      <4> QED BY <4>2, <4>3
    <3> QED BY <3>1, <3>2
  <2>8. ASSUME NEW p \in V!Place, registry'[p] # None
        PROVE  ~resource'[registry'[p]].disposed /\ resource'[registry'[p]].place = p
    <3>1. p # r.place /\ registry'[p] = map[p] /\ map[p] \in DOMAIN resources
      BY <1>0, <2>6, <2>8
    <3>2. ~resources[map[p]].disposed /\ resources[map[p]].place = p
      BY <2>8, <3>1 DEF Held
    <3>3. map[p] # i
      BY <3>1, <3>2
    <3> QED BY <2>4, <3>1, <3>2, <3>3
  <2> QED BY <2>4, <2>6, <2>7, <2>8 DEF Held
<1> QED BY <1>6, <1>7

\* The invariant after a step of views.
LEMMA HeldThen ==
  ASSUME LiveIInv, data' = data, Held(resource', registry', Viewers'),
         shown' \in [View -> DOMAIN resource' \cup {None}]
  PROVE  LiveIInv'
<1>1. Held(resource, registry, Viewers)'
  BY DEF Held, Counted
<1> QED BY <1>1 DEF LiveIInv

\* The viewers of a resource, before and after a step.
LEMMA ViewersAre ==
  ASSUME LiveIInv
  PROVE  /\ \A k \in Nat : IsFiniteSet(Viewers[k]) /\ Viewers[k] = {w \in View : shown[w] = k}
         /\ \A k \in Nat : Viewers'[k] = {w \in View : shown'[w] = k}
         /\ DOMAIN resource = 1..Len(resource) /\ Len(resource) \in Nat /\ None \notin Nat
<1>1. \A k \in Nat : Viewers[k] = {w \in View : shown[w] = k}
  BY DEF Viewers
<1>2. \A k \in Nat : IsFiniteSet(Viewers[k])
  <2>1. \A k \in Nat : Viewers[k] \subseteq View
    BY <1>1
  <2> QED BY <2>1, LiveAssumption, FS_Subset
<1>3. \A k \in Nat : Viewers'[k] = {w \in View : shown'[w] = k}
  BY DEF Viewers
<1>4. DOMAIN resource = 1..Len(resource) /\ Len(resource) \in Nat /\ None \notin Nat
  BY LiveAssumption DEF LiveIInv, Held
<1> QED BY <1>1, <1>2, <1>3, <1>4

\* A view that comes.
LEMMA StepMount ==
  ASSUME LiveIInv, NEW v \in View, NEW p \in V!Place, V!Mount(v, p)
  PROVE  LiveIInv'
<1>1. PICK id : id = V!Acquired(p).id
  OBVIOUS
<1>2. /\ shown[v] = None /\ shown' = [shown EXCEPT ![v] = id] /\ data' = data
      /\ resource' = V!Acquired(p).resources /\ registry' = V!Acquired(p).map
  BY <1>1 DEF V!Mount
<1>3. /\ shown \in [View -> DOMAIN resource \cup {None}]
      /\ registry \in [V!Place -> DOMAIN resource \cup {None}]
  BY DEF LiveIInv, Held
<1>4. registry[p] # None => v \notin Viewers[registry[p]]
  BY <1>2, <1>3, ViewersAre
<1>5. id \in Nat
  BY <1>1, <1>3, ViewersAre DEF V!Acquired
<1>6. Viewers'[id] = Viewers[id] \cup {v}
  BY <1>2, <1>3, <1>5, ViewersAre
<1>7. ASSUME NEW k \in Nat \ {id} PROVE Viewers'[k] = Viewers[k]
  <2>1. \A w \in View : shown'[w] = k <=> shown[w] = k
    BY <1>2, <1>3, ViewersAre
  <2> QED BY <2>1, ViewersAre
<1>8. /\ Held(resource', registry', Viewers') /\ id \in DOMAIN resource'
      /\ DOMAIN resource \subseteq DOMAIN resource'
  BY <1>1, <1>2, <1>4, <1>6, <1>7, Acquires
<1>9. shown' \in [View -> DOMAIN resource' \cup {None}]
  BY <1>2, <1>3, <1>8
<1> QED BY <1>2, <1>8, <1>9, HeldThen

\* A view that goes.
LEMMA StepUnmount ==
  ASSUME LiveIInv, NEW v \in View, V!Unmount(v)
  PROVE  LiveIInv'
<1>1. PICK i : i = shown[v]
  OBVIOUS
<1>2. /\ i # None /\ shown' = [shown EXCEPT ![v] = None] /\ data' = data
      /\ V!Release(resource, registry, i)
  BY <1>1 DEF V!Unmount
<1>3. shown \in [View -> DOMAIN resource \cup {None}] /\ Held(resource, registry, Viewers)
  BY DEF LiveIInv
<1>4. i \in DOMAIN resource /\ i \in Nat /\ v \in Viewers[i] /\ IsFiniteSet(Viewers[i])
  BY <1>1, <1>2, <1>3, ViewersAre
<1>5. Viewers'[i] = Viewers[i] \ {v}
  BY <1>2, <1>3, <1>4, ViewersAre
<1>6. ASSUME NEW k \in Nat \ {i} PROVE Viewers'[k] = Viewers[k]
  <2>1. \A w \in View : shown'[w] = k <=> shown[w] = k
    BY <1>1, <1>2, <1>3, ViewersAre
  <2> QED BY <2>1, ViewersAre
<1>7. Held(resource', registry', Viewers') /\ DOMAIN resource' = DOMAIN resource
  BY <1>2, <1>3, <1>4, <1>5, <1>6, Releases
<1>8. shown' \in [View -> DOMAIN resource' \cup {None}]
  BY <1>2, <1>3, <1>7
<1> QED BY <1>2, <1>7, <1>8, HeldThen

\* A view that changes its session: the next is acquired before the last is released.
LEMMA StepSwitch ==
  ASSUME LiveIInv, NEW v \in View, NEW s \in Session, V!Switch(v, s)
  PROVE  LiveIInv'
<1>1. PICK i : i = shown[v]
  OBVIOUS
<1>2. PICK id : id = V!Acquired(s).id
  OBVIOUS
<1>3. /\ i # None /\ shown' = [shown EXCEPT ![v] = id] /\ data' = data
      /\ resource[i].place # s
      /\ V!Release(V!Acquired(s).resources, V!Acquired(s).map, i)
  BY <1>1, <1>2 DEF V!Switch
<1>4. /\ shown \in [View -> DOMAIN resource \cup {None}]
      /\ registry \in [V!Place -> DOMAIN resource \cup {None}]
      /\ s \in V!Place
  BY DEF LiveIInv, Held, V!Place
<1>5. i \in DOMAIN resource /\ i \in Nat /\ v \in Viewers[i] /\ IsFiniteSet(Viewers[i])
  BY <1>1, <1>3, <1>4, ViewersAre
<1>6. registry[s] # i
  BY <1>3, <1>4, <1>5, ViewersAre DEF LiveIInv, Held
<1>7. registry[s] # None => v \notin Viewers[registry[s]]
  BY <1>1, <1>4, <1>6, ViewersAre
<1>8. id \in Nat /\ id # i
  BY <1>2, <1>4, <1>5, <1>6, ViewersAre DEF V!Acquired
<1> DEFINE both == [k \in Nat |-> IF k = id THEN Viewers[k] \cup {v} ELSE Viewers[k]]
<1>9. both[id] = Viewers[id] \cup {v} /\ \A k \in Nat \ {id} : both[k] = Viewers[k]
  BY <1>8
<1> HIDE DEF both
<1>10. /\ Held(V!Acquired(s).resources, V!Acquired(s).map, both)
       /\ id \in DOMAIN V!Acquired(s).resources
       /\ DOMAIN resource \subseteq DOMAIN V!Acquired(s).resources
  BY <1>2, <1>4, <1>7, <1>9, Acquires
<1>11. i \in DOMAIN V!Acquired(s).resources /\ v \in both[i] /\ IsFiniteSet(both[i])
  BY <1>5, <1>8, <1>9, <1>10
<1>12. Viewers'[i] = both[i] \ {v}
  BY <1>3, <1>4, <1>5, <1>8, <1>9, ViewersAre
<1>13. ASSUME NEW k \in Nat \ {i} PROVE Viewers'[k] = both[k]
  <2>1. CASE k = id
    <3>1. Viewers'[id] = {w \in View : shown'[w] = id} /\ Viewers[id] = {w \in View : shown[w] = id}
      BY <1>8, ViewersAre
    <3>2. \A w \in View : shown'[w] = id <=> (w = v \/ shown[w] = id)
      BY <1>3, <1>4
    <3> QED BY <1>9, <2>1, <3>1, <3>2
  <2>2. CASE k # id
    <3>1. \A w \in View : shown'[w] = k <=> shown[w] = k
      BY <1>1, <1>3, <1>4, <2>2, ViewersAre
    <3>2. Viewers'[k] = {w \in View : shown'[w] = k} /\ Viewers[k] = {w \in View : shown[w] = k}
      BY ViewersAre
    <3>3. both[k] = Viewers[k]
      BY <1>9, <2>2
    <3> QED BY <3>1, <3>2, <3>3
  <2> QED BY <2>1, <2>2
<1>14. /\ Held(resource', registry', Viewers')
       /\ DOMAIN resource' = DOMAIN V!Acquired(s).resources
  BY <1>3, <1>10, <1>11, <1>12, <1>13, Releases
<1>15. shown' \in [View -> DOMAIN resource' \cup {None}]
  BY <1>3, <1>4, <1>10, <1>14
<1> QED BY <1>3, <1>14, <1>15, HeldThen

\* Every step keeps the invariant of the panels.
LEMMA LiveStep == LiveIInv /\ [V!LiveNext]_liveVars => LiveIInv'
<1> SUFFICES ASSUME LiveIInv, [V!LiveNext]_liveVars PROVE LiveIInv'
  OBVIOUS
<1>1. CASE UNCHANGED liveVars
  <2>1. data' = data /\ resource' = resource /\ registry' = registry /\ shown' = shown
    BY <1>1 DEF liveVars
  <2>2. Viewers' = Viewers
    BY <2>1 DEF Viewers
  <2> QED BY <2>1, <2>2, HeldThen DEF LiveIInv
<1> QED
  BY <1>1, StepReload, StepFind, StepFinish, StepChange, StepMount, StepUnmount, StepSwitch DEF V!LiveNext

------------------------------------------------------------------------------
(* A collection: its answer is made of what was gathered.                   *)

HasRows(r) == r.entries \in Seq(Row) /\ r.accounting \in Seq(Row)

\* What a collection has gathered is of the right kind, and its answer is made of it.
CollectionIInv ==
  /\ \A id \in Ids : HasRows(results[id]) /\ stage \in {"start", "available", "fetched", "done"}
  /\ Q!Collected => answer = [message |-> Q!Message, all |-> Q!Data("allWindows"), single |-> Q!Data("singleWindow")]

\* What is left of a window is a number.
LEMMA RowsLeft ==
  ASSUME NEW rows \in Seq(Row)
  PROVE  /\ DOMAIN rows = 1..Len(rows) /\ Len(rows) \in Nat /\ rows # <<>> => 1 \in DOMAIN rows
         /\ \A i \in DOMAIN rows : rows[i].left \in Int /\ rows[i].left >= Q!Missing
<1>1. \A row \in Row : row.left \in Int /\ row.left >= Q!Missing
  BY DEF Row, Q!Missing
<1>2. \A i \in DOMAIN rows : rows[i] \in Row
  OBVIOUS
<1>3. DOMAIN rows = 1..Len(rows) /\ Len(rows) \in Nat /\ rows # <<>> => 1 \in DOMAIN rows
  OBVIOUS
<1> QED  BY <1>1, <1>2, <1>3

\* Numbers that are bounded from below have a least.
LEMMA LeastExists ==
  ASSUME NEW S \in SUBSET Int, NEW bound \in Int, \A n \in S : n >= bound, S # {}
  PROVE  \E n \in S : \A m \in S : n <= m
<1> DEFINE Above == {n \in Nat : bound + n \in S}
<1>1. Above \subseteq Nat /\ Above # {}
  <2>1. PICK n \in S : TRUE  OBVIOUS
  <2>2. n - bound \in Nat /\ bound + (n - bound) = n  OBVIOUS
  <2> QED  BY <2>2
<1>2. PICK n \in Above : \A m \in Above : <<m, n>> \notin OpToRel(<, Nat)
  <2> HIDE DEF Above
  <2>1. IsWellFoundedOn(OpToRel(<, Nat), Nat)  BY NatLessThanWellFounded
  <2> QED  BY <1>1, <2>1, WFMin
<1>3. \A m \in Above : ~(m < n)
  BY <1>1, <1>2 DEF OpToRel
<1>4. \A m \in S : m - bound \in Above /\ bound + n <= m
  <2> SUFFICES ASSUME NEW m \in S PROVE m - bound \in Above /\ bound + n <= m
    OBVIOUS
  <2>1. m - bound \in Nat /\ bound + (m - bound) = m  OBVIOUS
  <2>2. m - bound \in Above  BY <2>1
  <2> QED  BY <2>2, <1>3, <1>1
<1> QED  BY <1>4

\* The row of the single window has the least that is left of all.
LEMMA SelectsLeast ==
  ASSUME NEW rows \in Seq(Row), rows # <<>>
  PROVE  /\ Q!SelectedIndex(rows) \in DOMAIN rows
         /\ \A i \in DOMAIN rows : rows[i].left # Q!Missing =>
              rows[Q!SelectedIndex(rows)].left \in (Q!Missing + 1)..rows[i].left
<1> DEFINE percent == {i \in DOMAIN rows : rows[i].left # Q!Missing}
           least == {i \in percent : \A j \in percent : rows[i].left <= rows[j].left}
           lefts == {rows[i].left : i \in percent}
<1>1. /\ DOMAIN rows = 1..Len(rows) /\ 1 \in DOMAIN rows
      /\ \A i \in DOMAIN rows : rows[i].left \in Int /\ rows[i].left >= Q!Missing
  BY RowsLeft
<1>2. CASE percent = {}
  BY <1>1, <1>2 DEF Q!SelectedIndex
<1>3. CASE percent # {}
  <2>1. \E n \in lefts : \A m \in lefts : n <= m
    <3>1. lefts # {}
      BY <1>3
    <3>2. \A n \in lefts : n \in Int /\ n >= Q!Missing
      BY <1>1
    <3>3. Q!Missing \in Int /\ lefts \in SUBSET Int
      BY <3>2 DEF Q!Missing
    <3> HIDE DEF lefts
    <3> QED  BY <3>1, <3>2, <3>3, LeastExists
  <2>2. least # {}  BY <2>1
  <2>3. \E i \in least : \A j \in least : i <= j
    <3>1. least \in SUBSET Int /\ \A n \in least : n >= 1  BY <1>1
    <3> HIDE DEF least
    <3> QED  BY <3>1, <2>2, LeastExists
  <2>4. Q!SelectedIndex(rows) = CHOOSE i \in least : \A j \in least : i <= j
    BY <1>3 DEF Q!SelectedIndex
  <2>5. Q!SelectedIndex(rows) \in least
    <3> HIDE DEF least
    <3> QED  BY <2>3, <2>4
  <2> QED  BY <2>5, <1>1 DEF Q!Missing
<1> QED  BY <1>2, <1>3

\* At first nothing is gathered.
LEMMA CollectionStarts == Q!CollectionInit => CollectionIInv
<1>1. HasRows(Q!Failure)
  BY DEF HasRows, Q!Failure
<1> QED  BY <1>1 DEF Q!CollectionInit, CollectionIInv, Q!Collected

\* What is gathered decides what is made of it.
LEMMA GatheredDecides ==
  ASSUME UNCHANGED <<setting, selection, availability, results>>
  PROVE  /\ Q!NotSelected' = Q!NotSelected /\ Q!Waiting' = Q!Waiting
         /\ Q!Message' = Q!Message /\ \A style : Q!Data(style)' = Q!Data(style)
<1>1. Q!Explicit' = Q!Explicit /\ Q!Waiting' = Q!Waiting
  BY DEF Q!Explicit, Q!Waiting
<1>2. Q!Enabled' = Q!Enabled
  BY <1>1 DEF Q!Enabled
<1>3. Q!Filtered' = Q!Filtered /\ Q!NotSelected' = Q!NotSelected
  BY <1>1, <1>2 DEF Q!Filtered, Q!NotSelected
<1>4. Q!Active' = Q!Active /\ Q!FailedAvailability' = Q!FailedAvailability
  BY <1>3 DEF Q!Active, Q!FailedAvailability
<1>5. /\ Q!Surfaces' = Q!Surfaces /\ Q!Tokens' = Q!Tokens /\ Q!Attempted' = Q!Attempted
      /\ \A style : Q!Rows(style)' = Q!Rows(style)
  BY <1>1, <1>4 DEF Q!Surfaces, Q!Tokens, Q!Attempted, Q!Rows
<1>6. /\ Q!Skipped' = Q!Skipped /\ Q!Unavailable' = Q!Unavailable /\ Q!ResultErrors' = Q!ResultErrors
      /\ Q!NoDataErrors' = Q!NoDataErrors
  BY <1>1, <1>2, <1>3, <1>4, <1>5 DEF Q!Skipped, Q!Unavailable, Q!ResultErrors, Q!NoDataErrors
<1>7. Q!Errors' = Q!Errors /\ Q!ExplicitIssues' = Q!ExplicitIssues
  BY <1>1, <1>4, <1>6 DEF Q!Errors, Q!ExplicitIssues
<1>8. Q!FailureOnly' = Q!FailureOnly
  BY <1>5, <1>7 DEF Q!FailureOnly
<1>9. Q!Message' = Q!Message
  BY <1>1, <1>4, <1>5, <1>7, <1>8
  DEF Q!Message, Q!NobodySays, Q!RowsSay, Q!ErrorsSay, Q!SilenceSays, Q!NoRows
<1>10. \A style : Q!Data(style)' = Q!Data(style)
  BY <1>5, <1>7 DEF Q!Data, Q!NoRows
<1> QED  BY <1>1, <1>3, <1>9, <1>10

\* Every step keeps what was gathered.
LEMMA CollectionStep == ASSUME CollectionIInv, [Q!CollectionNext]_collectionVars PROVE CollectionIInv'
<1>1. CASE Q!Nobody
  <2>1. UNCHANGED <<setting, selection, availability, results>> /\ stage' = "done"
    BY <1>1 DEF Q!Nobody
  <2>2. ~Q!Collected'
    BY <1>1, <2>1, GatheredDecides DEF Q!Nobody, Q!Collected
  <2> QED  BY <2>1, <2>2 DEF CollectionIInv
<1>2. CASE Q!CheckAvailability
  <2>1. results' = results /\ stage' = "available"
    BY <1>2 DEF Q!CheckAvailability
  <2> QED  BY <2>1 DEF CollectionIInv, Q!Collected
<1>3. CASE Q!FetchResults
  <2>1. PICK r \in [Q!Active -> Result \cup {Rejected}] :
          results' = [id \in Ids |-> IF id \in Q!Active /\ r[id] # Rejected THEN r[id] ELSE Q!Failure]
    BY <1>3 DEF Q!FetchResults
  <2>2. HasRows(Q!Failure) /\ \A result \in Result : HasRows(result)
    BY CollectionAssumption DEF HasRows, Q!Failure
  <2>3. \A id \in Ids : HasRows(results'[id])
    BY <2>1, <2>2
  <2>4. stage' = "fetched"
    BY <1>3 DEF Q!FetchResults
  <2> QED  BY <2>3, <2>4 DEF CollectionIInv, Q!Collected
<1>4. CASE Q!Collect
  <2>1. /\ answer' = [message |-> Q!Message, all |-> Q!Data("allWindows"), single |-> Q!Data("singleWindow")]
        /\ UNCHANGED <<setting, selection, availability, results>> /\ stage' = "done"
    BY <1>4 DEF Q!Collect
  <2> QED  BY <2>1, GatheredDecides DEF CollectionIInv
<1>5. CASE UNCHANGED collectionVars
  <2>1. UNCHANGED <<setting, selection, stage, availability, results, answer>>
    BY <1>5 DEF collectionVars
  <2> QED  BY <2>1, GatheredDecides DEF CollectionIInv, Q!Collected
<1> QED  BY <1>1, <1>2, <1>3, <1>4, <1>5 DEF Q!CollectionNext

\* Each style shows rows of the same providers.
LEMMA StylesOfRows ==
  ASSUME CollectionIInv, NEW id \in Ids
  PROVE  LET all == Q!Rows("allWindows")[id]
             single == Q!Rows("singleWindow")[id]
         IN  /\ all \in Seq(Row)
             /\ id \in Q!Active => all = Q!Displayed(results[id])
             /\ all = <<>> <=> single = <<>>
             /\ \A style : all = <<>> <=> Q!Rows(style)[id] = <<>>
             /\ \A j \in DOMAIN single : \E i \in DOMAIN all : single[j] = all[i]
             /\ \A i \in DOMAIN all : all[i].left # Q!Missing =>
                  \E j \in DOMAIN single : single[j].left \in (Q!Missing + 1)..all[i].left
<1> DEFINE rows == Q!Displayed(results[id])
<1>1. rows \in Seq(Row)
  BY DEF CollectionIInv, HasRows, Q!Displayed
<1>2. CASE id \notin Q!Active
  BY <1>2 DEF Q!Rows
<1>3. CASE id \in Q!Active
  <2>1. \A style : Q!Rows(style)[id] = IF style = "allWindows" \/ id \in Keeps \/ rows = <<>> THEN rows
                                        ELSE <<rows[Q!SelectedIndex(rows)]>>
    BY <1>3 DEF Q!Rows, Q!Projected
  <2>2. Q!Rows("allWindows")[id] = rows
    BY <2>1
  <2>3. \A i \in DOMAIN rows : rows[i].left \in Int /\ rows[i].left >= Q!Missing
    BY <1>1, RowsLeft
  <2>4. CASE id \in Keeps \/ rows = <<>>
    <3>1. \A style : Q!Rows(style)[id] = rows
      BY <2>1, <2>4
    <3>2. \A i \in DOMAIN rows : rows[i].left # Q!Missing => rows[i].left \in (Q!Missing + 1)..rows[i].left
      BY <2>3 DEF Q!Missing
    <3>3. \A j \in DOMAIN rows : \E i \in DOMAIN rows : rows[j] = rows[i]
      OBVIOUS
    <3> QED  BY <3>1, <3>2, <3>3, <1>1
  <2>5. CASE id \notin Keeps /\ rows # <<>>
    <3> DEFINE k == Q!SelectedIndex(rows)
    <3>1. \A style : Q!Rows(style)[id] = IF style = "allWindows" THEN rows ELSE <<rows[k]>>
      BY <2>1, <2>5
    <3>2. k \in DOMAIN rows /\ \A i \in DOMAIN rows : rows[i].left # Q!Missing =>
                                     rows[k].left \in (Q!Missing + 1)..rows[i].left
      BY <1>1, <2>5, SelectsLeast
    <3> DEFINE one == <<rows[k]>>
    <3>3. DOMAIN one = {1} /\ one[1] = rows[k] /\ one # <<>>
      OBVIOUS
    <3> HIDE DEF k, one
    <3>4. Q!Rows("singleWindow")[id] = one
      BY <3>1 DEF one
    <3>5. \A style : Q!Rows(style)[id] # <<>>
      BY <3>1, <3>3, <2>5 DEF one
    <3> QED  BY <2>2, <3>2, <3>3, <3>4, <3>5, <1>1
  <2> QED  BY <2>4, <2>5
<1> QED  BY <1>2, <1>3

\* Rows, errors and messages, in an answer of a collection.
LEMMA CollectionImplies == CollectionIInv => Q!NothingVanishes /\ Q!StylesAgree /\ Q!RetriesTheTransient
<1> SUFFICES ASSUME CollectionIInv, Q!Collected
             PROVE  Q!NothingVanishes /\ Q!StylesAgree /\ Q!RetriesTheTransient
  BY DEF Q!NothingVanishes, Q!StylesAgree, Q!RetriesTheTransient
<1>1. /\ answer.message = Q!Message
      /\ answer.all.rows = Q!Rows("allWindows") /\ answer.single.rows = Q!Rows("singleWindow")
      /\ answer.all.errors = Q!Errors /\ answer.single.errors = Q!Errors
  BY DEF CollectionIInv, Q!Data
<1>2. Q!NothingVanishes
  <2> SUFFICES ASSUME Q!Surfaces, NEW id \in Q!Enabled,
                      ~(/\ id \in Q!Active /\ results[id].attempted
                        /\ Q!Displayed(results[id]) = <<>> /\ results[id].errors = {})
               PROVE  \/ answer.all.rows[id] # <<>> /\ answer.single.rows[id] # <<>>
                      \/ \E e \in Q!Errors : e.provider = id
    BY <1>1 DEF Q!NothingVanishes, Q!Shown
  <2>1. id \in Ids /\ Q!Explicit
    BY DEF Q!Enabled, Q!Surfaces
  <2>2. \A message : Q!Error(id, message).provider = id
    BY DEF Q!Error
  <2>3. CASE id \notin Q!Filtered
    BY <2>2, <2>3 DEF Q!Errors, Q!Skipped
  <2>4. CASE id \in Q!Filtered /\ id \notin Q!Active
    BY <2>2, <2>4 DEF Q!Errors, Q!Unavailable, Q!FailedAvailability, Q!Active
  <2>5. CASE id \in Q!Active
    <3>1. CASE Q!Displayed(results[id]) # <<>>
      BY <2>1, <2>5, <3>1, <1>1, StylesOfRows
    <3>2. CASE results[id].errors # {}
      <4>1. PICK m : m \in results[id].errors
        BY <3>2
      <4>2. Q!Error(id, m) \in Q!ResultErrors
        BY <4>1, <2>5 DEF Q!ResultErrors
      <4> QED  BY <2>2, <4>2 DEF Q!Errors
    <3>3. CASE ~results[id].attempted /\ Q!Displayed(results[id]) = <<>> /\ results[id].errors = {}
      <4>1. results[id].entries = <<>>
        BY <3>3 DEF Q!Displayed
      <4>2. Q!Error(id, "no data") \in Q!NoDataErrors
        BY <4>1, <3>3, <2>5, <2>1 DEF Q!NoDataErrors
      <4> QED  BY <2>2, <4>2 DEF Q!Errors
    <3> QED  BY <3>1, <3>2, <3>3, <2>5
  <2> QED  BY <2>3, <2>4, <2>5
<1>3. Q!StylesAgree
  BY <1>1, StylesOfRows DEF Q!StylesAgree
<1>4. Q!RetriesTheTransient
  <2> DEFINE m == Q!Message
  <2>1. \A style : Q!NoRows(Q!Rows(style)) <=> Q!NoRows(Q!Rows("allWindows"))
    BY StylesOfRows DEF Q!NoRows
  <2>2. Q!Active = {} => Q!NoRows(Q!Rows("allWindows"))
    BY DEF Q!Rows, Q!NoRows
  <2>3. /\ m.retry # "no" => Q!NoRows(Q!Rows("allWindows"))
        /\ m.retry = "provider_fetch_failed" => Q!FailureOnly
        /\ m.retry = "no_available_providers" => Q!Active = {}
    BY <2>1, <2>2
    DEF Q!Message, Q!NobodySays, Q!RowsSay, Q!ErrorsSay, Q!SilenceSays, Q!Says
  <2>4. Q!FailureOnly => \A id \in Q!Active : results[id].errors \subseteq {"failed"}
    <3> SUFFICES ASSUME Q!FailureOnly, NEW id \in Q!Active, NEW why \in results[id].errors
                 PROVE  why = "failed"
      OBVIOUS
    <3>1. Q!Error(id, why) \in Q!Errors
      BY DEF Q!Errors, Q!ResultErrors
    <3> QED  BY <3>1 DEF Q!FailureOnly, Q!Error
  <2>5. ASSUME ~Q!Explicit, Q!Active # {}, Q!FailedAvailability = {}, \A id \in Q!Active : results[id] = Q!Failure
        PROVE  m.retry = "provider_fetch_failed"
    <3>1. Q!NoRows(Q!Rows("allWindows"))
      <4>1. \A id \in Q!Active : Q!Displayed(results[id]) = <<>>
        BY <2>5 DEF Q!Displayed, Q!Failure
      <4> QED  BY <4>1, StylesOfRows, <2>2 DEF Q!NoRows, Q!Rows, Q!Projected
    <3>2. Q!Attempted
      BY <2>5 DEF Q!Attempted, Q!Failure
    <3>3. Q!Skipped = {} /\ Q!Unavailable = {} /\ Q!NoDataErrors = {}
      <4>1. Q!Skipped = {} /\ Q!Unavailable = {}
        BY <2>5 DEF Q!Skipped, Q!Unavailable, Q!Surfaces
      <4>2. \A id \in Q!Active : results[id].attempted
        BY <2>5 DEF Q!Failure
      <4> QED  BY <4>1, <4>2 DEF Q!NoDataErrors
    <3>4. ~Q!ExplicitIssues
      BY <3>3, <2>5 DEF Q!ExplicitIssues
    <3>5. Q!Errors = Q!ResultErrors
      BY <3>3, <2>5 DEF Q!Errors
    <3>6. Q!Errors # {} /\ \A e \in Q!Errors : e.message = "failed"
      <4>1. PICK id \in Q!Active : TRUE
        BY <2>5
      <4>2. \A one \in Q!Active : results[one].errors = {"failed"}
        BY <2>5 DEF Q!Failure
      <4>3. Q!Error(id, "failed") \in Q!ResultErrors
        BY <4>1, <4>2 DEF Q!ResultErrors
      <4>4. \A e \in Q!ResultErrors : \E one \in Q!Active : e = Q!Error(one, "failed")
        BY <4>2 DEF Q!ResultErrors
      <4>5. \A one : Q!Error(one, "failed").message = "failed"
        BY DEF Q!Error
      <4> QED  BY <3>5, <4>3, <4>4, <4>5
    <3>7. Q!FailureOnly
      BY <3>2, <3>6 DEF Q!FailureOnly
    <3> QED
      BY <2>1, <2>5, <3>1, <3>4, <3>7
      DEF Q!Message, Q!RowsSay, Q!ErrorsSay, Q!SilenceSays, Q!Says
  <2> QED  BY <1>1, <2>3, <2>4, <2>5 DEF Q!RetriesTheTransient
<1> QED  BY <1>2, <1>3, <1>4

------------------------------------------------------------------------------
(* All parts.                                                               *)

QueriesIInv ==
  /\ part = "anthropic" => AnthropicIInv
  /\ part = "copilot" => CopilotIInv /\ RequestIInv
  /\ part = "google" => GoogleIInv /\ GoogleAsks
  /\ part = "keyed" => KeyedIInv /\ KeyedSays
  /\ part = "sync" => SyncIInv
  /\ part = "live" => LiveIInv
  /\ part = "collection" => CollectionIInv

\* Every step is one of a part, or of none.
LEMMA PartSteps ==
  ASSUME [QueriesNext]_queriesVars
  PROVE  /\ part' = part
         /\ part = "anthropic" => [A!AnthropicNext]_anthropicVars
         /\ part = "copilot" => [C!CopilotNext]_copilotVars
         /\ part = "google" => [G!GoogleNext]_googleVars
         /\ part = "keyed" => [K!KeyedNext]_keyedVars
         /\ part = "sync" => [T!SyncNext]_syncVars
         /\ part = "live" => [V!LiveNext]_liveVars
         /\ part = "collection" => [Q!CollectionNext]_collectionVars
<1>1. CASE Anthropic  BY <1>1 DEF Anthropic
<1>2. CASE Copilot  BY <1>2 DEF Copilot
<1>3. CASE Google  BY <1>3 DEF Google
<1>4. CASE KeyedQuery  BY <1>4 DEF KeyedQuery
<1>5. CASE Syncing  BY <1>5 DEF Syncing
<1>6. CASE Live  BY <1>6 DEF Live
<1>7. CASE Collection  BY <1>7 DEF Collection
<1>8. CASE UNCHANGED queriesVars  BY <1>8 DEF queriesVars
<1> QED  BY <1>1, <1>2, <1>3, <1>4, <1>5, <1>6, <1>7, <1>8 DEF QueriesNext

\* Each part keeps its invariant, whatever it is that runs.
THEOREM QueriesInvariant == QueriesSpec => []QueriesIInv
<1>1. QueriesInit => QueriesIInv
  BY AnthropicStarts, CopilotStarts, GoogleStarts, KeyedStarts, SyncStarts, LiveStarts,
     CollectionStarts, RequestStarts, GoogleAsksStarts, KeyedSaysStarts
  DEF QueriesInit, QueriesIInv
<1>2. QueriesIInv /\ [QueriesNext]_queriesVars => QueriesIInv'
  <2> SUFFICES ASSUME QueriesIInv, [QueriesNext]_queriesVars PROVE QueriesIInv'
    OBVIOUS
  <2> QED
    BY PartSteps, AnthropicStep, CopilotStep, GoogleStep, KeyedStep, SyncStep, LiveStep, CollectionStep,
       RequestStep, GoogleAsksStep, KeyedSaysStep
    DEF QueriesIInv
<1> QED  BY <1>1, <1>2, PTL DEF QueriesSpec

\* Nobody is shown the quota of another account (queryAnthropicQuota, queryGoogleQuota,
\* the keyed providers), whatever is edited, shared or written over meanwhile.
THEOREM OwnAccountAlways == QueriesSpec => []OwnAccount
<1>1. QueriesIInv => OwnAccount
  BY GoogleImplies DEF QueriesIInv, OwnAccount, AnthropicIInv, KeyedIInv
<1> QED  BY <1>1, QueriesInvariant, PTL

\* A provider that says it is available is asked and answered, with a row or an error:
\* the searches for a credential agree, and no answer is read as nothing at all
\* (has*QuotaRuntimeAvailable and query* of Google, isAvailable and fetch of the keyed
\* providers, queryCopilotQuota).
THEOREM AvailableAlwaysAnswered == QueriesSpec => []AvailableIsAnswered
<1>1. QueriesIInv => AvailableIsAnswered
  BY RequestImplies, GoogleAsksImplies, KeyedSaysImplies DEF QueriesIInv, AvailableIsAnswered
<1> QED  BY <1>1, QueriesInvariant, PTL

\* A merge counts the sessions of its machine once (loadMergedTokenUsage).
THEOREM OwnCountedOnceAlways == QueriesSpec => []OwnCountedOnce
<1>1. QueriesIInv => OwnCountedOnce
  BY SyncImplies DEF QueriesIInv, OwnCountedOnce
<1> QED  BY <1>1, QueriesInvariant, PTL

\* A panel at rest has not missed a reload, and its resource lives as long as its views
\* (createSessionQuotaResource, acquireSessionQuotaResource).
THEOREM PanelsAlwaysRest == QueriesSpec => []PanelRestsCurrent
<1>1. QueriesIInv => PanelRestsCurrent
  BY LiveImplies DEF QueriesIInv, PanelRestsCurrent
<1> QED  BY <1>1, QueriesInvariant, PTL

\* Whatever mixture of results a collection gathers, a provider that the user named is
\* accounted for, both styles agree and the toast is retried for what may pass
\* (collectQuotaRenderData, fetchQuotaMessageResult).
THEOREM CollectionAlwaysAccounts == QueriesSpec => []CollectionAccounts
<1>1. QueriesIInv => CollectionAccounts
  BY CollectionImplies DEF QueriesIInv, CollectionAccounts
<1> QED  BY <1>1, QueriesInvariant, PTL

\* The usage endpoint is left alone while it paused or is being asked
\* (queryAnthropicQuota, setCooldown).
THEOREM EndpointLeftAlone == QueriesSpec => LeavesEndpointAlone
<1>1. QueriesIInv /\ [QueriesNext]_queriesVars => [AsksInTurn]_anthropicVars
  <2> SUFFICES ASSUME QueriesIInv, [QueriesNext]_queriesVars, part = "anthropic"
               PROVE  A!AsksInTurn \/ UNCHANGED anthropicVars
    BY DEF AsksInTurn
  <2> QED  BY PartSteps, AnthropicAsks DEF QueriesIInv
<1> QED  BY <1>1, QueriesInvariant, PTL DEF QueriesSpec, LeavesEndpointAlone

\* A query of Copilot does what /quota_status says that it would (queryCopilotQuota,
\* getCopilotQuotaAuthDiagnostics).
THEOREM CopilotForetold == QueriesSpec => CopilotAsForetold
<1>1. QueriesIInv /\ [QueriesNext]_queriesVars => [AsForetold]_copilotVars
  <2> SUFFICES ASSUME QueriesIInv, [QueriesNext]_queriesVars, part = "copilot"
               PROVE  (C!SentAsPlanned /\ C!Foretold) \/ UNCHANGED copilotVars
    BY DEF AsForetold
  <2> QED  BY PartSteps, CopilotSends, CopilotDecides DEF QueriesIInv
<1> QED  BY <1>1, QueriesInvariant, PTL DEF QueriesSpec, CopilotAsForetold
==============================================================================
