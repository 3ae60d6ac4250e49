----------------------------- MODULE KeyedProviders -----------------------------
(***************************************************************************)
(* One query of a provider that is asked with a key: whether it is         *)
(* available, under which credential its answer is cached                  *)
(* (createResolvedAuthCachePolicy), and the request itself.  Each of the   *)
(* three finds the credential anew in environment variables, opencode.json *)
(* files and auth.json or a file of the provider's own, and all of these   *)
(* change in between.                                                      *)
(*                                                                         *)
(* A provider says where it looks.  Kinds of it: "strict" takes what its   *)
(* first entry of auth.json says, an error if need be (Kimi, Z.ai, Zhipu,  *)
(* MiniMax, Alibaba); "loose" looks for any entry with a key; "oauth" for  *)
(* one with an access token (OpenAI); "file" has a file of its own         *)
(* (OpenCode Go, Ollama Cloud).  Alibaba is not cached and counts its      *)
(* requests itself.                                                        *)
(***************************************************************************)
EXTENDS ProviderAnswers

CONSTANTS
  Provider,      \* [id, kind, gate, cached, china, env, allowed, keys, authKeys]
  World,         \* [env, configs, auth, own, listed]
  Answers,       \* what the endpoint of each id may say
  None,
  MaxBudgets,    \* 64 in parseOpenRouterAccounting
  MaxEdits

VARIABLES
  provider, world, edits,
  steady,        \* whether nothing was edited since availability was asked for
  stage,         \* "idle", "selected", "prepared", "unscoped", "asking", "done"
  purpose,       \* what a credential is looked for, while auth.json is read
  credential,    \* the one the cache entry is identified by
  asked,         \* the one the request goes out with
  result

keyedVars == <<provider, world, edits, steady, stage, purpose, credential, asked, result>>

NoneFound == [state |-> "none", key |-> None]
Configured(key) == [state |-> "configured", key |-> key]
Invalid(why) == [state |-> "invalid", key |-> why]

\* The first element of a sequence that satisfies P, mapped by F, or other.
FirstOf(s, P(_), F(_), other) ==
  LET hits == {i \in DOMAIN s : P(s[i])}
  IN  IF hits = {} THEN other ELSE F(s[Min(hits)])

------------------------------------------------------------------------------
(* Where keys come from.                                                    *)

\* resolveEnvTemplate: an option is a text or names a variable, which must be one
\* that the provider allows.
OptionKey(option, w, p) ==
  IF option.var = None THEN option.text
  ELSE IF option.var \in p.allowed THEN w.env[option.var] ELSE None

\* extractProviderOptionsApiKey, None for a file that cannot be read.
ConfigKey(config, w, p) ==
  FirstOf(p.keys,
          LAMBDA k : k \in DOMAIN config /\ OptionKey(config[k], w, p) # None,
          LAMBDA k : OptionKey(config[k], w, p), None)

\* resolveApiKeyFromEnvAndConfig
FromEnvAndConfig(w, p) ==
  LET env == FirstOf(p.env, LAMBDA v : w.env[v] # None, LAMBDA v : w.env[v], None)
      config == FirstOf(w.configs, LAMBDA c : ConfigKey(c, w, p) # None, LAMBDA c : ConfigKey(c, w, p), None)
  IN  IF env # None THEN Configured(env)
      ELSE IF config # None THEN Configured(config) ELSE NoneFound

\* What an entry of auth.json holds for a provider that is strict about it.
ApiEntry(e) ==
  IF e.form = "null" THEN NoneFound
  ELSE IF e.form # "record" THEN Invalid("shape")
  ELSE IF e.type # "api" THEN Invalid("type")
  ELSE IF e.key = None THEN Invalid("empty")
  ELSE Configured(e.key)

\* Alibaba's names a tier, too, and null is no entry of the right shape.
AlibabaEntry(e) ==
  IF e.form = "null" THEN Invalid("shape")
  ELSE IF ApiEntry(e).state = "configured" /\ e.tier = "unsupported" THEN Invalid("tier")
  ELSE ApiEntry(e)

\* The first name of the provider that is present decides, whatever it holds.
FirstEntry(auth, p) == FirstOf(p.authKeys, LAMBDA k : k \in DOMAIN auth, LAMBDA k : <<auth[k]>>, <<>>)

\* Four of the five read it alike.
KimiAuth(auth, p) == IF FirstEntry(auth, p) = <<>> THEN NoneFound ELSE ApiEntry(FirstEntry(auth, p)[1])
ZaiAuth(auth, p) == KimiAuth(auth, p)
ZhipuAuth(auth, p) == KimiAuth(auth, p)
MiniMaxAuth(auth, p) == KimiAuth(auth, p)
AlibabaAuth(auth, p) == IF FirstEntry(auth, p) = <<>> THEN NoneFound ELSE AlibabaEntry(FirstEntry(auth, p)[1])

\* Any entry with a key of the type will do.
AnyEntry(auth, p, type) ==
  FirstOf(p.authKeys,
          LAMBDA k : /\ k \in DOMAIN auth /\ auth[k].form = "record"
                     /\ auth[k].type = type /\ auth[k].key # None,
          LAMBDA k : Configured(auth[k].key), NoneFound)

\* extractAuthApiKeyEntry, getOpenAIOAuthEntry
LooseEntry(auth, p) == AnyEntry(auth, p, "api")
OpenAIEntry(auth, p) == AnyEntry(auth, p, "oauth")

\* Of pairs of a workspace and its cookie those that are whole, each in its place.
Cookies(pairs) ==
  [i \in {j \in DOMAIN pairs : pairs[j].id /\ pairs[j].cookie # None} |-> pairs[i].cookie]

\* resolveMultiFromEnv: pairs of variables, of which incomplete ones are passed over.
OpenCodeGoEnv(w) ==
  IF Cookies(w.own.env) = <<>> THEN NoneFound ELSE Configured(Cookies(w.own.env))

\* resolveOllamaCloudConfigFromEnv: its one variable is the cookie.
OllamaCloudEnv(w) == OpenCodeGoEnv(w)

\* The first file that is there decides, with what is whole in it.
FirstFile(files) ==
  LET read(f) == IF f.form = "invalid" THEN Invalid("file")
                 ELSE IF Cookies(f.entries) = <<>> THEN Invalid("incomplete")
                 ELSE Configured(Cookies(f.entries))
  IN  FirstOf(files, LAMBDA f : f.form # "missing", read, NoneFound)

\* resolveOpenCodeGoConfig, resolveOllamaCloudConfig
OpenCodeGoFile(w) == FirstFile(w.own.files)
OllamaCloudFile(w) == FirstFile(w.own.files)

\* What is found without, and with, a file that holds credentials.
Early(w, p) ==
  CASE p.id = "opencode-go" -> OpenCodeGoEnv(w)
    [] p.id = "ollama-cloud" -> OllamaCloudEnv(w)
    [] p.id = "openai" -> NoneFound
    [] OTHER -> FromEnvAndConfig(w, p)

Late(w, p) ==
  CASE p.id = "opencode-go" -> OpenCodeGoFile(w)
    [] p.id = "ollama-cloud" -> OllamaCloudFile(w)
    [] p.id = "kimi" -> KimiAuth(w.auth, p)
    [] p.id = "zai" -> ZaiAuth(w.auth, p)
    [] p.id = "zhipu" -> ZhipuAuth(w.auth, p)
    [] p.id = "minimax" -> MiniMaxAuth(w.auth, p)
    [] p.id = "alibaba" -> AlibabaAuth(w.auth, p)
    [] p.id = "openai" -> OpenAIEntry(w.auth, p)
    [] OTHER -> LooseEntry(w.auth, p)

\* Mutant: a provider that OpenCode lists is available.
Available_Listed(w, p, found) ==
  w.listed = "yes" \/ (w.listed = "fails" /\ p.kind = "oauth") \/ found.state = "configured"

\* isAvailable: the listing of OpenCode is needed, suffices, or does not matter.
\* OpenAI alone takes a listing that fails for one that has it.
Available(w, p, found) ==
  LET listed == w.listed = "yes" \/ (w.listed = "fails" /\ p.kind = "oauth")
  IN  CASE p.gate = "and" -> listed /\ found.state # "none"
        [] p.gate = "entry" -> found.state # "none"
        [] p.gate = "or" -> listed \/ found.state = "configured"
        [] p.gate = "key" -> found.state = "configured"

------------------------------------------------------------------------------
(* A query.                                                                 *)

Reading(p, a) ==
  CASE p.id = "nanogpt" -> NanoGpt(a.usage, a.balance)
    [] p.id = "kilo" -> Kilo(a.balance, a.pass)
    [] p.id = "kimi" -> Kimi(a)
    [] p.id = "zai" -> Zai(a)
    [] p.id = "zhipu" -> Zhipu(a)
    [] p.id = "minimax" -> MiniMax(a, p.china)
    [] p.id = "openai" -> OpenAI(a)
    [] p.id = "synthetic" -> Synthetic(a)
    [] p.id = "ollama-cloud" -> OllamaCloud(a)
    [] p.id = "deepseek" -> DeepSeek(a)
    [] p.id = "chutes" -> Chutes(a)
    [] p.id = "alibaba" -> Attempted(Known({"fiveHour", "weekly", "monthly"}, a), {})
    [] p.id = "openrouter" -> OpenRouter(a, MaxBudgets)

KeyedInit ==
  /\ provider \in Provider /\ world \in World /\ edits = 0 /\ steady = TRUE
  /\ stage = "idle" /\ purpose = "none"
  /\ credential = None /\ asked = None /\ result = NotAttempted

Edit ==
  /\ edits < MaxEdits /\ edits' = edits + 1
  /\ world' \in World \ {world}
  /\ steady' = FALSE
  /\ UNCHANGED <<provider, stage, purpose, credential, asked, result>>

Done(r) == stage' = "done" /\ result' = r /\ UNCHANGED <<credential, asked>>
Goes(to) == stage' = to /\ UNCHANGED <<credential, asked, result>>

Ask(key) == stage' = "asking" /\ asked' = key /\ UNCHANGED <<credential, result>>

Expired(key) == provider.kind = "oauth" /\ key = "expired"

\* What follows of a credential that was looked for.
Decide(for, found) ==
  /\ purpose' = "none"
  /\ CASE for = "available" ->
            IF ~Available(world, provider, found) THEN Done(NotAttempted)
            ELSE Goes(IF provider.cached THEN "selected" ELSE "unscoped")
       [] for = "prepare" ->
            IF found.state # "configured" \/ Expired(found.key) THEN Goes("unscoped")
            ELSE stage' = "prepared" /\ credential' = found.key /\ UNCHANGED <<asked, result>>
       [] for \in {"check", "fetch"} ->
            IF found.state = "none" THEN Done(NotAttempted)
            ELSE IF found.state = "invalid" THEN Done(AttemptedError(found.key))
            ELSE IF Expired(found.key) THEN Done(AttemptedError("Token expired"))
            ELSE IF for = "check" THEN Goes("checked") ELSE Ask(found.key)

\* The purpose each stage has for a credential; Kimi's fetch looks twice.
Purpose ==
  CASE stage = "idle" -> "available"
    [] stage = "selected" -> "prepare"
    [] stage = "unscoped" -> IF provider.id = "kimi" THEN "check" ELSE "fetch"
    [] stage = "checked" -> "fetch"
    [] OTHER -> "none"

Look ==
  /\ Purpose # "none" /\ purpose = "none"
  /\ steady' = (steady \/ stage = "idle")
  /\ LET found == Early(world, provider)
     IN  IF found # NoneFound THEN Decide(Purpose, found)
         ELSE purpose' = Purpose /\ UNCHANGED <<stage, credential, asked, result>>
  /\ UNCHANGED <<provider, world, edits>>

ReadAuth ==
  /\ purpose # "none"
  /\ Decide(purpose, Late(world, provider))
  /\ UNCHANGED <<provider, world, edits, steady>>

\* Mutant: the fetch of a cache transaction looks for a credential of its own.
FetchScoped_Resolved ==
  /\ stage = "prepared"
  /\ LET found == IF Early(world, provider) # NoneFound THEN Early(world, provider)
                  ELSE Late(world, provider)
     IN  IF found.state = "configured" THEN Ask(found.key) ELSE Done(NotAttempted)
  /\ UNCHANGED <<provider, world, edits, steady, purpose>>

\* The fetch of the cache transaction: with what was selected for it.
FetchScoped ==
  /\ stage = "prepared"
  /\ Ask(credential)
  /\ UNCHANGED <<provider, world, edits, steady, purpose>>

Answer ==
  /\ stage = "asking"
  /\ IF provider.id = "opencode-go"
     THEN \E pages \in [DOMAIN asked -> Answers["opencode-go"].pages],
             selected \in Answers["opencode-go"].selections :
            Done(OpenCodeGo(pages, selected))
     ELSE \E a \in Answers[provider.id] : Done(Reading(provider, a))
  /\ UNCHANGED <<provider, world, edits, steady, purpose>>

KeyedNext == Edit \/ Look \/ ReadAuth \/ FetchScoped \/ Answer

KeyedSpec == KeyedInit /\ [][KeyedNext]_keyedVars

------------------------------------------------------------------------------
(* Properties.                                                              *)

\* The request of a cache transaction carries the credential that identifies its
\* entry, whatever was edited since ("the credential identifying the cache must
\* also perform the fetch", account-cache.ts:1): an answer is never kept under
\* another account.
OwnCredential == credential # None /\ asked # None => asked = credential

\* A provider that needs a credential to call itself available is answered for,
\* with a row or an error, by every query during which nothing is edited: the three
\* searches for the credential agree, and no reading of an answer is silent.
\* MiniMax is the exception its code names: an answer without models shows nothing.
AvailableIsAnswered ==
  /\ stage = "done" /\ steady /\ provider.gate # "or"
  /\ Available(world, provider,
               IF Early(world, provider) # NoneFound THEN Early(world, provider)
               ELSE Late(world, provider))
  => /\ result.attempted
     /\ result.rows # {} \/ result.errors # {} \/ provider.id = "minimax"

==============================================================================
