----------------------------- MODULE PriceResolution -----------------------------
(***************************************************************************)
(* What a message cost: the model and the provider it names are mapped to  *)
(* an entry of the models.dev price snapshot, by their own names first,    *)
(* then by ever weaker guesses, and the tokens are charged at the rates of *)
(* the entry or of the user's own.  Everything about the spelling of names *)
(* is a constant: which name another becomes, which it is an alias of.     *)
(***************************************************************************)
EXTENDS Integers, Sequences, SequencesExt

CONSTANTS
  Snapshot,      \* provider -> model -> rates
  Unknown,       \* an identifier that is missing
  SourceAlias,   \* identifier -> provider (SOURCE_PROVIDER_ALIASES)
  Normal,        \* model -> the model without its routing prefix, with dashes for dots
  Bare,          \* model -> the model without "-free"
  Alternatives,  \* <<provider, model>> -> the names under which the snapshot may have it
  Family,        \* model -> the provider its name suggests
  CursorProviders, CursorLocal, \* cursor's own models -> their rates
  CursorAlias    \* cursor's names for the models of others -> <<provider, model>>

Missing == -1
Bucket == {"input", "output", "cache"}

\* perToken(rates.cache_read ?? rates.input): 0 when neither is given.
Rate(rates, b) ==
  IF rates[b] # Missing THEN rates[b]
  ELSE IF b = "cache" /\ rates["input"] # Missing THEN rates["input"]
  ELSE 0

\* calculateUsdFromTokenBuckets
Usd(rates, tokens) == FoldSet(LAMBDA b, sum : sum + tokens[b] * Rate(rates, b), 0, Bucket)

HasProvider(p) == p \in DOMAIN Snapshot
HasModel(p, m) == HasProvider(p) /\ m \in DOMAIN Snapshot[p]
ListedBy(m) == {p \in DOMAIN Snapshot : m \in DOMAIN Snapshot[p]}

At(f, x, default) == IF x \in DOMAIN f THEN f[x] ELSE default

\* normalizeSourceProviderId: an identifier is a sequence of the parts that "/" and
\* ":" separate; the last that names a provider of the snapshot, or an alias of
\* one, is meant.
SourceProvider(id) ==
  LET Names(part) == IF HasProvider(part) THEN part ELSE At(SourceAlias, part, Unknown)
      known == {i \in DOMAIN id : HasProvider(Names(id[i]))}
  IN  IF known = {} THEN Unknown ELSE Names(id[Max(known)])

\* freeSuffixCandidates
FreeCandidates(m) == IF Bare[m] = m THEN <<m>> ELSE <<m, Bare[m]>>

First(s, default) == IF s = <<>> THEN default ELSE Head(s)

\* resolveModelForProvider, with pickBestModelForProvider: to have a price and to be
\* in the snapshot are the same, since it is loaded without the models that have no rate.
ModelOf(p, m) ==
  LET candidates == FreeCandidates(m) \o At(Alternatives, <<p, m>>, <<>>)
  IN  First(SelectSeq(candidates, LAMBDA c : HasModel(p, c)), Unknown)

\* inferOfficialProviderFromModelId
Infer(m) == IF Cardinality(ListedBy(m)) = 1 THEN CHOOSE p \in ListedBy(m) : TRUE ELSE At(Family, m, Unknown)

NoKey == <<>>
TryProvider(p, m) ==
  IF HasProvider(p) /\ ModelOf(p, m) # Unknown THEN <<p, ModelOf(p, m)>> ELSE NoKey

\* The cursor branch: its own models, and the names it gives to those of others.
CursorKey(source) ==
  IF source.provider \notin CursorProviders /\ (source.hint = <<>> \/ Head(source.hint) # "cursor") THEN NoKey
  ELSE IF source.model \in DOMAIN CursorLocal THEN <<"cursor", source.model>>
  ELSE IF source.model \in DOMAIN CursorAlias
    THEN TryProvider(CursorAlias[source.model][1], CursorAlias[source.model][2])
  ELSE NoKey

\* The only provider that lists the model, or of several the one its name suggests.
ListedKey(m) ==
  IF Cardinality(ListedBy(m)) = 1 THEN <<Infer(m), m>>
  ELSE IF Infer(m) \in ListedBy(m) THEN TryProvider(Infer(m), m)
  ELSE NoKey

\* An identifier as it was written, the parts of it joined again.
Whole(id) == IF id = <<>> THEN Unknown ELSE FoldLeft(LAMBDA w, part : w \o "/" \o part, Head(id), Tail(id))

Resolved(key) == [ok |-> TRUE, key |-> key]
Unresolved(why) == [ok |-> FALSE, why |-> why]

\* resolvePricingKey, for the user's prices own
Resolve(source, own) ==
  LET m == Normal[source.model]
      names == FreeCandidates(m)
      Keyed(key) == key # NoKey
      direct == <<CursorKey(source), TryProvider(SourceProvider(source.provider), m),
                  TryProvider(SourceProvider(source.hint), m)>>
      byName == First(SelectSeq(direct \o [i \in DOMAIN names |-> ListedKey(names[i])], Keyed), NoKey)
      inferred == First(SelectSeq([i \in DOMAIN names |-> TryProvider(Infer(names[i]), names[i])], Keyed), NoKey)
  IN  IF source.model = Unknown THEN Unresolved("missing_model")
      ELSE IF Keyed(byName) THEN Resolved(byName)
      ELSE IF \E i \in DOMAIN names : ListedBy(names[i]) # {} THEN Unresolved("ambiguous_model")
      ELSE IF Keyed(inferred) THEN Resolved(inferred)
      ELSE IF \E i \in DOMAIN names : Infer(names[i]) # Unknown THEN Unresolved("missing_provider")
      ELSE IF <<Whole(source.provider), m>> \in DOMAIN own THEN Resolved(<<Whole(source.provider), m>>)
      ELSE Unresolved("missing_provider")

NoRates == [b \in Bucket |-> Missing]

\* calculateCostUsd's look-up: the user's rates replace those of the snapshot whole.
RatesOf(key, own) ==
  IF key[1] = "cursor" THEN At(CursorLocal, key[2], NoRates)
  ELSE IF key \in DOMAIN own THEN own[key]
  ELSE IF HasModel(key[1], key[2]) THEN Snapshot[key[1]][key[2]]
  ELSE NoRates

\* mergeUserCostSync: what the user leaves open falls through to the snapshot.
Merged(key, own) ==
  LET base == RatesOf(key, <<>>)
  IN  IF key \notin DOMAIN own THEN base
      ELSE [b \in Bucket |-> IF own[key][b] # Missing THEN own[key][b] ELSE base[b]]
==================================================================================
