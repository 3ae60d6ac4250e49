---------------------------- MODULE AnthropicUsage -----------------------------
(***************************************************************************)
(* anthropic.ts: the quota of Claude, from the local CLI or, when that     *)
(* shows none, from the OAuth usage endpoint with the token found in the   *)
(* keychain or the credentials file.  Calls of one process share requests  *)
(* by token and pause after HTTP 429, for longer each time.                *)
(*                                                                         *)
(* The CLI, the keychain and the file change between calls: each read      *)
(* finds any of the values they may hold.  Times are what is left of them, *)
(* so that nothing bounds the clock.  A usage document is the sequence of  *)
(* its roots, a window what it says is used.                               *)
(***************************************************************************)
EXTENDS Integers, Sequences, FiniteSetsExt

CONSTANTS
  Call,          \* callers of queryAnthropicQuota in one process
  Token,         \* access tokens of Claude accounts
  None,
  BackoffBase,   \* ANTHROPIC_OAUTH_BACKOFF_BASE_MS
  CooldownMax,   \* ANTHROPIC_OAUTH_COOLDOWN_MAX_MS
  RetryAfter,    \* what the endpoint asks for with a 429, 0 for nothing
  Document,      \* usage documents: sequences of [five, seven]
  MacOS          \* whether there is a keychain

\* A window that is missing or says nothing numeric.
Unread == -1000

VARIABLES
  cooldown,      \* anthropicOAuthCooldowns: failures (0: no entry), time left
  inFlight,      \* anthropicOAuthInFlight: the call whose request is shared
  step,          \* what each call awaits
  token,         \* the token it found
  asked,         \* the Retry-After of its 429
  result,        \* what it returned: [state, quota, of]
  limit          \* the endpoint's view: 429s in a row, time it wants to be left

anthropicVars == <<cooldown, inFlight, step, token, asked, result, limit>>

------------------------------------------------------------------------------
(* Documents.                                                               *)

NoQuota == [five |-> Unread, seven |-> Unread]

\* parseQuotaWindow: capped above, not below.
Remaining(used) == IF used = Unread THEN Unread ELSE Min({100, 100 - used})

\* parseUsageResponse: the first root with both windows.
ParseUsage(roots) ==
  LET whole == {i \in DOMAIN roots : roots[i].five # Unread /\ roots[i].seven # Unread}
  IN  IF whole = {} THEN NoQuota
      ELSE LET root == roots[Min(whole)]
           IN  [five |-> Remaining(root.five), seven |-> Remaining(root.seven)]

\* What a run of the CLI may show of the session, in the order it is tested.
AuthOutput == {"unsupported", "not logged in", "true", "false", "unclear", "exit 0", "failed"}

AuthStatus(out) ==
  CASE out \in {"true", "exit 0"} -> "authenticated"
    [] out \in {"not logged in", "false"} -> "unauthenticated"
    [] OTHER -> "unknown"

\* probeAnthropicLocalDiagnostics: `auth status --json`, or `auth status` where
\* that is not supported; only JSON may bring quota with it.
LocalProbe(installed, json, plain, document) ==
  LET out == IF json = "unsupported" THEN plain ELSE json
      quota == IF out = "true" THEN ParseUsage(document) ELSE NoQuota
  IN  IF ~installed THEN [auth |-> "unknown", quota |-> NoQuota]
      ELSE [auth |-> AuthStatus(out), quota |-> quota]

LocalOutcomes ==
  {LocalProbe(installed, json, plain, document) :
     installed \in BOOLEAN, json, plain \in AuthOutput, document \in Document}

------------------------------------------------------------------------------
(* The pause after a 429.                                                   *)

\* failureCount as far as it matters: from here on the backoff is CooldownMax.
Saturated == CHOOSE n \in 0..CooldownMax : /\ BackoffBase * 2^n >= CooldownMax
                                          /\ \A m \in 0..(n - 1) : BackoffBase * 2^m < CooldownMax

\* getAnthropicOAuthCooldownDurationMs
CooldownDuration(failures, retryAfter) ==
  Max({Min({CooldownMax, BackoffBase * 2^failures}), Min({CooldownMax, retryAfter})})

NoCooldown == [failures |-> 0, left |-> 0]

After429(entry, retryAfter) ==
  [failures |-> Min({entry.failures + 1, Saturated}),
   left |-> CooldownDuration(entry.failures, retryAfter)]

------------------------------------------------------------------------------
(* A call.                                                                  *)

AnthropicInit ==
  /\ cooldown = [t \in Token |-> NoCooldown]
  /\ inFlight = [t \in Token |-> None]
  /\ step = [c \in Call |-> "idle"]
  /\ token = [c \in Call |-> None]
  /\ asked = [c \in Call |-> 0]
  /\ result = [c \in Call |-> [state |-> "none", quota |-> NoQuota, of |-> None]]
  /\ limit = [t \in Token |-> NoCooldown]

Failure == [state |-> "error", quota |-> NoQuota, of |-> None]
Success(quota, t) == [state |-> "quota", quota |-> quota, of |-> t]

Finish(c, r) ==
  /\ step' = [step EXCEPT ![c] = "idle"]
  /\ result' = [result EXCEPT ![c] = r]

\* getAnthropicDiagnostics, up to the credentials.
Probe(c) ==
  /\ step[c] = "idle"
  /\ \E local \in LocalOutcomes :
       IF local.auth # "authenticated" THEN Finish(c, Failure)
       ELSE IF local.quota # NoQuota THEN Finish(c, Success(local.quota, None))
       ELSE /\ step' = [step EXCEPT ![c] = IF MacOS THEN "keychain" ELSE "file"]
            /\ UNCHANGED result
  /\ UNCHANGED <<cooldown, inFlight, token, asked, limit>>

\* Mutant: a request under way is only shared by callers of no token.
Query_Unshared(c, t) ==
  /\ token' = [token EXCEPT ![c] = t]
  /\ IF cooldown[t].left > 0 THEN Finish(c, Failure) /\ UNCHANGED inFlight
     ELSE /\ inFlight' = [inFlight EXCEPT ![t] = c]
          /\ step' = [step EXCEPT ![c] = "requesting"]
          /\ UNCHANGED result

\* queryAnthropicQuotaFromOAuthAccessToken, up to its first await.
Query(c, t) ==
  /\ token' = [token EXCEPT ![c] = t]
  /\ IF cooldown[t].left > 0 THEN Finish(c, Failure) /\ UNCHANGED inFlight
     ELSE IF inFlight[t] # None
     THEN step' = [step EXCEPT ![c] = "joined"] /\ UNCHANGED <<result, inFlight>>
     ELSE /\ inFlight' = [inFlight EXCEPT ![t] = c]
          /\ step' = [step EXCEPT ![c] = "requesting"]
          /\ UNCHANGED result

\* The keychain holds a token, or sends the call on to the file: it has no
\* entry, or one that cannot be read.
ReadKeychain(c) ==
  /\ step[c] = "keychain"
  /\ \/ \E t \in Token : Query(c, t)
     \/ step' = [step EXCEPT ![c] = "file"] /\ UNCHANGED <<token, result, inFlight>>
  /\ UNCHANGED <<cooldown, asked, limit>>

\* The file holds a token, or the call ends: it is missing or damaged.
ReadCredentialsFile(c) ==
  /\ step[c] = "file"
  /\ \/ \E t \in Token : Query(c, t)
     \/ Finish(c, Failure) /\ UNCHANGED <<token, inFlight>>
  /\ UNCHANGED <<cooldown, asked, limit>>

------------------------------------------------------------------------------
(* The shared request.                                                      *)

\* The promise settles: its caller withdraws it, those who joined it return.
Settle(c, r) ==
  LET waiting == {d \in Call : step[d] = "joined" /\ token[d] = token[c]} \cup {c}
  IN  /\ inFlight' = [inFlight EXCEPT ![token[c]] = None]
      /\ step' = [d \in Call |-> IF d \in waiting THEN "idle" ELSE step[d]]
      /\ result' = [d \in Call |-> IF d \in waiting THEN r ELSE result[d]]

\* No answer: neither the cooldown nor the endpoint's count is touched.
RequestFails(c) ==
  /\ step[c] = "requesting"
  /\ Settle(c, Failure)
  /\ UNCHANGED <<cooldown, token, asked, limit>>

\* The endpoint answers 429, the code reads the detail first and the header
\* after it.  It asks for as long as the backoff or its own Retry-After.
Denied(c) ==
  /\ step[c] = "requesting"
  /\ \E header \in RetryAfter :
       /\ limit' = [limit EXCEPT ![token[c]] = After429(@, header)]
       /\ asked' = [asked EXCEPT ![c] = header]
  /\ step' = [step EXCEPT ![c] = "denied"]
  /\ UNCHANGED <<cooldown, inFlight, token, result>>

Pause(c) ==
  /\ step[c] = "denied"
  /\ cooldown' = [cooldown EXCEPT ![token[c]] = After429(@, asked[c])]
  /\ asked' = [asked EXCEPT ![c] = 0]
  /\ Settle(c, Failure)
  /\ UNCHANGED <<token, limit>>

\* Any other status ends the row of 429s.
Answered(c) ==
  /\ step[c] = "requesting"
  /\ cooldown' = [cooldown EXCEPT ![token[c]] = NoCooldown]
  /\ limit' = [limit EXCEPT ![token[c]] = NoCooldown]
  /\ step' = [step EXCEPT ![c] = "reading"]
  /\ UNCHANGED <<inFlight, token, asked, result>>

\* The body: an error of another status, no JSON, no quota in it, or quota.
ReadBody(c) ==
  /\ step[c] = "reading"
  /\ \/ Settle(c, Failure)
     \/ \E document \in Document :
          LET quota == ParseUsage(document)
          IN  Settle(c, IF quota = NoQuota THEN Failure ELSE Success(quota, token[c]))
  /\ UNCHANGED <<cooldown, token, asked, limit>>

Elapsed(entry) == [entry EXCEPT !.left = Max({0, @ - 1})]

Elapse ==
  /\ \E t \in Token : cooldown[t].left > 0 \/ limit[t].left > 0
  /\ cooldown' = [t \in Token |-> Elapsed(cooldown[t])]
  /\ limit' = [t \in Token |-> Elapsed(limit[t])]
  /\ UNCHANGED <<inFlight, step, token, asked, result>>

CallStep(c) ==
  \/ Probe(c)
  \/ ReadKeychain(c)
  \/ ReadCredentialsFile(c)
  \/ RequestFails(c)
  \/ Denied(c)
  \/ Pause(c)
  \/ Answered(c)
  \/ ReadBody(c)

AnthropicNext == Elapse \/ \E c \in Call : CallStep(c)

AnthropicSpec == AnthropicInit /\ [][AnthropicNext]_anthropicVars

------------------------------------------------------------------------------
(* Properties.                                                              *)

\* Types: a pause counts down from its cap.
AnthropicTypeOK ==
  LET Pausing == [failures : 0..Saturated, left : 0..CooldownMax]
  IN  /\ cooldown \in [Token -> Pausing] /\ limit \in [Token -> Pausing]
      /\ inFlight \in [Token -> Call \cup {None}]
      /\ step \in [Call -> {"idle", "keychain", "file", "joined", "requesting", "denied", "reading"}]
      /\ asked \in [Call -> RetryAfter \cup {0}]
      /\ token \in [Call -> Token \cup {None}]

Requesting(c) == step[c] = "requesting"

\* A request for a token begins only when the endpoint, which counts its 429s
\* since the last other answer, no longer wants to be left alone, and while no
\* other request for that token is under way: performAnthropicOAuthUsageRequest
\* sets the cooldown after an await, whoever may call in between.
AsksInTurn ==
  \A c \in Call : ~Requesting(c) /\ Requesting(c)' =>
    LET t == token'[c]
    IN  /\ limit[t].left = 0
        /\ \A d \in Call : token[d] = t => step[d] \in {"idle", "keychain", "file"}

\* Quota from the endpoint is that of the token the call found, also when the
\* request was another call's and accounts were switched in between.
QuotaOfOwnToken ==
  \A c \in Call : step[c] = "idle" /\ result[c].of # None => result[c].of = token[c]

=============================================================================
