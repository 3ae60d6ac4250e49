------------------------------ MODULE QuotaCollection ------------------------------
(***************************************************************************)
(* One collection of quota data for a surface (collectQuotaRenderData) and *)
(* what the toast makes of it (fetchQuotaMessageResult): the enabled       *)
(* providers, those that fit the current model, those that are available,  *)
(* their results, and the rows and errors of all of them in two styles.    *)
(*                                                                         *)
(* A provider's result is its rows, [window, left] of which left is        *)
(* Missing for a value, its errors, whether it had anything to ask, and    *)
(* rows of accounting that stand in where it has no others; or Rejected.   *)
(* Data have the rows provider by provider: the order that the registry    *)
(* gives the providers is a matter of layout.                              *)
(***************************************************************************)
EXTENDS Integers, Sequences, FiniteSets

CONSTANTS
  Ids,           \* the ids of all providers
  Keeps,         \* the providers whose single-window style keeps every row
  Special,       \* providers with a message of their own for no data
  Setting,       \* [enabled, mode, onlyCurrent, surfaced, bothFail, style, tokens]
  Selection,     \* the current model: which providers it fits, or NoSelection
  Result,        \* what a fetch may return
  Rejected, NoSelection, Auto

VARIABLES setting, selection, stage, availability, results, answer

collectionVars == <<setting, selection, stage, availability, results, answer>>

Missing == -1000

\* makeProviderFetchFailure
Failure == [attempted |-> TRUE, entries |-> <<>>, errors |-> {"failed"}, accounting |-> <<>>]

------------------------------------------------------------------------------
(* Selection.                                                               *)

Explicit == setting.mode # Auto

\* resolveQuotaRenderSelection: the enabled providers.
Enabled == {id \in Ids : ~Explicit \/ id \in setting.mode}

NotSelected == ~setting.enabled \/ (Explicit /\ Enabled = {})
Waiting == setting.onlyCurrent /\ selection = NoSelection

\* matchesQuotaProviderCurrentSelection
Filtered == {id \in Enabled : ~setting.onlyCurrent \/ id \in selection}

\* getProviderAvailability: an exception makes a provider unavailable, with an error.
Active == {id \in Filtered : availability[id] = "yes"}
FailedAvailability == {id \in Filtered : availability[id] = "throws"}

------------------------------------------------------------------------------
(* Projection of a result to a style.                                       *)

\* displayQuotaEntries
Displayed(r) == IF r.entries # <<>> THEN r.entries ELSE r.accounting

\* Mutant: the first percentage is the one that is shown.
SelectedIndex_First(entries) ==
  LET percent == {i \in DOMAIN entries : entries[i].left # Missing}
  IN  IF percent = {} THEN 1 ELSE CHOOSE i \in percent : \A j \in percent : i <= j

\* selectSingleWindowEntry: the first of those that have least left, else the first.
SelectedIndex(entries) ==
  LET percent == {i \in DOMAIN entries : entries[i].left # Missing}
      least == {i \in percent : \A j \in percent : entries[i].left <= entries[j].left}
  IN  IF percent = {} THEN 1 ELSE CHOOSE i \in least : \A j \in least : i <= j

\* projectProviderResultToStyle
Projected(id, r, style) ==
  LET entries == Displayed(r)
  IN  IF style = "allWindows" \/ id \in Keeps \/ entries = <<>> THEN entries
      ELSE <<entries[SelectedIndex(entries)]>>

Rows(style) == [id \in Ids |-> IF id \in Active THEN Projected(id, results[id], style) ELSE <<>>]

\* null: data that have no row, no error and no tokens.
Nothing == [rows |-> [id \in Ids |-> <<>>], errors |-> {}, tokens |-> FALSE]

NoRows(rows) == \A id \in Ids : rows[id] = <<>>

------------------------------------------------------------------------------
(* What becomes of providers without rows.                                  *)

Error(id, message) == [provider |-> id, message |-> message]

\* shouldSurfaceNoDataMessage
NoDataErrors ==
  {Error(id, "no data") : id \in
     {id \in Active :
        /\ ~results[id].attempted /\ results[id].entries = <<>> /\ results[id].errors = {}
        /\ Explicit \/ (Cardinality(Active) = 1 /\ id \in Special)}}

Surfaces == setting.surfaced /\ Explicit

Skipped == IF Surfaces THEN Enabled \ Filtered ELSE {}
Unavailable == IF Surfaces THEN {id \in Filtered : availability[id] # "yes"} ELSE {}

ResultErrors == UNION {{Error(id, m) : m \in results[id].errors} : id \in Active}

\* Mutant: no message for a provider that is not detected.
Errors_Detected ==
  {Error(id, "availability") : id \in FailedAvailability}
  \cup ResultErrors \cup NoDataErrors
  \cup {Error(id, "skipped") : id \in Skipped}

Errors ==
  {Error(id, "availability") : id \in FailedAvailability}
  \cup ResultErrors \cup NoDataErrors
  \cup {Error(id, "skipped") : id \in Skipped}
  \cup {Error(id, "unavailable") : id \in Unavailable \ FailedAvailability}

\* hasExplicitProviderIssues
ExplicitIssues == Skipped \cup Unavailable # {} \/ (Explicit /\ NoDataErrors # {})

Attempted == \E id \in Active : results[id].attempted

\* The session's tokens are only asked for when some provider is active.
Tokens == setting.tokens /\ Active # {}

Data(style) == [rows |-> Rows(style), errors |-> Errors, tokens |-> Tokens]

------------------------------------------------------------------------------
(* fetchQuotaMessageResult                                                  *)

Says(message, retry, rows) == [message |-> message, retry |-> retry, rows |-> rows]

\* Mutant: a failure of any kind is taken for one of reading.
FailureOnly_Any == Attempted /\ Errors # {}

FailureOnly == Attempted /\ Errors # {} /\ \A e \in Errors : e.message = "failed"

\* Nobody is active and nothing is wrong with a provider that the user named.
NobodySays ==
  Says("none", IF ~Explicit \/ FailedAvailability # {} THEN "no_available_providers" ELSE "no", FALSE)

\* Rows of providers, or the session's tokens with which a failure could be masked.
RowsSay ==
  Says("rows", IF NoRows(Rows(setting.style)) /\ FailureOnly THEN "provider_fetch_failed" ELSE "no", TRUE)

ErrorsSay ==
  Says("errors", IF ~ExplicitIssues /\ FailureOnly THEN "provider_fetch_failed"
                 ELSE IF Active = {} /\ FailedAvailability # {} THEN "no_available_providers"
                 ELSE "no", FALSE)

SilenceSays ==
  Says("none", IF FailureOnly THEN "provider_fetch_failed"
               ELSE IF ~Explicit /\ Errors = {} THEN "no_reportable_data" ELSE "no", FALSE)

Message ==
  IF Active = {} /\ ~(ExplicitIssues /\ Errors # {}) THEN NobodySays
  ELSE IF Active # {} /\ (~NoRows(Rows(setting.style)) \/ Tokens) THEN RowsSay
  ELSE IF (setting.bothFail /\ Attempted /\ Errors # {}) \/ ExplicitIssues THEN ErrorsSay
  ELSE SilenceSays

------------------------------------------------------------------------------
NoAnswerYet == [message |-> Says("none", "no", FALSE), all |-> Nothing, single |-> Nothing]

CollectionInit ==
  /\ setting \in Setting /\ selection \in Selection \cup {NoSelection}
  /\ stage = "start"
  /\ availability = [id \in Ids |-> "no"] /\ results = [id \in Ids |-> Failure]
  /\ answer = NoAnswerYet

\* null without a selection; collection waits for one where it has to.
Nobody ==
  /\ stage = "start" /\ (NotSelected \/ Waiting)
  /\ stage' = "done"
  /\ UNCHANGED <<setting, selection, availability, results, answer>>

\* All availabilities are asked for at once, and so are the results.
CheckAvailability ==
  /\ stage = "start" /\ ~NotSelected /\ ~Waiting
  /\ stage' = "available"
  /\ \E a \in [Filtered -> {"yes", "no", "throws"}] :
       availability' = [id \in Ids |-> IF id \in Filtered THEN a[id] ELSE "no"]
  /\ UNCHANGED <<setting, selection, results, answer>>

\* fetchProviderResults: one that rejects becomes a failure of its own.
FetchResults ==
  /\ stage = "available"
  /\ stage' = "fetched"
  /\ \E r \in [Active -> Result \cup {Rejected}] :
       results' = [id \in Ids |-> IF id \in Active /\ r[id] # Rejected THEN r[id] ELSE Failure]
  /\ UNCHANGED <<setting, selection, availability, answer>>

Collect ==
  /\ stage = "fetched"
  /\ stage' = "done"
  /\ answer' = [message |-> Message, all |-> Data("allWindows"), single |-> Data("singleWindow")]
  /\ UNCHANGED <<setting, selection, availability, results>>

CollectionNext == Nobody \/ CheckAvailability \/ FetchResults \/ Collect

CollectionSpec == CollectionInit /\ [][CollectionNext]_collectionVars

------------------------------------------------------------------------------
(* Properties.                                                              *)

Collected == stage = "done" /\ ~NotSelected /\ ~Waiting

Shown(id, data) == data.rows[id] # <<>> \/ \E e \in data.errors : e.provider = id

\* A provider that the user names is accounted for on a surface that says so, by a
\* row or an error, whichever way it fails: filtered, not detected, an exception of
\* either call, not configured.  A provider that was asked and answers with nothing
\* at all is the exception.
NothingVanishes ==
  Collected /\ Surfaces =>
    \A id \in Enabled :
      \/ Shown(id, answer.all) /\ Shown(id, answer.single)
      \/ /\ id \in Active /\ results[id].attempted
         /\ Displayed(results[id]) = <<>> /\ results[id].errors = {}

\* The two styles speak of the same providers and errors, each row of the single window
\* is one of all windows, and what it shows is the least that is left of any window.
StylesAgree ==
  Collected =>
    /\ answer.single.errors = answer.all.errors
    /\ \A id \in Ids :
         LET all == answer.all.rows[id]
             single == answer.single.rows[id]
         IN  /\ all # <<>> => single # <<>>
             /\ \A j \in DOMAIN single : \E i \in DOMAIN all : single[j] = all[i]
             /\ \A i \in DOMAIN all : all[i].left # Missing =>
                  \E j \in DOMAIN single : single[j].left \in (Missing + 1)..all[i].left

\* A toast is retried for what may pass: never once rows of a provider are shown;
\* always, in automatic mode, when each active provider rejected; and with a reason
\* that names what happened.
RetriesTheTransient ==
  Collected =>
    LET m == answer.message
    IN  /\ m.retry # "no" => NoRows(answer.all.rows)
        /\ ~Explicit /\ Active # {} /\ FailedAvailability = {}
             /\ (\A id \in Active : results[id] = Failure) => m.retry = "provider_fetch_failed"
        /\ m.retry = "provider_fetch_failed" => \A id \in Active : results[id].errors \subseteq {"failed"}
        /\ m.retry = "no_available_providers" => Active = {}

==============================================================================
