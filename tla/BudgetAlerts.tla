------------------------------ MODULE BudgetAlerts ------------------------------
(***************************************************************************)
(* The budget alerts of the desktop application.  Rules are kept in a JSON *)
(* file behind a cache of one store object, which edits change in place    *)
(* before they save it; after each edit, and after each fetch of quotas,   *)
(* the rules are read afresh and evaluated against the usage that the      *)
(* history helper reports for their windows, one evaluation at a time.     *)
(*                                                                         *)
(* Store objects are numbered, since two edits may hold the same one; a    *)
(* number that nobody refers to is used again.                             *)
(***************************************************************************)
EXTENDS Integers, Sequences, FiniteSets, SequencesExt, TLC

CONSTANTS
  Editor,        \* edits that may overlap: IPC calls of the renderer
  RuleId,
  Setting,       \* rules: [enabled, window, scope, metric, above, threshold]
  Window,        \* the windows of time that rules are about
  Provider, Model,
  Usage,         \* reports: [priced, unknown], source -> [tokens, usd] and source -> tokens
  MaxEdits, MaxFetches, MaxChanges, MaxFaults,
  Broken, NoObject, NoUsage

VARIABLES
  edits, fetches, changes, faults,
  file,          \* the rules in the file: id -> setting, or Broken
  objects, cached, \* the store objects, and the number of the cached one
  edit,          \* of each editor: [pc, op, object, bytes]
  queue,         \* evaluations that wait: <<"fetch">>, or <<editor>>
  eval,          \* the one under way: [pc, rules, bytes, windows, diagnostic]
  usage,         \* window -> what the history helper would report
  published,     \* [revision, rules, results, diagnostic]
  disposed

storeVars == <<file, objects, cached>>
evalVars == <<queue, eval, published>>
bounds == <<edits, fetches, changes, faults>>
budgetVars == <<bounds, storeVars, edit, evalVars, usage, disposed>>

Unknown == "unknown"
Source == (Provider \union {Unknown}) \X (Model \union {Unknown})
NoRules == <<>>

(***************************************************************************)
(* Evaluation of a rule.                                                   *)
(***************************************************************************)
\* scopeUsage's matches
Matches(scope, source) ==
  \/ scope[1] = "global"
  \/ scope[2] = source[1] /\ (scope[1] = "provider" \/ scope[3] = source[2])

\* A source that is not known well enough to be told apart from the scope.
Blurred(scope, source) ==
  /\ ~Matches(scope, source)
  /\ source[1] = Unknown \/ (scope[1] = "model" /\ source[1] = scope[2] /\ source[2] = Unknown)

Sum(f, S) == FoldSet(LAMBDA x, sum : sum + f[x], 0, S)

\* scopeUsage: what is not priced counts with its tokens.
Tokens(scope, u) ==
  Sum([s \in DOMAIN u.priced |-> u.priced[s].tokens], {s \in DOMAIN u.priced : Matches(scope, s)})
  + Sum(u.unknown, {s \in DOMAIN u.unknown : Matches(scope, s)})
Cost(scope, u) ==
  Sum([s \in DOMAIN u.priced |-> u.priced[s].usd], {s \in DOMAIN u.priced : Matches(scope, s)})

\* evaluateBudgetAlert
Value(rule, u) == IF rule.metric = "cost" THEN Cost(rule.scope, u) ELSE Tokens(rule.scope, u)
Triggered(rule, u) == IF rule.above THEN Value(rule, u) > rule.threshold ELSE Value(rule, u) < rule.threshold

\* Mutant: what has no price is taken to be free.
Certain_Free(rule, u) == \A s \in DOMAIN u.unknown : ~Blurred(rule.scope, s)

\* Whether the rule can be evaluated at all.
Certain(rule, u) ==
  /\ \A s \in DOMAIN u.unknown : ~Blurred(rule.scope, s)
  /\ rule.metric = "cost" => \A s \in DOMAIN u.unknown : ~Matches(rule.scope, s)

\* evaluateDesktopBudgets: of the rules that are enabled.
Results(rules, windows) ==
  [id \in {i \in DOMAIN rules : rules[i].enabled} |->
     LET rule == rules[id]
         u == windows[rule.window]
     IN  IF u = NoUsage THEN [status |-> "unknown", triggered |-> FALSE, of |-> NoUsage]
         ELSE IF ~Certain(rule, u) THEN [status |-> "unknown", triggered |-> FALSE, of |-> u]
         ELSE [status |-> "ok", triggered |-> Triggered(rule, u), of |-> u]]

(***************************************************************************)
(* Edits: createBudgetAlertRule, updateBudgetAlertRule,                    *)
(* deleteBudgetAlertRule, with the evaluation their handlers wait for.     *)
(***************************************************************************)
IdleEdit == [pc |-> "idle", op |-> <<>>, object |-> NoObject, bytes |-> NoRules]

\* loadStore's leniency: a file that cannot be read has no rules.
Lenient(f) == IF f = Broken THEN NoRules ELSE f

Referred == {cached} \union {edit[e].object : e \in Editor}
Fresh == CHOOSE o \in DOMAIN objects : o \notin Referred

\* generateRuleId: one that nothing knows yet.
New(id) ==
  /\ file # Broken => id \notin DOMAIN file
  /\ \A o \in Referred \ {NoObject} : id \notin DOMAIN objects[o]
  /\ \A f \in Editor : id \notin DOMAIN edit[f].bytes /\ (edit[f].op # <<>> => edit[f].op[2] # id)

\* What an operation makes of the rules; of one that is gone, nothing.
Applies(op, rules) == op[1] = "create" \/ op[2] \in DOMAIN rules
Applied(op, rules) ==
  IF op[1] = "delete" THEN [i \in DOMAIN rules \ {op[2]} |-> rules[i]]
  ELSE (op[2] :> op[3]) @@ rules

\* The rest of the handler once it has its store: change it in place and start to
\* save it, or find nothing to change and evaluate.
Change(e, op, o, content) ==
  IF Applies(op, content)
  THEN /\ objects' = [objects EXCEPT ![o] = Applied(op, content)]
       /\ edit' = [edit EXCEPT ![e] = [pc |-> "saving", op |-> op, object |-> o, bytes |-> Applied(op, content)]]
       /\ queue' = queue
  ELSE /\ objects' = [objects EXCEPT ![o] = content]
       /\ edit' = [edit EXCEPT ![e] = [IdleEdit EXCEPT !.pc = "evaluating"]]
       /\ queue' = Append(queue, e)

BeginEdit(e, op, stale) ==
  /\ edits < MaxEdits /\ edits' = edits + 1
  /\ ~disposed /\ edit[e].pc = "idle"
  /\ op[1] = "create" => New(op[2])
  /\ IF cached = NoObject \/ stale
     THEN /\ edit' = [edit EXCEPT ![e] = [IdleEdit EXCEPT !.pc = "loading", !.op = op]]
          /\ UNCHANGED <<objects, queue>>
     ELSE Change(e, op, cached, objects[cached])
  /\ UNCHANGED <<fetches, changes, faults, file, cached, eval, published, usage, disposed>>

\* The file is read; then its content becomes the cached store.
LoadForEdit(e) ==
  /\ edit[e].pc = "loading"
  /\ edit' = [edit EXCEPT ![e].pc = "loaded", ![e].bytes = Lenient(file)]
  /\ UNCHANGED <<bounds, storeVars, evalVars, usage, disposed>>

LoadedForEdit(e) ==
  /\ edit[e].pc = "loaded"
  /\ cached' = Fresh
  /\ Change(e, edit[e].op, Fresh, edit[e].bytes)
  /\ UNCHANGED <<bounds, file, eval, published, usage, disposed>>

\* saveStore; when it fails the call does, and nothing is evaluated.
Save(e, ok) ==
  /\ edit[e].pc = "saving"
  /\ ok \/ faults < MaxFaults
  /\ faults' = IF ok THEN faults ELSE faults + 1
  /\ file' = IF ok THEN edit[e].bytes ELSE file
  /\ cached' = IF ok THEN edit[e].object ELSE cached
  /\ edit' = [edit EXCEPT ![e] = [IdleEdit EXCEPT !.pc = IF ok THEN "evaluating" ELSE "idle"]]
  /\ queue' = IF ok THEN Append(queue, e) ELSE queue
  /\ UNCHANGED <<edits, fetches, changes, objects, eval, published, usage, disposed>>

(***************************************************************************)
(* HistoryBudgetRuntime: evaluations, one at a time.                       *)
(***************************************************************************)
IdleEval == [pc |-> "idle", rules |-> NoRules, windows |-> [w \in Window |-> NoUsage], diagnostic |-> FALSE]

\* postFetch, after each fetch of quotas
Fetched ==
  /\ fetches < MaxFetches /\ fetches' = fetches + 1
  /\ ~disposed
  /\ queue' = Append(queue, "fetch")
  /\ UNCHANGED <<edits, changes, faults, storeVars, edit, eval, published, usage, disposed>>

\* The next evaluation starts: postFetch first has the helper record what was
\* fetched, whose failure it only reports.
Start ==
  /\ eval.pc = "idle" /\ queue # <<>>
  /\ eval' = [IdleEval EXCEPT !.pc = IF disposed THEN "end" ELSE "reading"]
  /\ UNCHANGED <<bounds, storeVars, edit, queue, published, usage, disposed>>

\* Mutant: the cached rules are good enough.
ReadRules_Cached ==
  /\ eval.pc = "reading"
  /\ eval' = [eval EXCEPT !.pc = "read", !.rules = IF cached = NoObject THEN Lenient(file) ELSE objects[cached]]
  /\ UNCHANGED <<bounds, storeVars, edit, queue, published, usage, disposed>>

\* getBudgetAlertRules, strict and forced: a file that cannot be read is reported,
\* and the rules of the last evaluation are kept.
ReadRules ==
  /\ eval.pc = "reading"
  /\ eval' = IF file = Broken
             THEN [eval EXCEPT !.pc = "asked", !.rules = published.rules, !.diagnostic = TRUE]
             ELSE [eval EXCEPT !.pc = "read", !.rules = file]
  /\ UNCHANGED <<bounds, storeVars, edit, queue, published, usage, disposed>>

\* What a rule is about, or its threshold, may be nothing that can be evaluated.
Usable(rule) == rule.threshold > 0

\* ... and what was read becomes the cached store, before its rules are looked at: one
\* that is not usable is reported like a file that cannot be read.
RulesRead ==
  /\ eval.pc = "read"
  /\ cached' = Fresh
  /\ objects' = [objects EXCEPT ![Fresh] = eval.rules]
  /\ eval' = IF \E i \in DOMAIN eval.rules : ~Usable(eval.rules[i])
             THEN [eval EXCEPT !.pc = "asked", !.rules = published.rules, !.diagnostic = TRUE]
             ELSE [eval EXCEPT !.pc = IF \E i \in DOMAIN eval.rules : eval.rules[i].enabled THEN "asking" ELSE "asked"]
  /\ UNCHANGED <<bounds, file, edit, queue, published, usage, disposed>>

Requested == {eval.rules[i].window : i \in {j \in DOMAIN eval.rules : eval.rules[j].enabled}}

\* The helper's answer: the usage in the windows that were asked for, without those
\* it could not read, or nothing at all.
Answered(read) ==
  /\ eval.pc = "asking" /\ read \subseteq Requested
  /\ read = Requested \/ faults < MaxFaults
  /\ faults' = IF read = Requested THEN faults ELSE faults + 1
  /\ eval' = [eval EXCEPT !.pc = "asked", !.windows = [w \in Window |-> IF w \in read THEN usage[w] ELSE NoUsage]]
  /\ UNCHANGED <<edits, fetches, changes, storeVars, edit, queue, published, usage, disposed>>

\* The results replace the published ones, and whoever waits for them goes on.
EndEval(publication) ==
  /\ published' = publication
  /\ eval' = IdleEval
  /\ queue' = Tail(queue)
  /\ edit' = [e \in Editor |-> IF e = Head(queue) THEN IdleEdit ELSE edit[e]]
  /\ UNCHANGED <<bounds, storeVars, usage, disposed>>

Publish ==
  /\ eval.pc = "asked" /\ ~disposed
  /\ EndEval([revision |-> published.revision + 1, rules |-> eval.rules,
              results |-> Results(eval.rules, eval.windows), diagnostic |-> eval.diagnostic])

\* Mutant: after disposal, whoever waits for the evaluation is left waiting.
Abandon_Silent ==
  /\ eval.pc = "end" \/ (eval.pc = "asked" /\ disposed)
  /\ eval' = IdleEval /\ queue' = Tail(queue)
  /\ UNCHANGED <<bounds, storeVars, edit, published, usage, disposed>>

Abandon == (eval.pc = "end" \/ (eval.pc = "asked" /\ disposed)) /\ EndEval(published)

Dispose == ~disposed /\ disposed' = TRUE /\ UNCHANGED <<bounds, storeVars, edit, evalVars, usage>>

\* Messages are sent, and fall out of their windows.
Use(w, u) ==
  /\ changes < MaxChanges /\ changes' = changes + 1
  /\ usage' = [usage EXCEPT ![w] = u]
  /\ UNCHANGED <<edits, fetches, faults, storeVars, edit, evalVars, disposed>>

BudgetInit ==
  /\ edits = 0 /\ fetches = 0 /\ changes = 0 /\ faults = 0
  /\ file \in {NoRules, Broken} \union [RuleId -> {[s EXCEPT !.threshold = 0] : s \in Setting}]
  /\ objects = [o \in 1..(Cardinality(Editor) + 2) |-> NoRules] /\ cached = NoObject
  /\ edit = [e \in Editor |-> IdleEdit]
  /\ queue = <<>> /\ eval = IdleEval
  /\ \E u \in Usage : usage = [w \in Window |-> u]
  /\ published = [revision |-> 0, rules |-> NoRules, results |-> <<>>, diagnostic |-> FALSE]
  /\ disposed = FALSE

Operation == ({"create", "update"} \X RuleId \X Setting) \union ({"delete"} \X RuleId)

Editing == \E e \in Editor :
  \/ \E op \in Operation, stale \in BOOLEAN : BeginEdit(e, op, stale)
  \/ LoadForEdit(e) \/ LoadedForEdit(e)
  \/ \E ok \in BOOLEAN : Save(e, ok)

Evaluating ==
  \/ Start \/ ReadRules \/ RulesRead \/ (\E read \in SUBSET Window : Answered(read)) \/ Publish \/ Abandon

BudgetNext == Editing \/ Evaluating \/ Fetched \/ Dispose \/ (\E w \in Window, u \in Usage : Use(w, u))

BudgetSpec == BudgetInit /\ [][BudgetNext]_budgetVars

(***************************************************************************)
(* What is promised.                                                       *)
(***************************************************************************)
\* The ways in which what has no known price or source could turn out.
Resolutions(u) ==
  {[priced |-> u.priced, sources |-> where, usd |-> much] :
     where \in [DOMAIN u.unknown -> Source], much \in [DOMAIN u.unknown -> {0, 9}]}
Possible(u) ==
  {r \in Resolutions(u) : \A s \in DOMAIN u.unknown :
     /\ s[1] # Unknown => r.sources[s][1] = s[1]
     /\ s[2] # Unknown => r.sources[s][2] = s[2]}

\* The rule's verdict, had it been known: a token has its source, and what costs
\* something its price.
Verdict(rule, u, r) ==
  LET mine == {s \in DOMAIN u.priced : Matches(rule.scope, s)}
      more == {s \in DOMAIN u.unknown : Matches(rule.scope, r.sources[s])}
      cost == Sum([s \in DOMAIN u.priced |-> u.priced[s].usd], mine)
      value == IF rule.metric # "cost"
               THEN Sum([s \in DOMAIN u.priced |-> u.priced[s].tokens], mine) + Sum(u.unknown, more)
               ELSE IF more = {} THEN cost ELSE cost + Sum(r.usd, more)
  IN  IF rule.above THEN value > rule.threshold ELSE value < rule.threshold

\* A rule that names what it is about: one about the sources called unknown counts
\* just those.
Named(scope) ==
  /\ scope[1] \in {"global", "provider", "model"}
  /\ scope[1] # "global" => scope[2] # Unknown
  /\ scope[1] = "model" => scope[3] # Unknown

\* An alert is shown as certain only when it is: when the usage of its window was
\* read, and no price or source that is still unknown could change it.  What could
\* not be read or priced is unknown, never zero.
VerdictIsCertain ==
  \A i \in DOMAIN published.results :
    LET result == published.results[i]
        rule == published.rules[i]
    IN  IF result.status = "ok"
        THEN /\ result.of # NoUsage
             /\ Named(rule.scope) => \A r \in Possible(result.of) : Verdict(rule, result.of, r) = result.triggered
        ELSE ~result.triggered

\* Once no edit and no evaluation is under way, what is published is about the rules
\* that are in the file, also when edits overlapped with each other and with the
\* evaluations after fetches.
PublishedIsCurrent ==
  (queue = <<>> /\ (\A e \in Editor : edit[e].pc = "idle") /\ published.revision > 0 /\ ~published.diagnostic
   /\ file # Broken /\ ~disposed)
    => published.rules = file
==================================================================================
