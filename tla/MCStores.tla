------------------------------- MODULE MCStores -------------------------------
(***************************************************************************)
(* The stores of Stores.tla for TLC, and what of their work must end.      *)
(***************************************************************************)
EXTENDS Stores, TLC

\* Local estimates: a journal that keeps fewer times than are recorded, over two days.
RollingWindows == [five |-> [length |-> 1, limit |-> 1], monthly |-> [length |-> 2, limit |-> 2]]

\* The prices of the package are older than the first list.
BundledPrices == [of |-> 0, at |-> 0]

------------------------------------------------------------------------------
(* Budgets: a rule about what a provider costs, created and deleted; usage  *)
(* of a model that has no price, and usage of which nothing is known.       *)

Rule == [enabled |-> TRUE, window |-> "day", scope |-> <<"provider", "p">>, metric |-> "cost",
         above |-> TRUE, threshold |-> 1]
Spent(n, source) == [priced |-> (<<"p", "m">> :> [tokens |-> n, usd |-> n]), unknown |-> (source :> 1)]

BudgetRules == {Rule}
BudgetUsages == {Spent(1, <<"p", "unknown">>), Spent(2, <<"unknown", "unknown">>)}

------------------------------------------------------------------------------
(* Settings: a global root, and a workspace that is one too; sections that  *)
(* hide, turn off or leave out each other's; the setup of the workspace.    *)

Given(v) == [ok |-> TRUE, v |-> v, unknown |-> FALSE]
Malformed == [ok |-> FALSE, v |-> NotObject, unknown |-> FALSE]
SettingNames == {"enableToast", "resetNotifications", "enabledProviders", "formatStyle", "percentDisplayMode",
                 "tuiSidebarPanel", "tuiCompactStatus", "maintainerAnnouncements"}
DefaultOf(s) ==
  CASE s = "formatStyle" -> "single" [] s = "percentDisplayMode" -> "remaining" [] s = "enabledProviders" -> AutoProviders
    [] s = "resetNotifications" -> "off" [] OTHER -> FALSE
Old == "toastStyle" :> Given("all") @@ "resetNotifications" :> Given("on")
         @@ "enabledProviders" :> [ok |-> TRUE, v |-> {"a"}, unknown |-> TRUE]
Mixed == "enabledProviders" :> [ok |-> TRUE, v |-> {}, unknown |-> TRUE] @@ "resetNotifications" :> Malformed
           @@ "tuiSidebarPanel" :> Malformed @@ "tuiCompactStatus" :> Given(TRUE)
Broad == "percentDisplayMode" :> Given("used") @@ "enableToast" :> Given(TRUE) @@ "formatStyle" :> Malformed
Contents(section, plugin) == [section |-> section, plugin |-> plugin, schema |-> FALSE]
Root(plugin, json, jsonc, tui) == [plugin |-> plugin, json |-> json, jsonc |-> jsonc, tui |-> tui]
NoFiles == Root(Absent, Absent, Absent, Absent)
GlobalRoots == {Root(Absent, Contents(Old, "other"), Contents(Mixed, "other"), Absent)}
WorkspaceRoots ==
  {NoFiles, Root(Absent, Contents(NoSection, "bad"), Absent, Absent),
   Root(Absent, Absent, Contents(Old, "quota"), Contents(NoSection, "other")),
   Root(Contents(Broad, "other"), Contents(Old, "other"), Absent, Absent)}
Answer(sidebar, announce, copies) ==
  [root |-> "w", toast |-> FALSE, sidebar |-> sidebar, compact |-> FALSE, announce |-> announce,
   adds |-> "enabledProviders" :> AutoProviders @@ "formatStyle" :> "single" @@ "percentDisplayMode" :> "remaining",
   sync |-> copies]

GlobalDirs == <<"w", "g">>
DefaultValues == [s \in SettingNames |-> DefaultOf(s)]
DisabledValues == [s \in {"resetNotifications"} |-> "off"]
SectionsTried == {Mixed}
AnswersTried == {Answer(TRUE, Nobody, TRUE), Answer(FALSE, TRUE, FALSE)}
FilesTried == {[r \in {"g", "w"} |-> IF r = "g" THEN g ELSE w] : g \in GlobalRoots, w \in WorkspaceRoots}

------------------------------------------------------------------------------
(* Bounds: no step is taken after which nothing is promised; calls on the   *)
(* API keys overlap before the last salt is drawn; usage that is budgeted   *)
(* changes while there is one edit.                                         *)

Promised ==
  /\ part = "apikeys" => orderly /\ doubt # Provider /\ (mixed # {} => salts < MaxSalts)
  /\ part = "pricing" => undisturbed
  /\ part = "budgets" => (changes > 0 => ruleEdits < MaxRuleEdits)

------------------------------------------------------------------------------

\* The fairness of IdentityFair and BudgetFair: a process that is at work goes on, and
\* so do evaluations and the edits that wait.  Of the helper, only that what waits gets
\* its turn, that timers fire, and that a child that was killed ends.
Saves(e) == B!LoadForEdit(e) \/ B!LoadedForEdit(e) \/ \E ok \in BOOLEAN : B!Save(e, ok)

Spec ==
  /\ StoresInit /\ [][StoresNext /\ Promised']_storesVars
  /\ \A p \in Process : WF_identityVars(part = "identity" /\ Step(p))
  /\ WF_budgetVars(part = "budgets" /\ B!Evaluating)
  /\ \A e \in Editor : WF_budgetVars(part = "budgets" /\ Saves(e))
  /\ WF_clientVars(part = "helper" /\ H!Timeout)
  /\ WF_clientVars(part = "helper" /\ \E r \in H!Request : H!Run(r))
  /\ WF_clientVars(part = "helper" /\ \E c \in H!Request : H!Killed(c))

------------------------------------------------------------------------------
(* What must end.                                                           *)

\* An edit of the budget rules, whatever is disposed meanwhile; a request to the helper
\* that is not settled, or the child of a client that is disposed.
Working ==
  \/ part = "budgets" /\ \E e \in Editor : edit[e].pc # "idle"
  \/ /\ part = "helper"
     /\ (\E r \in 1..asked : outcome[r] = "pending") \/ (helperDisposed /\ \E c \in DOMAIN child : child[c].alive)

\* Nothing that is under way goes on for ever: the search of a process for the key,
\* the edits of the budget rules, which wait for evaluations, the requests to the
\* helper, the end of its children.
WorkEnds == NeedIsMet /\ (Working ~> ~Working)

===============================================================================
