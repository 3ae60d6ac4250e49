-------------------------------- MODULE Installer --------------------------------
(***************************************************************************)
(* The guided setup (planInitInstaller, applyInitInstallerPlan): it plans  *)
(* edits of up to three files of one root from what is there, and writes   *)
(* them one after the other once the user confirms; a write may fail and   *)
(* leave the rest undone.  Meanwhile settings are loaded from the files.   *)
(***************************************************************************)
EXTENDS Configuration

CONSTANTS
  Answers,       \* [root, toast, sidebar, compact, announce, adds, sync]
  InitialFiles,
  NoPlan

VARIABLES
  choice, stage, \* "ready", "planned", "done", "failed"
  plan,          \* sequence of [kind, changed, content]
  before         \* the files the plan was made from

installerVars == <<fileVars, loadVars, choice, stage, plan, before>>

Present(v) == [ok |-> TRUE, v |-> v, unknown |-> FALSE]

------------------------------------------------------------------------------
(* Planning.                                                                *)

\* resolveEditableConfigPath, in a root with these files.
Editable(root) == IF root["jsonc"] # Absent THEN "jsonc" ELSE "json"

\* An edit that is planned: its content so far, and whether it changed.
Unchanged(section) == [section |-> section, changed |-> FALSE]

With(edit, s, value) ==
  [section |-> [k \in DOMAIN edit.section \cup {s} |-> IF k = s THEN value ELSE edit.section[k]],
   changed |-> TRUE]

\* Mutant: what the user already has is replaced like the installer's own.
Added_Replaced(edit, s, v) == With(edit, s, Present(v))

\* addSettingIfMissing
Added(edit, s, v) == IF s \in DOMAIN edit.section THEN edit ELSE With(edit, s, Present(v))

\* setInstallerOwnedSetting
Owned(edit, s, v) ==
  IF s \in DOMAIN edit.section /\ edit.section[s].v = v THEN edit ELSE With(edit, s, Present(v))

\* ... of a group, which is preserved where it is no object.
OwnedIn(edit, s, v) ==
  IF s \in DOMAIN edit.section /\ edit.section[s].v = NotObject THEN edit ELSE Owned(edit, s, v)

\* pickFormatStyleToWrite: a style under its old name is taken over.
Style(edit, c) ==
  IF ValidIn(edit.section, "toastStyle") THEN edit.section["toastStyle"].v ELSE c.adds["formatStyle"]

\* planTuiCompactStatusConfig: off is only written where there is something to turn off.
Compact(edit, c) ==
  IF c.compact \/ "tuiCompactStatus" \in DOMAIN edit.section
  THEN OwnedIn(edit, "tuiCompactStatus", c.compact) ELSE edit

Announcements(edit, c) ==
  IF c.announce = Nobody THEN edit ELSE OwnedIn(edit, "maintainerAnnouncements", c.announce)

\* The settings of the plugin's file, in the order they are planned.  showSessionTokens is
\* added as percentDisplayMode is; a group of sub-settings (the sidebar, the compact
\* status, the announcements) is one value, that of its own switch.
SettingsEdit(edit, c) ==
  LET toast == Owned(edit, "enableToast", c.toast)
      providers == Added(toast, "enabledProviders", c.adds["enabledProviders"])
      style == Added(providers, "formatStyle", Style(providers, c))
      percent == Added(style, "percentDisplayMode", c.adds["percentDisplayMode"])
  IN  Announcements(Compact(OwnedIn(percent, "tuiSidebarPanel", c.sidebar), c), c)

\* readLegacyQuotaToastSeed
Seed(root) ==
  LET content == root[Editable(root)]
  IN  IF IsConfig(content) /\ content.section # NoSection THEN content.section ELSE <<>>

\* Mutant: a new file starts from nothing.
QuotaEdit_Empty(root, c) ==
  LET existing == root["plugin"]
      start == IF existing = Absent THEN [section |-> <<>>, changed |-> TRUE]
               ELSE Unchanged(existing.section)
  IN  SettingsEdit(start, c)

\* planQuotaConfigEdit: a new file takes over the section that applied before.
QuotaEdit(root, c) ==
  LET existing == root["plugin"]
      start == IF existing = Absent THEN [section |-> Seed(root), changed |-> TRUE]
               ELSE Unchanged(existing.section)
  IN  SettingsEdit(start, c)

\* appendQuotaPluginIfMissing, ensureSchema
PluginAdded(content) ==
  IF content = Absent THEN [section |-> NoSection, plugin |-> "quota", schema |-> TRUE]
  ELSE [content EXCEPT !.plugin = "quota", !.schema = TRUE]

\* syncLegacyQuotaToast: every planned setting that differs is copied.
Synced(content, section) ==
  LET old == IF content.section = NoSection THEN <<>> ELSE content.section
  IN  [content EXCEPT !.section = IF DOMAIN section = {} THEN @
                                  ELSE [s \in DOMAIN old \cup DOMAIN section |->
                                          IF s \in DOMAIN section THEN section[s] ELSE old[s]]]

FileEdit(kind, old, new) == [kind |-> kind, changed |-> new # old, content |-> new]

\* planInitInstaller, in the order in which the edits are written
Interface(c) == c.sidebar \/ c.compact
Plan(root, c) ==
  LET quota == QuotaEdit(root, c)
      legacy == root[Editable(root)]
      added == PluginAdded(legacy)
      opencode == FileEdit(Editable(root), legacy, IF c.sync THEN Synced(added, quota.section) ELSE added)
      plugin == [kind |-> "plugin", changed |-> quota.changed,
                 content |-> [section |-> quota.section, plugin |-> "other", schema |-> TRUE]]
  IN  IF Interface(c) THEN <<opencode, plugin, FileEdit("tui", root["tui"], PluginAdded(root["tui"]))>>
      ELSE <<opencode, plugin>>

\* The files that the plan reads, and what makes it throw: what cannot be read
\* (readExistingConfig), and a list of plugins that is none.  A section that is no object
\* throws too where it is to be synced (syncLegacyQuotaToast); here every section is one.
Throws(root, c) ==
  LET listing == {Editable(root)} \cup (IF Interface(c) THEN {"tui"} ELSE {})
  IN  \/ \E k \in listing \cup {"plugin"} : root[k] = Broken
      \/ \E k \in listing : IsConfig(root[k]) /\ root[k].plugin = "bad"

\* The files once an edit is written.
Written(root, edit) == IF edit.changed THEN [root EXCEPT ![edit.kind] = edit.content] ELSE root

------------------------------------------------------------------------------
InstallerInit ==
  /\ files \in InitialFiles
  /\ ConfigurationInit
  /\ choice \in Answers /\ stage = "ready" /\ plan = NoPlan /\ before = files

\* The plan's reads are taken together; it is shown, and confirmed or cancelled.
PlanInstall ==
  /\ stage = "ready"
  /\ IF Throws(files[choice.root], choice) THEN stage' = "failed" /\ UNCHANGED plan
     ELSE stage' = "planned" /\ plan' = Plan(files[choice.root], choice)
  /\ before' = files
  /\ UNCHANGED <<fileVars, loadVars, choice>>

Cancel ==
  /\ stage = "planned" /\ files = before /\ plan = Plan(files[choice.root], choice)
  /\ stage' = "failed"
  /\ UNCHANGED <<fileVars, loadVars, choice, plan, before>>

\* applyInitInstallerPlan: what was planned is written, whatever is there by now.
WriteEdit ==
  /\ stage = "planned" /\ plan # <<>>
  /\ files' = [files EXCEPT ![choice.root] = Written(@, Head(plan))]
  /\ plan' = Tail(plan)
  /\ steady' = (steady /\ ~Head(plan).changed)
  /\ UNCHANGED <<edits, at, reading, acc, loaded, choice, stage, before>>

EndInstall ==
  /\ stage = "planned" /\ plan = <<>>
  /\ stage' = "done"
  /\ UNCHANGED <<fileVars, loadVars, choice, plan, before>>

WriteFails ==
  /\ stage = "planned" /\ plan # <<>>
  /\ stage' = "failed"
  /\ UNCHANGED <<fileVars, loadVars, choice, plan, before>>

UserEdits == Edit /\ stage = "ready" /\ UNCHANGED <<choice, stage, plan, before>>

Loads == Load /\ UNCHANGED <<choice, stage, plan, before>>

InstallerNext == PlanInstall \/ Cancel \/ WriteEdit \/ EndInstall \/ WriteFails \/ UserEdits \/ Loads

InstallerSpec == InstallerInit /\ [][InstallerNext]_installerVars

------------------------------------------------------------------------------
(* Properties.                                                              *)

InstallerOwned == {"enableToast", "tuiSidebarPanel", "tuiCompactStatus", "maintainerAnnouncements"}

\* The section that applies among the files of a root.
Applying(root) ==
  LET content == IF root["plugin"] # Absent THEN root["plugin"] ELSE root[Editable(root)]
  IN  IF IsConfig(content) /\ content.section # NoSection THEN content.section ELSE <<>>

\* The settings the user had in the installer's root take effect with the same values
\* after every write of the plan, also when a later one fails: a file of the plugin
\* that appears takes over all that it hides.  (Only the installer's own settings
\* change.  Where both of OpenCode's files have a section, only jsonc's is taken over, and
\* what opencode.json alone sets is hidden with it: of that nothing is said here.)
SetupKeepsSettings ==
  stage # "ready" =>
    LET old == Applying(before[choice.root])
        new == Applying(files[choice.root])
    IN  \A s \in PatchedSettings(old) \ InstallerOwned :
          s \in PatchedSettings(new) /\ PatchValue(new, s) = PatchValue(old, s)

\* A setup that is done is done: planned again it has nothing to write, the plugin is
\* listed, and its own choices are what is in the plugin's file.
SetupSettles ==
  stage = "done" =>
    LET root == files[choice.root]
    IN  /\ \A i \in DOMAIN Plan(root, choice) : ~Plan(root, choice)[i].changed
        /\ root[Editable(root)].plugin = "quota"
        /\ Applying(root)["enableToast"].v = choice.toast

==============================================================================
