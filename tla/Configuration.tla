------------------------------- MODULE Configuration -------------------------------
(***************************************************************************)
(* How settings are loaded (loadConfig): from the files of the global      *)
(* roots and then of the workspace, of which each has a file of the        *)
(* plugin's own or else a section in opencode.json and opencode.jsonc;     *)
(* from the SDK where there is none; else the defaults.  Files are read    *)
(* one after the other, while somebody edits them.                         *)
(*                                                                         *)
(* A section is a function from the names of settings to values: ok says   *)
(* whether v is valid.  Nested settings are named by their path; NotObject *)
(* stands for a group that is no object.                                   *)
(***************************************************************************)
EXTENDS Integers, Sequences, FiniteSetsExt, Functions

CONSTANTS
  Globals,       \* sequence of global roots, by falling directory priority
  Workspace,     \* the workspace's root, which may be one of them
  Settings, Defaults,
  Disabled,      \* of each setting that fails closed, the value it falls to
  Sections,      \* what a user may write
  Absent, Broken, NoSection, NotObject, Auto, Nobody,
  MaxEdits

VARIABLES
  files,         \* root -> kind of file -> Absent, Broken, or [section, plugin, schema]
  edits, steady, \* steady: no edit since the load began
  at, reading,   \* candidate that is looked at, and whether it is being read
  acc, loaded

fileVars == <<files, edits>>
loadVars == <<steady, at, reading, acc, loaded>>

Legacy == {"json", "jsonc"}
Kinds == {"plugin", "tui"} \cup Legacy
Roots == {Globals[i] : i \in DOMAIN Globals} \cup {Workspace}

\* buildConfigLayerCandidates: the files of each root; the workspace comes last, and
\* only then, also where it is a global root.
Candidates ==
  [n \in 1..(3 * (Len(Globals) + 1)) |->
     [root |-> IF n <= 3 * Len(Globals) THEN Globals[(n + 2) \div 3] ELSE Workspace,
      kind |-> <<"plugin", "json", "jsonc">>[((n + 2) % 3) + 1]]]
Repeated(n) == n <= 3 * Len(Globals) /\ Candidates[n].root = Workspace

------------------------------------------------------------------------------
(* One section.                                                             *)

ValidIn(section, s) == s \in DOMAIN section /\ section[s].ok

\* normalizeEnabledProviders: the known ids of a list; what has none of them, or is
\* no list, is empty and says so.
InvalidEmpty(value) == ~value.ok \/ (value.v = {} /\ value.unknown)

\* Mutant: an override that is malformed is passed over.
PatchedSettings_Open(section) ==
  {s \in Settings : \/ ValidIn(section, s)
                    \/ s = "enabledProviders" /\ s \in DOMAIN section
                    \/ s = "formatStyle" /\ ValidIn(section, "toastStyle")}

\* extractValidatedQuotaToastPatch: which settings of a section take effect, and
\* with which values.  A setting that fails closed never inherits.
PatchedSettings(section) ==
  {s \in Settings : \/ ValidIn(section, s)
                    \/ s \in DOMAIN section /\ s \in DOMAIN Disabled \cup {"enabledProviders"}
                    \/ s = "formatStyle" /\ ValidIn(section, "toastStyle")}

PatchValue(section, s) ==
  IF s = "formatStyle" THEN (IF ValidIn(section, s) THEN section[s].v ELSE section["toastStyle"].v)
  ELSE IF section[s].ok THEN section[s].v
  ELSE IF s = "enabledProviders" THEN {} ELSE Disabled[s]

Issues(section) ==
  {s \in DOMAIN section :
     \/ s \in DOMAIN Disabled /\ ~section[s].ok
     \/ s = "enabledProviders" /\ (~section[s].ok \/ section[s].unknown)}

\* applyValidatedQuotaToastPatch: a list without a known provider does not replace
\* one of an earlier layer.
Applied(a, section, source) ==
  LET kept(s) == /\ s = "enabledProviders" /\ InvalidEmpty(section[s])
                 /\ a.sources[s] # Nobody
      taken == {s \in PatchedSettings(section) : ~kept(s)}
  IN  [used |-> Append(a.used, source),
       config |-> [s \in Settings |-> IF s \in taken THEN PatchValue(section, s) ELSE a.config[s]],
       sources |-> [s \in Settings |-> IF s \in taken THEN source ELSE a.sources[s]],
       issues |-> a.issues \cup {<<source, s>> : s \in Issues(section)}]

Blank == [used |-> <<>>, config |-> Defaults, sources |-> [s \in Settings |-> Nobody], issues |-> {}]

------------------------------------------------------------------------------
(* One file.                                                                *)

IsConfig(content) == content \notin {Absent, Broken}

\* A plugin's file that cannot be read counts, without any setting in it.
AppliedFile(a, c, content) ==
  IF c.kind = "plugin" /\ ~IsConfig(content)
  THEN [a EXCEPT !.used = Append(@, c), !.issues = @ \cup {<<c, "$root">>}]
  ELSE IF IsConfig(content) /\ content.section # NoSection THEN Applied(a, content.section, c)
  ELSE a

\* A section of OpenCode's own file counts only where there is no file of the plugin.
Skipped(n) ==
  LET c == Candidates[n]
  IN  \/ Repeated(n)
      \/ c.kind # "plugin" /\ files[c.root]["plugin"] # Absent
      \/ files[c.root][c.kind] = Absent

\* loadConfig's second half.  The issues of custom definitions, which are those of another
\* file, are not among the issues; a load of the global roots only is one whose workspace
\* is a root of its own without files.
Outcome(a, sdk) ==
  IF a.used # <<>> THEN a
  ELSE IF sdk # NoSection THEN Applied(Blank, sdk, [root |-> "sdk", kind |-> "sdk"])
  ELSE Blank

\* Which files there are: of each root and kind, what may be read of it.
ProperRoot(root) ==
  /\ root = [k \in Kinds |-> root[k]]
  /\ \A k \in Kinds : IsConfig(root[k]) =>
       /\ root[k] = [section |-> root[k].section, plugin |-> root[k].plugin, schema |-> root[k].schema]
       /\ k = "plugin" => root[k].section # NoSection
Proper(f) == f = [r \in Roots |-> f[r]] /\ \A r \in Roots : ProperRoot(f[r])

------------------------------------------------------------------------------
ConfigurationInit ==
  /\ edits = 0 /\ steady = TRUE
  /\ at = 0 /\ reading = FALSE /\ acc = Blank /\ loaded = Blank

LoadBegin ==
  /\ at = 0
  /\ at' = 1 /\ acc' = Blank /\ steady' = TRUE
  /\ UNCHANGED <<fileVars, reading, loaded>>

LookAt ==
  /\ at \in DOMAIN Candidates /\ ~reading
  /\ IF Skipped(at) THEN at' = at + 1 /\ UNCHANGED reading
     ELSE reading' = TRUE /\ UNCHANGED at
  /\ UNCHANGED <<fileVars, steady, acc, loaded>>

ReadFile ==
  /\ reading
  /\ LET c == Candidates[at]
     IN  acc' = AppliedFile(acc, c, files[c.root][c.kind])
  /\ reading' = FALSE /\ at' = at + 1
  /\ UNCHANGED <<fileVars, steady, loaded>>

LoadEnd ==
  /\ at = Len(Candidates) + 1
  /\ \E sdk \in {NoSection} \cup Sections : loaded' = Outcome(acc, sdk)
  /\ at' = 0
  /\ UNCHANGED <<fileVars, steady, reading, acc>>

Load == LoadBegin \/ LookAt \/ ReadFile \/ LoadEnd

\* What may be in a file: the plugin's own is a section as a whole.
Contents(kind) ==
  {Absent, Broken}
  \cup [section : Sections \cup (IF kind = "plugin" THEN {} ELSE {NoSection}), plugin : {"other"}, schema : {TRUE}]

\* Somebody edits, creates or removes one file.
Edit ==
  /\ edits < MaxEdits /\ edits' = edits + 1
  /\ \E r \in Roots, k \in Kinds : \E content \in Contents(k) \ {files[r][k]} :
       files' = [files EXCEPT ![r][k] = content]
  /\ steady' = FALSE
  /\ UNCHANGED <<at, reading, acc, loaded>>

------------------------------------------------------------------------------
(* Property.                                                                *)

Content(n) == files[Candidates[n].root][Candidates[n].kind]

\* Which candidates count, and what each of them has for a setting.
Counts(n) ==
  /\ ~Skipped(n)
  /\ IF IsConfig(Content(n)) THEN Content(n).section # NoSection ELSE Candidates[n].kind = "plugin"
SectionOf(n) == IF IsConfig(Content(n)) /\ Content(n).section # NoSection THEN Content(n).section ELSE <<>>

\* The value a user may expect of a setting: that of the last file that has one;
\* unless it fails closed, a value that is not valid is none; a list of providers
\* without any that is known is one only where there is no better.
Says(n, s) ==
  \/ ValidIn(SectionOf(n), s) /\ ~(s = "enabledProviders" /\ InvalidEmpty(SectionOf(n)[s]))
  \/ s \in DOMAIN SectionOf(n) /\ s \in DOMAIN Disabled
  \/ s = "formatStyle" /\ ValidIn(SectionOf(n), "toastStyle")

Expected(s) ==
  LET saying == {n \in DOMAIN Candidates : Counts(n) /\ Says(n, s)}
      last == SectionOf(Max(saying))
  IN  IF saying # {}
      THEN (IF ValidIn(last, s) THEN last[s].v
            ELSE IF s = "formatStyle" THEN last["toastStyle"].v ELSE Disabled[s])
      ELSE IF s = "enabledProviders" /\ (\E n \in DOMAIN Candidates : Counts(n) /\ s \in DOMAIN SectionOf(n))
      THEN {} ELSE Defaults[s]

\* A load during which nothing is edited gives each setting the value that the files
\* say, by their priority: a workspace file never loses to a global one, a section
\* of OpenCode's never shows through a file of the plugin, notifications that are
\* malformed are off instead of inherited; and a problem is reported for each list or
\* notification setting that was not taken whole.
LoadIsExpected ==
  at = Len(Candidates) + 1 /\ steady =>
    /\ \A s \in Settings : acc.config[s] = Expected(s)
    /\ acc.used # <<>> <=> \E n \in DOMAIN Candidates : Counts(n)
    /\ \A n \in DOMAIN Candidates :
         Counts(n) => \A s \in Issues(SectionOf(n)) : <<Candidates[n], s>> \in acc.issues

==============================================================================
