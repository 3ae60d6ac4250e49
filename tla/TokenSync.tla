-------------------------------- MODULE TokenSync --------------------------------
(***************************************************************************)
(* Token usage of several machines (token-sync.ts and its handlers in      *)
(* tokens.ts): each exports the sums of its sessions to a file of its own, *)
(* git carries the files, and each adds up its own messages and what the   *)
(* other files have of sessions that it does not know.  Sessions are       *)
(* worked on meanwhile, copied to other machines and deleted.              *)
(***************************************************************************)
EXTENDS Integers, FiniteSets, Functions

CONSTANTS
  Machine, Session,
  None,          \* no file
  Damaged,       \* a file that is no JSON, or of an older version
  MaxTokens,     \* of a session
  MaxEdits,      \* things that happen to sessions
  MaxCopies      \* machines that may have a session

VARIABLES
  db, edits,     \* db: by machine, its sessions and their tokens
  files,         \* by machine, its checkout: the export of each machine
  repo,          \* what was pushed
  stage, own, index, todo, counted, \* a merge, by machine
  steady         \* nothing happened to the machine's sessions since the merge began

syncVars == <<db, edits, files, repo, stage, own, index, todo, counted, steady>>

mergeVars == <<stage, own, index, todo, counted>>

\* extractTokens: what has no tokens is not counted, and not exported.
Sums(sessions) == Restrict(sessions, {s \in DOMAIN sessions : sessions[s] > 0})

Set(f, k, v) == [x \in DOMAIN f \cup {k} |-> IF x = k THEN v ELSE f[x]]

SyncInit ==
  /\ db = [m \in Machine |-> <<>>] /\ edits = 0
  /\ files = [m \in Machine |-> [n \in Machine |-> None]]
  /\ repo = [m \in Machine |-> None]
  /\ stage = [m \in Machine |-> "idle"]
  /\ own = [m \in Machine |-> <<>>] /\ index = [m \in Machine |-> {}]
  /\ todo = [m \in Machine |-> {}] /\ counted = [m \in Machine |-> {}]
  /\ steady = [m \in Machine |-> TRUE]

Edits(m, sessions) ==
  /\ edits < MaxEdits /\ edits' = edits + 1
  /\ db' = [db EXCEPT ![m] = sessions]
  /\ steady' = [steady EXCEPT ![m] = FALSE]
  /\ UNCHANGED <<files, repo, mergeVars>>

Holders(s) == {m \in Machine : s \in DOMAIN db[m]}

\* A message of a session, of which some have no tokens.
Work(m, s) ==
  /\ s \in DOMAIN db[m] \/ Holders(s) = {}
  /\ LET before == IF s \in DOMAIN db[m] THEN db[m][s] ELSE 0
     IN  /\ before < MaxTokens
         /\ \E tokens \in {before, before + 1} : Edits(m, Set(db[m], s, tokens))

Copy(m, n, s) ==
  /\ s \in DOMAIN db[m] \ DOMAIN db[n] /\ Cardinality(Holders(s)) < MaxCopies
  /\ Edits(n, Set(db[n], s, db[m][s]))

Delete(m, s) ==
  /\ s \in DOMAIN db[m]
  /\ Edits(m, Restrict(db[m], DOMAIN db[m] \ {s}))

\* exportTokenSync
Export(m) ==
  /\ files' = [files EXCEPT ![m][m] = Sums(db[m])]
  /\ UNCHANGED <<db, edits, repo, mergeVars, steady>>

\* exportToSyncAndPush after the export: add, commit and push, which may fail.
Push(m) ==
  /\ files[m][m] # None
  /\ repo' = [repo EXCEPT ![m] = files[m][m]]
  /\ UNCHANGED <<db, edits, files, mergeVars, steady>>

\* git pull, which is left to the user and may leave a file with conflicts.
Pull(m) ==
  /\ \E damaged \in SUBSET {n \in Machine \ {m} : repo[n] # None} :
       /\ Cardinality(damaged) <= 1
       /\ files' = [files EXCEPT ![m] = [n \in Machine |-> IF n = m THEN files[m][m]
                                                          ELSE IF n \in damaged THEN Damaged ELSE repo[n]]]
  /\ UNCHANGED <<db, edits, repo, mergeVars, steady>>

\* loadMergedTokenUsage: the messages, the index of sessions, the files one by one.
MergeOwn(m) ==
  /\ stage[m] \in {"idle", "merged"}
  /\ stage' = [stage EXCEPT ![m] = "index"]
  /\ own' = [own EXCEPT ![m] = Sums(db[m])]
  /\ steady' = [steady EXCEPT ![m] = TRUE]
  /\ UNCHANGED <<db, edits, files, repo, index, todo, counted>>

MergeIndex(m) ==
  /\ stage[m] = "index"
  /\ stage' = [stage EXCEPT ![m] = "files"]
  /\ index' = [index EXCEPT ![m] = DOMAIN db[m]]
  /\ todo' = [todo EXCEPT ![m] = {n \in Machine \ {m} : files[m][n] # None}]
  /\ counted' = [counted EXCEPT ![m] = {<<m, s, own[m][s]>> : s \in DOMAIN own[m]}]
  /\ UNCHANGED <<db, edits, files, repo, own, steady>>

\* Mutant: a session is new that this machine has not exported itself.
New_Exported(m, n) ==
  {<<n, s, files[m][n][s]>> :
     s \in DOMAIN files[m][n] \ (IF files[m][m] = None THEN {} ELSE DOMAIN files[m][m])}

\* What a file has of sessions that are not this machine's.
New(m, n) == {<<n, s, files[m][n][s]>> : s \in DOMAIN files[m][n] \ index[m]}

MergeFile(m, n) ==
  /\ stage[m] = "files" /\ n \in todo[m]
  /\ todo' = [todo EXCEPT ![m] = @ \ {n}]
  /\ counted' = [counted EXCEPT ![m] = @ \cup (IF files[m][n] \in {None, Damaged} THEN {} ELSE New(m, n))]
  /\ UNCHANGED <<db, edits, files, repo, stage, own, index, steady>>

Merged(m) ==
  /\ stage[m] = "files" /\ todo[m] = {}
  /\ stage' = [stage EXCEPT ![m] = "merged"]
  /\ UNCHANGED <<db, edits, files, repo, own, index, todo, counted, steady>>

SyncNext ==
  \E m \in Machine :
    \/ \E s \in Session : Work(m, s) \/ Delete(m, s) \/ \E n \in Machine : Copy(m, n, s)
    \/ Export(m) \/ Push(m) \/ Pull(m)
    \/ MergeOwn(m) \/ MergeIndex(m) \/ (\E n \in Machine : MergeFile(m, n)) \/ Merged(m)

SyncSpec == SyncInit /\ [][SyncNext]_syncVars

------------------------------------------------------------------------------
(* Property.                                                                *)

Of(m, s) == {c \in counted[m] : c[2] = s}

\* A merge counts each session of its own machine once and with all its tokens,
\* whatever older exports of it come back in the files of others, and one that it does
\* not have, or has no more, not from its own file.  (Of the sessions of others nothing
\* is said: one that two other machines exported is counted with both, which the
\* comment of loadMergedTokenUsage excludes.)
OwnCountedOnce ==
  \A m \in Machine : stage[m] = "merged" /\ steady[m] =>
    \A s \in Session :
      /\ s \in DOMAIN db[m] => Of(m, s) = {<<m, s, t>> : t \in {db[m][s]} \ {0}}
      /\ s \notin DOMAIN db[m] => \A c \in Of(m, s) : c[1] # m
==============================================================================
