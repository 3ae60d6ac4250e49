---------------------------- MODULE SchemaMigration ----------------------------
(***************************************************************************)
(* migrateSchema: several processes (desktop helpers, plugin runtimes,     *)
(* CLIs) open one history database at the same time, each snapshots what   *)
(* it is about to upgrade, and only one may upgrade it.                    *)
(*                                                                         *)
(* SQLite provides the atomicity: an upgrade is one transaction under an   *)
(* exclusive lock, a crash rolls it back, VACUUM INTO copies one committed *)
(* version.  The file operations around it have none.                      *)
(***************************************************************************)
EXTENDS Integers

CONSTANTS
  Opener,   \* processes that open the database, each once
  Writer,   \* stands for any connection that writes without migrating
  Free      \* nobody holds the write lock

Latest == 5     \* the schema version of this package

Attempts == 5   \* attempts of migrateSchema
NoFile == -1    \* a backup directory without a complete history.sqlite

ASSUME MigrationAssumption ==
  Writer \notin Opener /\ Free \notin Opener /\ Writer # Free

VARIABLES
  version,   \* max(version) of schema_version, 0 without that table
  lock,      \* holder of the write lock; an opener holds it exclusively
  pc,        \* what each opener is doing
  initial,   \* the version it started the current attempt from
  attempt,   \* attempts it has lost
  backup,    \* its backup directory: label n for "pre-v<n>", and its content
  upgraded   \* history: who has upgraded, and from which version

vars == <<version, lock, pc, initial, attempt, backup, upgraded>>

Version == 0..Latest
NoBackup == [label |-> 0, content |-> NoFile]
Ended == {"done", "failed", "exhausted", "dead"}

\* The database may be new or come from any earlier package.
Init ==
  /\ version \in Version
  /\ lock = Free
  /\ pc = [p \in Opener |-> "start"]
  /\ initial = [p \in Opener |-> 0]
  /\ attempt = [p \in Opener |-> 0]
  /\ backup = [p \in Opener |-> NoBackup]
  /\ upgraded = {}

------------------------------------------------------------------------------
Goto(p, label) == pc' = [pc EXCEPT ![p] = label]

RemoveBackup(p) == backup' = [backup EXCEPT ![p] = NoBackup]

\* An exclusive lock of somebody else keeps p from reading; waiting for it ends
\* with SQLITE_BUSY after 1500 ms.
Readable == lock \notin Opener

\* The version is read.  A current schema needs nothing, a new database has
\* nothing to be backed up, any other gets a directory for its snapshot.
ReadVersion(p) ==
  /\ pc[p] = "start"
  /\ Readable
  /\ initial' = [initial EXCEPT ![p] = version]
  /\ Goto(p, CASE version >= Latest -> "done"
               [] version = 0 -> "locking"
               [] OTHER -> "copying")
  /\ backup' = [backup EXCEPT ![p] =
                  IF version \in 1..(Latest - 1)
                    THEN [label |-> version + 1, content |-> NoFile] ELSE @]
  /\ UNCHANGED <<version, lock, attempt, upgraded>>

\* VACUUM INTO, chmod and fsync: a copy of whatever is committed by now.
Snapshot(p) ==
  /\ pc[p] = "copying"
  /\ Readable
  /\ backup' = [backup EXCEPT ![p] = [@ EXCEPT !.content = version]]
  /\ Goto(p, "locking")
  /\ UNCHANGED <<version, lock, initial, attempt, upgraded>>

SnapshotFails(p) ==
  /\ pc[p] = "copying"
  /\ RemoveBackup(p)
  /\ Goto(p, "failed")
  /\ UNCHANGED <<version, lock, initial, attempt, upgraded>>

\* Mutant: writers are not excluded.
BeginExclusive_Shared(p) ==
  /\ pc[p] = "locking"
  /\ Goto(p, "locked")
  /\ lock' = p
  /\ UNCHANGED <<version, initial, attempt, backup, upgraded>>

BeginExclusive(p) ==
  /\ pc[p] = "locking"
  /\ lock = Free
  /\ lock' = p
  /\ Goto(p, "locked")
  /\ UNCHANGED <<version, initial, attempt, backup, upgraded>>

\* Mutant: BEGIN EXCLUSIVE waits for ever.
Busy_WaitForLock(p) ==
  /\ pc[p] = "start" /\ ~Readable
  /\ Goto(p, "failed")
  /\ UNCHANGED <<version, lock, initial, attempt, backup, upgraded>>

\* The database stays busy for longer than the timeout: reading the version or
\* BEGIN EXCLUSIVE throws, and nothing is cleaned up.
Busy(p) ==
  /\ \/ pc[p] = "start" /\ ~Readable
     \/ pc[p] = "locking" /\ lock # Free
  /\ Goto(p, "failed")
  /\ UNCHANGED <<version, lock, initial, attempt, backup, upgraded>>

\* Under the lock, another version than before: somebody else has upgraded.
LoseRace(p) ==
  /\ pc[p] = "locked"
  /\ version # initial[p]
  /\ lock' = Free
  /\ RemoveBackup(p)
  /\ attempt' = [attempt EXCEPT ![p] = @ + 1]
  /\ Goto(p, IF attempt[p] + 1 < Attempts THEN "start" ELSE "exhausted")
  /\ UNCHANGED <<version, initial, upgraded>>

\* Mutant: the version is not checked again under the lock.
Recheck_Unchecked(p) ==
  /\ pc[p] = "locked"
  /\ Goto(p, "applying")
  /\ UNCHANGED <<version, lock, initial, attempt, backup, upgraded>>

Recheck(p) ==
  /\ pc[p] = "locked"
  /\ version = initial[p]
  /\ Goto(p, "applying")
  /\ UNCHANGED <<version, lock, initial, attempt, backup, upgraded>>

\* All missing versions are applied and committed together.
Upgrade(p) ==
  /\ pc[p] = "applying"
  /\ version' = Latest
  /\ upgraded' = upgraded \cup {[by |-> p, from |-> version]}
  /\ lock' = Free
  /\ Goto(p, "done")
  /\ UNCHANGED <<initial, attempt, backup>>

\* DDL or commit fails: everything is rolled back, the snapshot stays.
UpgradeFails(p) ==
  /\ pc[p] = "applying"
  /\ lock' = Free
  /\ Goto(p, "failed")
  /\ UNCHANGED <<version, initial, attempt, backup, upgraded>>

\* The process dies, as a history helper does that misses its ten seconds.
Crash(p) ==
  /\ pc[p] \notin Ended
  /\ Goto(p, "dead")
  /\ lock' = IF lock = p THEN Free ELSE lock
  /\ UNCHANGED <<version, initial, attempt, backup, upgraded>>

------------------------------------------------------------------------------
(* Others on the same database.                                            *)

WriterBegins ==
  /\ lock = Free
  /\ lock' = Writer
  /\ UNCHANGED <<version, pc, initial, attempt, backup, upgraded>>

WriterEnds ==
  /\ lock = Writer
  /\ lock' = Free
  /\ UNCHANGED <<version, pc, initial, attempt, backup, upgraded>>

\* An earlier package upgrades to a version of its own.
EarlierPackage(v) ==
  /\ lock = Free
  /\ version < v /\ v < Latest
  /\ version' = v
  /\ UNCHANGED <<lock, pc, initial, attempt, backup, upgraded>>

------------------------------------------------------------------------------
Step(p) ==
  \/ ReadVersion(p)
  \/ Snapshot(p) \/ SnapshotFails(p)
  \/ BeginExclusive(p) \/ Busy(p)
  \/ LoseRace(p) \/ Recheck(p) \/ Upgrade(p) \/ UpgradeFails(p)

Next ==
  \/ \E p \in Opener : Step(p) \/ Crash(p)
  \/ WriterBegins \/ WriterEnds
  \/ \E v \in Version : EarlierPackage(v)

Spec == Init /\ [][Next]_vars

\* Statements return, at the latest when their busy timeout is over.
FairSpec == Spec /\ \A p \in Opener : WF_vars(Step(p))

------------------------------------------------------------------------------
(* Properties.                                                             *)

TypeOK ==
  /\ version \in Version
  /\ lock \in Opener \cup {Writer, Free}
  /\ pc \in [Opener -> Ended \cup {"start", "copying", "locking", "locked", "applying"}]
  /\ initial \in [Opener -> Version]
  /\ attempt \in [Opener -> 0..Attempts]
  /\ backup \in [Opener -> [label : Version, content : {NoFile} \cup Version]]
  /\ upgraded \subseteq [by : Opener, from : Version]

\* Whatever version with data in it has been upgraded, a complete snapshot of
\* exactly that version is retained under the right label, for ever.
UpgradesAreBackedUp ==
  \A u \in upgraded : u.from > 0 =>
    \E p \in Opener : backup[p] = [label |-> u.from + 1, content |-> u.from]

\* A database is upgraded once, from one version, however many processes try.
UpgradedOnce == \A u, w \in upgraded : u = w

\* The five attempts suffice: a process that ran out of them has not left an
\* old schema behind, for every attempt it lost was another's upgrade.
ExhaustedMeansCurrent == \A p \in Opener : pc[p] = "exhausted" => version = Latest

\* A process that finds somebody else has done the upgrade leaves no directory.
LosersCleanUp ==
  \A p \in Opener :
    pc[p] \in {"done", "exhausted"} /\ backup[p] # NoBackup =>
      \E u \in upgraded : u.by = p

\* Opening the database always comes to an end.
OpeningEnds == \A p \in Opener : <>(pc[p] \in Ended)

==============================================================================
