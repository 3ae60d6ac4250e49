------------------------ MODULE SchemaMigrationProofs ------------------------
(***************************************************************************)
(* The safety invariants of SchemaMigration, proved for any number of      *)
(* processes.  Versions only grow, so that what a process has read bounds  *)
(* what it finds later, and an upgrade under the lock starts from exactly  *)
(* the version its snapshot was named for.                                 *)
(***************************************************************************)
EXTENDS SchemaMigration, TLAPS

Active == {"copying", "locking", "locked", "applying"}

\* Versions only grow: a process has read a version not beyond the present one
\* and, past reading it, one that needs an upgrade.
\* Only data is copied: a new database has no snapshot.
ReadBehind ==
  \A p \in Opener :
    /\ initial[p] <= version
    /\ pc[p] \in Active => initial[p] < Latest
    /\ pc[p] = "copying" => initial[p] > 0

\* Every attempt lost is another version passed by.
LostToVersions ==
  \A p \in Opener :
    /\ attempt[p] <= version
    /\ pc[p] \in Active => attempt[p] <= initial[p]
    /\ pc[p] = "exhausted" => attempt[p] = Attempts

\* The lock belongs to the process between BEGIN EXCLUSIVE and its end, and
\* the version stands still under it.
LockProtects ==
  \A p \in Opener :
    /\ pc[p] \in {"locked", "applying"} => lock = p
    /\ pc[p] = "applying" => version = initial[p]

\* A directory is named for the version read, and a snapshot in it holds a
\* version between the one read and the present one.
SnapshotsLieBetween ==
  \A p \in Opener :
    /\ pc[p] \in {"start", "exhausted"} => backup[p] = NoBackup
    /\ pc[p] \in Active =>
         backup[p].label = IF initial[p] = 0 THEN 0 ELSE initial[p] + 1
    /\ pc[p] \in Active /\ initial[p] = 0 => backup[p] = NoBackup
    /\ pc[p] \in Active \ {"copying"} /\ initial[p] > 0 =>
         initial[p] <= backup[p].content /\ backup[p].content <= version

\* Who has upgraded is done, kept its snapshot, and left nothing to upgrade.
UpgradersAreDone ==
  \A u \in upgraded :
    /\ version = Latest
    /\ pc[u.by] = "done"
    /\ u.from > 0 => backup[u.by] = [label |-> u.from + 1, content |-> u.from]

IInv ==
  /\ TypeOK
  /\ ReadBehind
  /\ LostToVersions
  /\ LockProtects
  /\ SnapshotsLieBetween
  /\ UpgradersAreDone
  /\ UpgradedOnce
  /\ LosersCleanUp

------------------------------------------------------------------------------
\* At the start nobody has read, tried or saved anything.
LEMMA InitInv == Init => IInv
<1> SUFFICES ASSUME Init PROVE IInv  OBVIOUS
<1>1. TypeOK  BY DEF Init, TypeOK, Version, Latest, Attempts, NoBackup, NoFile, Ended
<1>2. ReadBehind /\ LostToVersions
  BY DEF Init, ReadBehind, LostToVersions, Active, Version, Latest
<1>3. LockProtects /\ SnapshotsLieBetween /\ UpgradersAreDone
  BY DEF Init, LockProtects, SnapshotsLieBetween, UpgradersAreDone, Active
<1>4. UpgradedOnce /\ LosersCleanUp  BY DEF Init, UpgradedOnce, LosersCleanUp
<1> QED  BY <1>1, <1>2, <1>3, <1>4 DEF IInv

\* Reading the version names the directory after it and finds it no older than the attempts lost.
LEMMA ReadVersionInv ==
  ASSUME IInv, NEW p \in Opener, ReadVersion(p)
  PROVE  IInv'
<1> USE DEF ReadVersion, Goto, IInv
<1>1. TypeOK'
  BY DEF TypeOK, Version, Latest, Attempts, NoBackup, NoFile, Ended
<1>2. ReadBehind'
  BY DEF TypeOK, ReadBehind, Active, Version, Latest
<1>3. LostToVersions'
  BY DEF TypeOK, ReadBehind, LostToVersions, Active, Version, Latest, Attempts
<1>4. LockProtects'
  BY DEF TypeOK, LockProtects
<1>5. SnapshotsLieBetween'
  BY DEF TypeOK, ReadBehind, SnapshotsLieBetween, Active, Version, Latest, NoBackup, NoFile
<1>6. UpgradersAreDone'
  BY Zenon DEF TypeOK, UpgradersAreDone
<1>7. UpgradedOnce'
  BY DEF UpgradedOnce
<1>8. LosersCleanUp'
  BY DEF LosersCleanUp, SnapshotsLieBetween, TypeOK, Version, Latest
<1> QED  BY <1>1, <1>2, <1>3, <1>4, <1>5, <1>6, <1>7, <1>8

\* The snapshot holds the present version, which is not before the one read.
LEMMA SnapshotInv ==
  ASSUME IInv, NEW p \in Opener, Snapshot(p)
  PROVE  IInv'
<1> USE DEF Snapshot, Goto, IInv
<1>1. TypeOK'
  BY DEF TypeOK, Version, Latest, Attempts, NoBackup, NoFile, Ended
<1>2. ReadBehind'
  BY DEF TypeOK, ReadBehind, Active, Version, Latest
<1>3. LostToVersions'
  BY DEF TypeOK, ReadBehind, LostToVersions, Active, Version, Latest, Attempts
<1>4. LockProtects'
  BY DEF TypeOK, LockProtects
<1>5. SnapshotsLieBetween'
  <2>1. /\ backup'[p] = [label |-> backup[p].label, content |-> version]
        /\ \A q \in Opener \ {p} : backup'[q] = backup[q] /\ pc'[q] = pc[q]
    BY DEF TypeOK
  <2>2. version >= initial[p] /\ version \in Int /\ initial[p] \in Int /\ initial[p] # 0
    BY DEF TypeOK, ReadBehind, Version, Latest
  <2> QED
    BY <2>1, <2>2 DEF TypeOK, SnapshotsLieBetween, Active
<1>6. UpgradersAreDone'
  BY Zenon DEF TypeOK, UpgradersAreDone
<1>7. UpgradedOnce'
  BY DEF UpgradedOnce
<1>8. LosersCleanUp'
  BY DEF LosersCleanUp, SnapshotsLieBetween, TypeOK
<1> QED  BY <1>1, <1>2, <1>3, <1>4, <1>5, <1>6, <1>7, <1>8

\* A failed snapshot leaves nothing.
LEMMA SnapshotFailsInv ==
  ASSUME IInv, NEW p \in Opener, SnapshotFails(p)
  PROVE  IInv'
<1> USE DEF SnapshotFails, Goto, RemoveBackup, IInv
<1>1. TypeOK'
  BY DEF TypeOK, Version, Latest, Attempts, NoBackup, NoFile, Ended
<1>2. ReadBehind'
  BY DEF TypeOK, ReadBehind, Active, Version, Latest
<1>3. LostToVersions'
  BY DEF TypeOK, ReadBehind, LostToVersions, Active, Version, Latest, Attempts
<1>4. LockProtects'
  BY DEF TypeOK, LockProtects
<1>5. SnapshotsLieBetween'
  BY DEF TypeOK, ReadBehind, SnapshotsLieBetween, Active, Version, Latest, NoBackup, NoFile
<1>6. UpgradersAreDone'
  BY Zenon DEF TypeOK, UpgradersAreDone
<1>7. UpgradedOnce'
  BY DEF UpgradedOnce
<1>8. LosersCleanUp'
  BY DEF LosersCleanUp, SnapshotsLieBetween, TypeOK
<1> QED  BY <1>1, <1>2, <1>3, <1>4, <1>5, <1>6, <1>7, <1>8

\* BEGIN EXCLUSIVE gives the lock to one process.
LEMMA BeginExclusiveInv ==
  ASSUME IInv, NEW p \in Opener, BeginExclusive(p)
  PROVE  IInv'
<1> USE DEF BeginExclusive, Goto, IInv
<1>1. TypeOK'
  BY DEF TypeOK, Version, Latest, Attempts, NoBackup, NoFile, Ended
<1>2. ReadBehind'
  BY DEF TypeOK, ReadBehind, Active, Version, Latest
<1>3. LostToVersions'
  BY DEF TypeOK, ReadBehind, LostToVersions, Active, Version, Latest, Attempts
<1>4. LockProtects'
  BY MigrationAssumption DEF TypeOK, LockProtects
<1>5. SnapshotsLieBetween'
  BY DEF TypeOK, ReadBehind, SnapshotsLieBetween, Active, Version, Latest, NoBackup, NoFile
<1>6. UpgradersAreDone'
  BY Zenon DEF TypeOK, UpgradersAreDone
<1>7. UpgradedOnce'
  BY DEF UpgradedOnce
<1>8. LosersCleanUp'
  BY DEF LosersCleanUp, SnapshotsLieBetween, TypeOK
<1> QED  BY <1>1, <1>2, <1>3, <1>4, <1>5, <1>6, <1>7, <1>8

\* Giving up on a busy database changes nothing but the process.
LEMMA BusyInv ==
  ASSUME IInv, NEW p \in Opener, Busy(p)
  PROVE  IInv'
<1> USE DEF Busy, Goto, IInv
<1>1. TypeOK'
  BY DEF TypeOK, Version, Latest, Attempts, NoBackup, NoFile, Ended
<1>2. ReadBehind'
  BY DEF TypeOK, ReadBehind, Active, Version, Latest
<1>3. LostToVersions'
  BY DEF TypeOK, ReadBehind, LostToVersions, Active, Version, Latest, Attempts
<1>4. LockProtects'
  BY DEF TypeOK, LockProtects
<1>5. SnapshotsLieBetween'
  BY DEF TypeOK, ReadBehind, SnapshotsLieBetween, Active, Version, Latest, NoBackup, NoFile
<1>6. UpgradersAreDone'
  BY Zenon DEF TypeOK, UpgradersAreDone
<1>7. UpgradedOnce'
  BY DEF UpgradedOnce
<1>8. LosersCleanUp'
  BY DEF LosersCleanUp, SnapshotsLieBetween, TypeOK
<1> QED  BY <1>1, <1>2, <1>3, <1>4, <1>5, <1>6, <1>7, <1>8

\* A lost race is paid for by a version passed by.
LEMMA LoseRaceInv ==
  ASSUME IInv, NEW p \in Opener, LoseRace(p)
  PROVE  IInv'
<1> USE DEF LoseRace, Goto, RemoveBackup, IInv
<1>1. TypeOK'
  <2>1. attempt[p] + 1 \in 0..5
    BY DEF TypeOK, ReadBehind, LostToVersions, Active, Version, Latest, Attempts
  <2> QED  BY <2>1 DEF TypeOK, Version, Latest, Attempts, NoBackup, NoFile, Ended
<1>2. ReadBehind'
  BY DEF TypeOK, ReadBehind, Active, Version, Latest
<1>3. LostToVersions'
  BY DEF TypeOK, ReadBehind, LostToVersions, Active, Version, Latest, Attempts
<1>4. LockProtects'
  BY DEF TypeOK, LockProtects
<1>5. SnapshotsLieBetween'
  BY DEF TypeOK, ReadBehind, SnapshotsLieBetween, Active, Version, Latest, NoBackup, NoFile
<1>6. UpgradersAreDone'
  BY Zenon DEF TypeOK, UpgradersAreDone
<1>7. UpgradedOnce'
  BY DEF UpgradedOnce
<1>8. LosersCleanUp'
  BY DEF LosersCleanUp, SnapshotsLieBetween, TypeOK
<1> QED  BY <1>1, <1>2, <1>3, <1>4, <1>5, <1>6, <1>7, <1>8

\* The recheck under the lock ties the version to the one read.
LEMMA RecheckInv ==
  ASSUME IInv, NEW p \in Opener, Recheck(p)
  PROVE  IInv'
<1> USE DEF Recheck, Goto, IInv
<1>1. TypeOK'
  BY DEF TypeOK, Version, Latest, Attempts, NoBackup, NoFile, Ended
<1>2. ReadBehind'
  BY DEF TypeOK, ReadBehind, Active, Version, Latest
<1>3. LostToVersions'
  BY DEF TypeOK, ReadBehind, LostToVersions, Active, Version, Latest, Attempts
<1>4. LockProtects'
  BY DEF TypeOK, LockProtects
<1>5. SnapshotsLieBetween'
  BY DEF TypeOK, ReadBehind, SnapshotsLieBetween, Active, Version, Latest, NoBackup, NoFile
<1>6. UpgradersAreDone'
  BY Zenon DEF TypeOK, UpgradersAreDone
<1>7. UpgradedOnce'
  BY DEF UpgradedOnce
<1>8. LosersCleanUp'
  BY DEF LosersCleanUp, SnapshotsLieBetween, TypeOK
<1> QED  BY <1>1, <1>2, <1>3, <1>4, <1>5, <1>6, <1>7, <1>8

\* While an upgrade is missing, nobody has upgraded.
LEMMA NobodyBefore ==
  ASSUME IInv, NEW u \in upgraded
  PROVE  version = Latest
BY Zenon DEF IInv, UpgradersAreDone

\* The upgrade starts from the version its snapshot holds, and is the only one.
LEMMA UpgradeInv ==
  ASSUME IInv, NEW p \in Opener, Upgrade(p)
  PROVE  IInv'
<1> USE DEF Upgrade, Goto, IInv
<1>0. /\ version = initial[p] /\ version < Latest /\ version \in Version
      /\ version > 0 => backup[p] = [label |-> version + 1, content |-> version]
  <2>1. version = initial[p] /\ version < Latest /\ version \in Version
    BY DEF LockProtects, ReadBehind, Active, TypeOK
  <2>2. ASSUME version > 0
        PROVE  backup[p] = [label |-> version + 1, content |-> version]
    <3>1. backup[p] \in [label : Version, content : {NoFile} \cup Version]  BY DEF TypeOK
    <3>2. backup[p].label = version + 1  BY <2>1, <2>2, <3>1 DEF SnapshotsLieBetween, Active, Version, Latest
    <3>3. backup[p].content = version
      BY <2>1, <2>2, <3>1 DEF SnapshotsLieBetween, Active, Version, Latest, NoFile
    <3> QED  BY <3>1, <3>2, <3>3
  <2> QED  BY <2>1, <2>2
<1>00. upgraded = {}
  <2>1. ASSUME NEW u \in upgraded PROVE FALSE
    <3>1. version = Latest  BY <2>1, NobodyBefore
    <3> QED  BY <3>1, <1>0 DEF Latest
  <2> QED  BY <2>1
<1>1. TypeOK'
  BY <1>0, <1>00 DEF TypeOK, Version, Latest, Attempts, NoBackup, NoFile, Ended
<1>2. ReadBehind'
  BY DEF TypeOK, ReadBehind, Active, Version, Latest
<1>3. LostToVersions'
  BY DEF TypeOK, ReadBehind, LostToVersions, Active, Version, Latest, Attempts
<1>4. LockProtects'
  BY DEF TypeOK, LockProtects
<1>5. SnapshotsLieBetween'
  BY DEF TypeOK, ReadBehind, SnapshotsLieBetween, Active, Version, Latest, NoBackup, NoFile
<1>6. upgraded' = {[by |-> p, from |-> version]}
  BY <1>00
<1>7. UpgradersAreDone'
  <2>1. version' = Latest /\ pc'[p] = "done" /\ backup' = backup  BY DEF TypeOK
  <2>2. ASSUME NEW u \in upgraded'
        PROVE  /\ pc'[u.by] = "done"
               /\ u.from > 0 => backup'[u.by] = [label |-> u.from + 1, content |-> u.from]
    <3>1. u.by = p /\ u.from = version  BY <2>2, <1>6
    <3> QED  BY <3>1, <2>1, <1>0
  <2> QED  BY <2>1, <2>2, Zenon DEF UpgradersAreDone
<1>8. UpgradedOnce'
  BY <1>6 DEF UpgradedOnce
<1>9. LosersCleanUp'
  <2>1. pc' = [pc EXCEPT ![p] = "done"] /\ backup' = backup  OBVIOUS
  <2>2. \A q \in Opener \ {p} : pc'[q] = pc[q]  BY <2>1 DEF TypeOK
  <2>3. \A q \in Opener \ {p} : pc[q] \in {"done", "exhausted"} => backup[q] = NoBackup
    BY <1>00 DEF LosersCleanUp
  <2>4. \E u \in upgraded' : u.by = p
    <3>1. [by |-> p, from |-> version] \in upgraded'  BY <1>6
    <3> QED  BY <3>1
  <2>5. ASSUME NEW q \in Opener \ {p}, pc'[q] \in {"done", "exhausted"}
        PROVE  backup'[q] = NoBackup
    BY <2>1, <2>2, <2>3, <2>5
  <2> HIDE DEF Upgrade, IInv, Goto
  <2> QED  BY <2>4, <2>5 DEF LosersCleanUp
<1> QED  BY <1>1, <1>2, <1>3, <1>4, <1>5, <1>7, <1>8, <1>9

\* A rolled back upgrade changes nothing but the process.
LEMMA UpgradeFailsInv ==
  ASSUME IInv, NEW p \in Opener, UpgradeFails(p)
  PROVE  IInv'
<1> USE DEF UpgradeFails, Goto, IInv
<1>1. TypeOK'
  BY DEF TypeOK, Version, Latest, Attempts, NoBackup, NoFile, Ended
<1>2. ReadBehind'
  BY DEF TypeOK, ReadBehind, Active, Version, Latest
<1>3. LostToVersions'
  BY DEF TypeOK, ReadBehind, LostToVersions, Active, Version, Latest, Attempts
<1>4. LockProtects'
  BY DEF TypeOK, LockProtects
<1>5. SnapshotsLieBetween'
  BY DEF TypeOK, ReadBehind, SnapshotsLieBetween, Active, Version, Latest, NoBackup, NoFile
<1>6. UpgradersAreDone'
  BY Zenon DEF TypeOK, UpgradersAreDone
<1>7. UpgradedOnce'
  BY DEF UpgradedOnce
<1>8. LosersCleanUp'
  BY DEF LosersCleanUp, SnapshotsLieBetween, TypeOK
<1> QED  BY <1>1, <1>2, <1>3, <1>4, <1>5, <1>6, <1>7, <1>8
\* A process that dies, holding the lock or not, leaves what it has saved.
LEMMA CrashInv ==
  ASSUME IInv, NEW p \in Opener, Crash(p)
  PROVE  IInv'
<1> USE DEF Crash, Goto, IInv
<1>1. TypeOK'
  BY DEF TypeOK, Ended
<1>2. ReadBehind' /\ LostToVersions'
  BY DEF TypeOK, ReadBehind, LostToVersions, Active
<1>3. LockProtects'
  BY DEF TypeOK, LockProtects
<1>4. SnapshotsLieBetween'
  BY DEF TypeOK, SnapshotsLieBetween, Active
<1>5. UpgradersAreDone'
  BY Zenon DEF TypeOK, UpgradersAreDone, Ended
<1>6. UpgradedOnce' /\ LosersCleanUp'
  BY DEF TypeOK, UpgradedOnce, LosersCleanUp
<1> QED  BY <1>1, <1>2, <1>3, <1>4, <1>5, <1>6

\* Other connections lock, and earlier packages upgrade, without touching
\* anybody's progress: with the lock free nobody relies on the version.
LEMMA OthersInv ==
  ASSUME IInv, WriterBegins \/ WriterEnds \/ \E v \in Version : EarlierPackage(v)
  PROVE  IInv'
<1>1. CASE WriterBegins
  BY <1>1, MigrationAssumption DEF WriterBegins, IInv, TypeOK, ReadBehind, LostToVersions,
     LockProtects, SnapshotsLieBetween, UpgradersAreDone, UpgradedOnce, LosersCleanUp
<1>2. CASE WriterEnds
  BY <1>2, MigrationAssumption DEF WriterEnds, IInv, TypeOK, ReadBehind, LostToVersions,
     LockProtects, SnapshotsLieBetween, UpgradersAreDone, UpgradedOnce, LosersCleanUp
<1>3. ASSUME NEW v \in Version, EarlierPackage(v) PROVE IInv'
  <2> USE <1>3 DEF EarlierPackage, IInv
  <2>1. TypeOK'  BY DEF TypeOK
  <2>2. ReadBehind' /\ LostToVersions'
    BY DEF TypeOK, ReadBehind, LostToVersions, Version, Latest, Attempts
  <2>3. LockProtects'
    BY MigrationAssumption DEF TypeOK, LockProtects
  <2>4. SnapshotsLieBetween'
    <3>1. ASSUME NEW q \in Opener
          PROVE  /\ backup[q].content \in Int
                 /\ backup[q].content <= version => backup[q].content <= v
      BY <3>1 DEF TypeOK, Version, NoFile, Latest
    <3> QED  BY <3>1 DEF SnapshotsLieBetween
  <2>5. upgraded = {}
    <3>1. ASSUME NEW u \in upgraded PROVE FALSE
      <4>1. version = Latest  BY <3>1, NobodyBefore
      <4> QED  BY <4>1 DEF Latest, Version, TypeOK
    <3> QED  BY <3>1
  <2>6. UpgradersAreDone' /\ UpgradedOnce' /\ LosersCleanUp'
    BY <2>5 DEF UpgradersAreDone, UpgradedOnce, LosersCleanUp
  <2> QED  BY <2>1, <2>2, <2>3, <2>4, <2>6
<1> QED  BY <1>1, <1>2, <1>3

\* Nothing happens.
LEMMA StutterInv == IInv /\ UNCHANGED vars => IInv'
BY DEF vars, IInv, TypeOK, ReadBehind, LostToVersions, LockProtects, SnapshotsLieBetween,
   UpgradersAreDone, UpgradedOnce, LosersCleanUp

\* Every reachable state satisfies the inductive invariant of the migration.
THEOREM InductiveInvariant == Spec => []IInv
<1>1. IInv /\ [Next]_vars => IInv'
  <2> SUFFICES ASSUME IInv, [Next]_vars PROVE IInv'  OBVIOUS
  <2>1. ASSUME NEW p \in Opener, Step(p) \/ Crash(p) PROVE IInv'
    BY <2>1, ReadVersionInv, SnapshotInv, SnapshotFailsInv, BeginExclusiveInv, BusyInv,
       LoseRaceInv, RecheckInv, UpgradeInv, UpgradeFailsInv, CrashInv DEF Step
  <2> QED  BY <2>1, OthersInv, StutterInv DEF Next
<1> QED  BY InitInv, <1>1, PTL DEF Spec

\* Whatever version with data in it has been upgraded, a complete snapshot of
\* it is retained under the right label, however many processes open the database.
THEOREM UpgradesBackedUp == Spec => []UpgradesAreBackedUp
<1>1. IInv => UpgradesAreBackedUp
  BY DEF IInv, TypeOK, UpgradersAreDone, UpgradesAreBackedUp
<1> QED  BY InductiveInvariant, <1>1, PTL

\* A database is upgraded by at most one process, from one version.
THEOREM OneUpgrade == Spec => []UpgradedOnce
<1>1. IInv => UpgradedOnce  BY DEF IInv
<1> QED  BY InductiveInvariant, <1>1, PTL

\* A process that runs out of its five attempts leaves a current schema.
THEOREM FiveAttemptsSuffice == Spec => []ExhaustedMeansCurrent
<1>1. IInv => ExhaustedMeansCurrent
  BY DEF IInv, TypeOK, LostToVersions, ExhaustedMeansCurrent, Version, Latest, Attempts
<1> QED  BY InductiveInvariant, <1>1, PTL

\* A process that ends regularly without having upgraded leaves no directory.
THEOREM LosersLeaveNothing == Spec => []LosersCleanUp
<1>1. IInv => LosersCleanUp  BY DEF IInv
<1> QED  BY InductiveInvariant, <1>1, PTL
==============================================================================
