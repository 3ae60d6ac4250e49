------------------------------- MODULE IdentityKey -------------------------------
(***************************************************************************)
(* The secret under which accounts are told apart: every process that      *)
(* needs it finds the one that is published in a file, or publishes one of *)
(* its own, of which the first wins (createOrReadIdentityKey).  Cached     *)
(* answers and recorded history are filed under digests made with it, so   *)
(* two processes must never use different ones.                            *)
(*                                                                         *)
(* Processes end and start again at any step, and leave their temporary    *)
(* file behind; something else may open up the permissions of the file or  *)
(* of its directory, or damage the file, but not remove it.                *)
(***************************************************************************)
EXTENDS Integers, FiniteSets

CONSTANTS
  Process,
  Key,           \* the keys that randomBytes may return
  Absent, Damaged,
  None,          \* null: no key could be had
  MaxReads,      \* WINNER_READ_ATTEMPTS
  MaxFaults

ASSUME ReadsAssumption == MaxReads \in Nat \ {0}
ASSUME KeyAssumption == Absent \notin Key /\ Damaged \notin Key /\ None \notin Key /\ Absent # Damaged

VARIABLES
  file,          \* Absent, Damaged, or the key in it
  protected,     \* whether the file and the directory are closed to others
  pc,            \* of each process
  generated,     \* the key it would publish
  temporary,     \* what its temporary file holds
  reads,         \* attempts to read the winner that are left
  memo,          \* identityKeyPromise, once it is settled
  faults,
  published      \* the first key that was linked

identityVars == <<file, protected, pc, generated, temporary, reads, memo, faults, published>>

PCs == {"idle", "reading", "writing", "checking", "linking", "confirming", "waiting", "removing"}

IdentityTypeOK ==
  /\ file \in Key \cup {Absent, Damaged}
  /\ protected \in BOOLEAN
  /\ pc \in [Process -> PCs]
  /\ generated \in [Process -> Key \cup {None}]
  /\ temporary \in [Process -> Key \cup {Absent, Damaged}]
  /\ reads \in [Process -> 0..MaxReads]
  /\ memo \in [Process -> Key \cup {None}]
  /\ faults \in Nat
  /\ published \in Key \cup {None}

IdentityInit ==
  /\ file = Absent /\ protected \in BOOLEAN
  /\ pc = [p \in Process |-> "idle"]
  /\ generated = [p \in Process |-> None]
  /\ temporary = [p \in Process |-> Absent]
  /\ reads = [p \in Process |-> MaxReads]
  /\ memo = [p \in Process |-> None]
  /\ faults = 0 /\ published = None

\* readProtectedIdentityKey and decodeIdentityKey: null for what is not a whole key
\* in a file of one's own.
KeyIn(f) == IF f \in Key THEN f ELSE None

------------------------------------------------------------------------------
Goes(p, to) == pc' = [pc EXCEPT ![p] = to]

\* getIdentityKey: a call that finds a promise joins it; one that has no key tries.
Need(p) ==
  /\ pc[p] = "idle" /\ memo[p] = None
  /\ Goes(p, "reading")
  /\ UNCHANGED <<file, protected, generated, temporary, reads, memo, faults, published>>

\* The promise settles: null is forgotten, so that a later call tries again.
Settle(p, key) ==
  /\ memo' = [memo EXCEPT ![p] = key]
  /\ Goes(p, IF temporary[p] = Absent THEN "idle" ELSE "removing")

\* The directory and the file are closed before the file is read.
ReadExisting(p) ==
  /\ pc[p] = "reading"
  /\ protected' = TRUE
  /\ IF KeyIn(file) # None
     THEN Settle(p, KeyIn(file)) /\ UNCHANGED generated
     ELSE /\ \E key \in Key : generated' = [generated EXCEPT ![p] = key]
          /\ Goes(p, "writing") /\ UNCHANGED memo
  /\ UNCHANGED <<file, temporary, reads, faults, published>>

\* writeTemporaryIdentityKey, whole or in part
WriteTemporary(p) ==
  /\ pc[p] = "writing"
  /\ temporary' = [temporary EXCEPT ![p] = generated[p]]
  /\ Goes(p, "checking")
  /\ UNCHANGED <<file, protected, generated, reads, memo, faults, published>>

\* The write, or what it wrote, fails: nothing is published.
WriteFails(p) ==
  /\ pc[p] = "writing" /\ faults < MaxFaults /\ faults' = faults + 1
  /\ temporary' = [temporary EXCEPT ![p] = Damaged]
  /\ Goes(p, "checking")
  /\ UNCHANGED <<file, protected, generated, reads, memo, published>>

\* What cannot be protected, read or linked, for its owner or its mode or else: a read
\* returns null, and at any other step the creation does.
Refused(p) ==
  /\ faults < MaxFaults /\ faults' = faults + 1
  /\ \/ /\ pc[p] = "reading" /\ Goes(p, "writing") /\ UNCHANGED <<memo, reads>>
        /\ \E key \in Key : generated' = [generated EXCEPT ![p] = key]
     \/ /\ pc[p] \in {"reading", "checking", "linking", "confirming"} /\ Settle(p, None)
        /\ UNCHANGED <<generated, reads>>
     \/ /\ pc[p] = "waiting" /\ reads' = [reads EXCEPT ![p] = @ - 1] /\ UNCHANGED generated
        /\ IF reads[p] > 1 THEN UNCHANGED <<pc, memo>> ELSE Settle(p, None)
  /\ UNCHANGED <<file, protected, temporary, published>>

CheckTemporary(p) ==
  /\ pc[p] = "checking"
  /\ IF KeyIn(temporary[p]) # None THEN Goes(p, "linking") /\ UNCHANGED memo ELSE Settle(p, None)
  /\ UNCHANGED <<file, protected, generated, temporary, reads, faults, published>>

\* Mutant: the temporary file is renamed to the path, whatever is there.
Link_Renamed(p) ==
  /\ pc[p] = "linking"
  /\ file' = temporary[p] /\ published' = IF published = None THEN temporary[p] ELSE published
  /\ Goes(p, "confirming") /\ UNCHANGED reads
  /\ UNCHANGED <<protected, generated, temporary, memo, faults>>

\* Mutant: where the path exists, it links again.
Link_Again(p) ==
  /\ pc[p] = "linking"
  /\ IF file = Absent
     THEN file' = temporary[p] /\ published' = temporary[p] /\ Goes(p, "confirming")
     ELSE UNCHANGED <<file, published, pc>>
  /\ UNCHANGED <<protected, generated, temporary, reads, memo, faults>>

\* link: atomic, and fails where the path exists.
Link(p) ==
  /\ pc[p] = "linking"
  /\ IF file = Absent
     THEN /\ file' = temporary[p] /\ published' = temporary[p]
          /\ Goes(p, "confirming") /\ UNCHANGED reads
     ELSE /\ Goes(p, "waiting") /\ reads' = [reads EXCEPT ![p] = MaxReads]
          /\ UNCHANGED <<file, published>>
  /\ UNCHANGED <<protected, generated, temporary, memo, faults>>

\* The key is read back from where it was published.
Confirm(p) ==
  /\ pc[p] = "confirming"
  /\ protected' = TRUE
  /\ Settle(p, KeyIn(file))
  /\ UNCHANGED <<file, generated, temporary, reads, faults, published>>

\* readPublishedIdentityKey
ReadWinner(p) ==
  /\ pc[p] = "waiting"
  /\ protected' = TRUE
  /\ reads' = [reads EXCEPT ![p] = @ - 1]
  /\ IF KeyIn(file) = None /\ reads[p] > 1
     THEN UNCHANGED <<pc, memo>>
     ELSE Settle(p, KeyIn(file))
  /\ UNCHANGED <<file, generated, temporary, faults, published>>

RemoveTemporary(p) ==
  /\ pc[p] = "removing"
  /\ temporary' = [temporary EXCEPT ![p] = Absent]
  /\ Goes(p, "idle")
  /\ UNCHANGED <<file, protected, generated, reads, memo, faults, published>>

\* A process ends; the one that takes its place has another name for its file.
Restart(p) ==
  /\ faults < MaxFaults /\ faults' = faults + 1
  /\ pc' = [pc EXCEPT ![p] = "idle"]
  /\ memo' = [memo EXCEPT ![p] = None]
  /\ generated' = [generated EXCEPT ![p] = None]
  /\ temporary' = [temporary EXCEPT ![p] = Absent]
  /\ reads' = [reads EXCEPT ![p] = MaxReads]
  /\ UNCHANGED <<file, protected, published>>

Disturb ==
  /\ faults < MaxFaults /\ faults' = faults + 1
  /\ \/ protected' = FALSE /\ UNCHANGED file
     \/ file \in Key /\ file' = Damaged /\ UNCHANGED protected
  /\ UNCHANGED <<pc, generated, temporary, reads, memo, published>>

Step(p) ==
  \/ Need(p) \/ ReadExisting(p) \/ WriteTemporary(p) \/ CheckTemporary(p) \/ Link(p)
  \/ Confirm(p) \/ ReadWinner(p) \/ RemoveTemporary(p)

IdentityNext == Disturb \/ \E p \in Process : Step(p) \/ WriteFails(p) \/ Refused(p) \/ Restart(p)

IdentitySpec == IdentityInit /\ [][IdentityNext]_identityVars
IdentityFair == IdentitySpec /\ \A p \in Process : WF_identityVars(Step(p))

------------------------------------------------------------------------------
(* Properties.                                                              *)

\* All processes that have a key have the same one, the first that was ever
\* published, whatever the order of their steps, and after any restart or damage.
OneKey == \A p \in Process : memo[p] # None => memo[p] = published

\* A key is never replaced or half there: a file, once whole, holds the published
\* key until something else damages it.
PublishedWhole == file \in {Absent, Damaged, published} /\ (file = Absent => published = None)

\* Whoever needs a key gets an answer, whatever fails or is damaged; and the answer is
\* a key unless something did.
NeedIsMet == \A p \in Process : pc[p] = "reading" ~> pc[p] = "idle" /\ (memo[p] # None \/ faults > 0)

==============================================================================
