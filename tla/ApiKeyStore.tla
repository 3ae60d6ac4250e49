----------------------------- MODULE ApiKeyStore -----------------------------
(***************************************************************************)
(* The encrypted key store of the desktop app (lib/apikey-store.ts): what  *)
(* is in the process's memory, what is in the file, and the calls of       *)
(* gui/ipc/apikeys.ts that move from one await to the next.  An import is  *)
(* a series of saves by one caller.                                        *)
(*                                                                         *)
(* A key is what PBKDF2 makes of a passphrase and a salt, an entry is a    *)
(* value under a key, and decrypting one with another key fails.  A file   *)
(* is replaced by rename (lib/atomic-json.ts), so a crash leaves the old   *)
(* or the new one; a rename that is refused may leave none.                *)
(*                                                                         *)
(* Nothing keeps the calls apart, and nothing keeps the store from being   *)
(* locked amid one.  The history says which calls overlapped, and whether  *)
(* something happened after which nothing can be promised.                 *)
(***************************************************************************)
EXTENDS Naturals, FiniteSets

CONSTANTS
  Provider, Value, Pass,
  Caller,       \* IPC calls that may be under way together
  Ops,          \* those of the operations that are called
  MaxSalts,     \* bound: stores created and passphrases changed
  None

VARIABLES
  file,    \* the persisted store, or None
  derived, \* derivedKey
  keys,    \* decryptedKeys and storeMetadata, None when locked
  salt,    \* persistedSalt
  salts,   \* salts drawn so far: the next one is fresh
  call,    \* what each caller is doing
  \* history
  right,   \* the passphrase chosen last, that of the file
  saved,   \* what the latest acknowledged call left each provider with
  doubt,   \* providers whose latest call failed, was cut off or met another
  mixed,   \* the calls under way that have met another one
  orderly  \* no call has met a creation or a change of passphrase, no wrong
           \* passphrase was tried that nothing tells, and the file was not lost

memory == <<derived, keys, salt>>
history == <<right, saved, doubt>>
vars == <<file, memory, salts, call, history, mixed, orderly>>

Salt == 1..MaxSalts
PassKey == [pass : Pass, salt : Salt]
Entry == [value : Value, key : PassKey]
Contents(S) == [Provider -> S \cup {None}]
NoContents == [p \in Provider |-> None]
Store == [salt : Salt, verify : PassKey \cup {None}, entries : Contents(Entry)]

\* A store as initApiKeyStore writes it: a verification token and no keys.
NewStore(k) == [salt |-> k.salt, verify |-> k, entries |-> NoContents]

\* pass is the passphrase typed, next the one to change to.
Idle == [op |-> "idle", at |-> "idle", provider |-> None, value |-> None,
         pass |-> None, next |-> None, key |-> None, copy |-> None]

\* The first launch, or one after a store was created.
Init ==
  /\ \/ file = None /\ right = None /\ salts = 0
     \/ \E pass \in Pass : /\ file = NewStore([pass |-> pass, salt |-> 1])
                          /\ right = pass /\ salts = 1
  /\ derived = None /\ keys = None /\ salt = None
  /\ call = [c \in Caller |-> Idle]
  /\ saved = NoContents /\ doubt = {} /\ mixed = {} /\ orderly = TRUE

Unlocked == derived # None /\ keys # None

At(c, op, at) == call[c].op \in op /\ call[c].at = at
Go(c, next) == call' = [call EXCEPT ![c] = next]
Call(c, op, at) == [Idle EXCEPT !.op = op, !.at = at]

\* A call that throws, or that has nothing to acknowledge.
Throw(c) ==
  /\ Go(c, Idle)
  /\ doubt' = doubt \cup ({call[c].provider} \ {None})
  /\ UNCHANGED <<memory, salts, right, saved>>
Fail(c) == Throw(c) /\ UNCHANGED file

\* What decrypts under the key k; entries that do not are skipped.
Decrypted(store, k) ==
  [p \in Provider |->
     IF store.entries[p] # None /\ store.entries[p].key = k
       THEN store.entries[p].value ELSE None]

\* The key of the first entry: the verification token, or without it the
\* entry that was written first, whichever that is.
FirstKeys(store) ==
  IF store.verify # None THEN {store.verify}
  ELSE {store.entries[p].key : p \in {q \in Provider : store.entries[q] # None}}

------------------------------------------------------------------------------
(* initApiKeyStore. *)

BeginInit(c, pass) ==
  /\ "init" \in Ops /\ call[c] = Idle
  /\ Go(c, [Call(c, "init", "check") EXCEPT !.pass = pass])
  /\ UNCHANGED <<file, memory, salts, history>>

\* The file is looked for, then a key is derived from a fresh salt.
CheckInit(c) ==
  /\ At(c, {"init"}, "check")
  /\ IF file # None THEN Fail(c)
     ELSE /\ salts < MaxSalts
          /\ salts' = salts + 1
          /\ LET k == [pass |-> call[c].pass, salt |-> salts + 1]
             IN Go(c, [call[c] EXCEPT !.at = "write", !.key = k, !.copy = NewStore(k)])
          /\ UNCHANGED <<file, memory, history>>

------------------------------------------------------------------------------
(* unlockApiKeyStore and lockApiKeyStore. *)

BeginUnlock(c, pass) ==
  /\ "unlock" \in Ops /\ call[c] = Idle
  /\ derived = None
  /\ Go(c, [Call(c, "unlock", "read") EXCEPT !.pass = pass])
  /\ UNCHANGED <<file, memory, salts, history>>

ReadToUnlock(c) ==
  /\ At(c, {"unlock", "change"}, "read")
  /\ IF file = None THEN Fail(c)
     ELSE /\ Go(c, [call[c] EXCEPT !.at = "derive", !.copy = file])
          /\ UNCHANGED <<file, memory, salts, history>>

\* The derived key must open the first entry; a change of passphrase that
\* found the store locked goes on from here.
DoUnlock(c) ==
  /\ At(c, {"unlock", "change"}, "derive")
  /\ LET copy == call[c].copy
         k == [pass |-> call[c].pass, salt |-> copy.salt]
     IN \/ FirstKeys(copy) \ {k} # {} /\ Fail(c)
        \/ /\ FirstKeys(copy) = {} \/ k \in FirstKeys(copy)
           /\ derived' = k /\ keys' = Decrypted(copy, k) /\ salt' = copy.salt
           /\ IF call[c].op = "unlock" THEN Go(c, Idle)
              ELSE Go(c, [call[c] EXCEPT !.at = "verify", !.copy = None, !.key = k])
           /\ UNCHANGED <<file, salts, history>>

\* At any time, whatever is under way.
Lock ==
  /\ derived' = None /\ keys' = None
  /\ UNCHANGED <<file, salt, salts, call, history>>

------------------------------------------------------------------------------
(* setApiKey and deleteApiKey: memory first, then the file. *)

BeginSave(c, p, v) ==
  /\ "save" \in Ops /\ call[c] = Idle
  /\ Unlocked
  /\ keys' = [keys EXCEPT ![p] = v]
  /\ Go(c, [Call(c, "save", "read") EXCEPT !.provider = p, !.value = v, !.key = derived])
  /\ UNCHANGED <<file, derived, salt, salts, history>>

\* Mutant: what was read is written back without the new entry.
ReadToSave_Unmerged(c) ==
  /\ At(c, {"save"}, "read")
  /\ IF file = None \/ keys = None THEN Fail(c)
     ELSE /\ Go(c, [call[c] EXCEPT !.at = "write", !.copy = file])
          /\ UNCHANGED <<file, memory, salts, history>>

\* The entry, encrypted when the call began, joins those of the file; the
\* metadata is read again and may have gone with a lock or a deletion.
ReadToSave(c) ==
  /\ At(c, {"save"}, "read")
  /\ LET p == call[c].provider
     IN IF file = None \/ keys = None \/ keys[p] = None THEN Fail(c)
        ELSE /\ Go(c, [call[c] EXCEPT !.at = "write",
                         !.copy = [file EXCEPT !.entries =
                           [@ EXCEPT ![p] = [value |-> call[c].value, key |-> call[c].key]]]])
             /\ UNCHANGED <<file, memory, salts, history>>

\* Mutant: the key stays in memory.
BeginDelete_FileOnly(c, p) ==
  /\ "delete" \in Ops /\ call[c] = Idle
  /\ Unlocked
  /\ keys[p] # None
  /\ Go(c, [Call(c, "delete", "read") EXCEPT !.provider = p])
  /\ UNCHANGED <<file, memory, salts, history>>

BeginDelete(c, p) ==
  /\ "delete" \in Ops /\ call[c] = Idle
  /\ Unlocked
  /\ keys[p] # None
  /\ keys' = [keys EXCEPT ![p] = None]
  /\ Go(c, [Call(c, "delete", "read") EXCEPT !.provider = p])
  /\ UNCHANGED <<file, derived, salt, salts, history>>

ReadToDelete(c) ==
  /\ At(c, {"delete"}, "read")
  /\ LET p == call[c].provider
     IN IF file # None /\ file.entries[p] # None
          THEN Go(c, [call[c] EXCEPT !.at = "write",
                        !.copy = [file EXCEPT !.entries = [@ EXCEPT ![p] = None]]])
          ELSE Go(c, [call[c] EXCEPT !.at = "renamed"])
  /\ UNCHANGED <<file, memory, salts, history>>

------------------------------------------------------------------------------
(* changeApiKeyStorePassphrase: everything in memory under a new key.  With a *)
(* key but no keys in memory, as a lock amid a change leaves it, it throws.   *)

BeginChange(c, old, new) ==
  /\ "change" \in Ops /\ call[c] = Idle
  /\ LET change(at) == [Call(c, "change", at) EXCEPT !.pass = old, !.next = new]
     IN \/ Unlocked /\ Go(c, [change("verify") EXCEPT !.key = [pass |-> old, salt |-> salt]])
        \/ derived = None /\ Go(c, change("read"))
  /\ UNCHANGED <<file, memory, salts, history>>

\* The old passphrase is derived and compared, the new one derived.
VerifyChange(c) ==
  /\ At(c, {"change"}, "verify")
  /\ IF derived # call[c].key THEN Fail(c)
     ELSE /\ Go(c, [call[c] EXCEPT !.at = "encrypt"])
          /\ UNCHANGED <<file, memory, salts, history>>

\* The new store is made of the keys in memory, without verification token.
EncryptChange(c) ==
  /\ At(c, {"change"}, "encrypt")
  /\ IF keys = None THEN Fail(c)
     ELSE /\ salts < MaxSalts
          /\ salts' = salts + 1
          /\ LET k == [pass |-> call[c].next, salt |-> salts + 1]
                 Under(v) == IF v = None THEN None ELSE [value |-> v, key |-> k]
             IN Go(c, [call[c] EXCEPT !.at = "write", !.key = k,
                         !.copy = [salt |-> k.salt, verify |-> None,
                                   entries |-> [p \in Provider |-> Under(keys[p])]]])
          /\ UNCHANGED <<file, memory, history>>

------------------------------------------------------------------------------
(* writeJsonAtomic, what follows it, and the end of the process. *)

Rename(c) ==
  /\ call[c].at = "write"
  /\ file' = call[c].copy
  /\ Go(c, [call[c] EXCEPT !.at = "renamed", !.copy = None])
  /\ right' = CASE call[c].op = "init" -> call[c].pass
              [] call[c].op = "change" -> call[c].next
              [] OTHER -> right
  /\ UNCHANGED <<memory, salts, saved, doubt>>

\* A write that fails may have removed the file that it could not replace.
WriteFails(c) == call[c].at = "write" /\ Throw(c) /\ file' \in {file, None}

\* A new store and a new passphrase are installed in memory once the file is
\* written; a save or a deletion is acknowledged.
Return(c) ==
  /\ call[c].at = "renamed"
  /\ Go(c, Idle)
  /\ CASE call[c].op = "init" ->
            derived' = call[c].key /\ keys' = NoContents /\ salt' = call[c].key.salt
       [] call[c].op = "change" ->
            derived' = call[c].key /\ salt' = call[c].key.salt /\ UNCHANGED keys
       [] OTHER -> UNCHANGED memory
  /\ IF call[c].op \in {"save", "delete"}
       THEN /\ saved' = [saved EXCEPT ![call[c].provider] = call[c].value]
            /\ doubt' = IF c \in mixed THEN doubt \cup {call[c].provider} ELSE doubt \ {call[c].provider}
       ELSE UNCHANGED <<saved, doubt>>
  /\ UNCHANGED <<file, salts, right>>

\* The app quits or crashes, and is launched again.
Relaunch ==
  /\ derived' = None /\ keys' = None /\ salt' = None
  /\ call' = [c \in Caller |-> Idle]
  /\ doubt' = doubt \cup ({call[c].provider : c \in Caller} \ {None})
  /\ UNCHANGED <<file, salts, right, saved>>

Step(c) ==
  \/ CheckInit(c) \/ ReadToUnlock(c) \/ DoUnlock(c) \/ ReadToSave(c) \/ ReadToDelete(c)
  \/ VerifyChange(c) \/ EncryptChange(c) \/ Rename(c) \/ WriteFails(c) \/ Return(c)

Begin(c) ==
  \/ \E pass \in Pass : BeginInit(c, pass) \/ BeginUnlock(c, pass)
  \/ \E p \in Provider, v \in Value : BeginSave(c, p, v)
  \/ \E p \in Provider : BeginDelete(c, p)
  \/ \E old, new \in Pass : BeginChange(c, old, new)

\* A creation or a change of passphrase that is not alone; a passphrase that is not
\* the right one, on its way to a file without token or entry.
Busy(c) == call[c] # Idle
Crossed == \E c, d \in Caller : c # d /\ call[c].op \in {"init", "change"} /\ Busy(d)
Untold == \E c \in Caller : call[c].at = "derive" /\ call[c].pass # right /\ FirstKeys(call[c].copy) = {}

\* History: what the promises of the store depend on.
Noted ==
  /\ mixed' = {c \in Caller : Busy(c)' /\ (c \in mixed \/ \E d \in Caller \ {c} : Busy(d)')}
  /\ orderly' = (orderly /\ ~Crossed' /\ ~Untold' /\ (file # None => file' # None))

Advance == (\E c \in Caller : Begin(c) \/ Step(c)) \/ Lock \/ Relaunch
Next == Advance /\ Noted

Spec == Init /\ [][Next]_vars

------------------------------------------------------------------------------
(* Properties. *)

Stage == {"idle", "check", "read", "derive", "verify", "encrypt", "write", "renamed"}

\* Type correctness.
TypeOK ==
  /\ file \in Store \cup {None}
  /\ derived \in PassKey \cup {None} /\ salt \in Salt \cup {None}
  /\ keys \in Contents(Value) \cup {None}
  /\ salts \in 0..MaxSalts
  /\ call \in [Caller -> [op : Ops \cup {"idle"}, at : Stage, provider : Provider \cup {None},
                         value : Value \cup {None}, pass : Pass \cup {None}, next : Pass \cup {None},
                         key : PassKey \cup {None}, copy : Store \cup {None}]]
  /\ right \in Pass \cup {None} /\ saved \in Contents(Value) /\ doubt \subseteq Provider
  /\ mixed \subseteq Caller /\ orderly \in BOOLEAN

InFlight == {call[c].provider : c \in Caller} \ {None}

\* What was saved or deleted, and acknowledged, is what the file holds under
\* the passphrase chosen last: across locks, changes of the passphrase and
\* relaunches, and whatever other calls overlap (setApiKey, deleteApiKey,
\* changeApiKeyStorePassphrase).
Acknowledged ==
  file # None =>
    \A p \in Provider \ (doubt \cup InFlight) :
      Decrypted(file, [pass |-> right, salt |-> file.salt])[p] = saved[p]

\* What the unlocked store shows in memory, it has in its file, so that the
\* next launch shows the same: the two are updated an await apart.
MemoryIsFile ==
  Unlocked /\ file # None /\ (\A c \in Caller : call[c].op # "change") =>
    \A p \in Provider \ (doubt \cup InFlight) : Decrypted(file, derived)[p] = keys[p]
==============================================================================
