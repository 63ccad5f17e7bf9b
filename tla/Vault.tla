------------------------------- MODULE Vault -------------------------------
(***************************************************************************)
(* Vault objects (src/src/vault.cpp) sharing one vault file.               *)
(*                                                                         *)
(* Every process that opens the vault owns one object of class Vault; the  *)
(* file carries no lock, so the objects of several processes interleave.   *)
(* A vault file is a header in clear (salt, data key wrapped by the master *)
(* key) and the entries sealed by the data key.  Encryption is symbolic: a *)
(* box opens with the key that closed it and with no other.                *)
(*                                                                         *)
(* A save is two steps, as in the code: std::ofstream truncates the file   *)
(* when it opens it (vault.cpp:279) and the image reaches the disk later   *)
(* (284, and the flush of the destructor).  Between the two the file is    *)
(* Torn: it does not parse.  Everything else a call does is one step.      *)
(***************************************************************************)
EXTENDS Naturals, FiniteSets

CONSTANTS
  Vaults,       \* the objects of the processes that use the file
  Passphrases,
  Salts,
  DataKeys,
  Ids,          \* entry identifiers
  Secrets,      \* what an entry holds
  None,         \* no key, no header, no entry
  Absent,       \* the file does not exist
  Torn,         \* the file exists and does not parse
  Rekeying,     \* the objects whose process runs a key-rotation plugin
  InitOver,     \* may "init" run over a vault that exists or is in use?
  OpenFails,    \* may the file fail to open for writing?
  DeviceFails   \* may the write itself fail, at once or in the final flush?

VARIABLES
  file,         \* the contents of the vault file, Absent or Torn
  state,        \* state_ of each object
  header,       \* header_ of each object, None before create or open
  masterKey,    \* master_key_
  dataKey,      \* data_key_
  entries,      \* entries_, a total function with None for "no such entry"
  saving,       \* the objects inside save(), past the truncation
  told          \* the call that returned last, and what it told its caller

vars == <<file, state, header, masterKey, dataKey, entries, saving, told>>

-----------------------------------------------------------------------------
States == {"UNINITIALIZED", "LOCKED", "UNLOCKED"}

MasterKeys == [pass : Passphrases, salt : Salts]

\* by is the master key that wraps the data key `key`.
Headers == [salt : Salts, by : MasterKeys, key : DataKeys]

ASSUME NoneAssumption ==
  /\ None \notin DataKeys \cup MasterKeys \cup Headers
  /\ Absent # Torn
  /\ Rekeying \subseteq Vaults
  /\ {InitOver, OpenFails, DeviceFails} \subseteq BOOLEAN

Entries == [Ids -> Secrets \cup {None}]
NoEntries == [i \in Ids |-> None]

Contents == [header : Headers, sealedBy : DataKeys, entries : Entries]

ASSUME ContentsAssumption == Absent \notin Contents /\ Torn \notin Contents

Whole == file \notin {Absent, Torn}

\* What save() packs for object v.
Image(v) == [header |-> header[v], sealedBy |-> dataKey[v],
             entries |-> entries[v]]

DeriveMasterKey(p, s) == [pass |-> p, salt |-> s]

HeadersInUse == {header[v] : v \in {w \in Vaults : header[w] # None}}
                  \cup (IF Whole THEN {file.header} ELSE {})
FreshSalts == Salts \ {h.salt : h \in HeadersInUse}
FreshKeys ==
  DataKeys \ ({h.key : h \in HeadersInUse} \cup {dataKey[v] : v \in Vaults}
                \cup (IF Whole THEN {file.sealedBy} ELSE {}))
FreshIds ==
  {i \in Ids : /\ \A v \in Vaults : entries[v][i] = None
               /\ Whole => file.entries[i] = None}

-----------------------------------------------------------------------------
TypeOK ==
  /\ file \in Contents \cup {Absent, Torn}
  /\ state \in [Vaults -> States]
  /\ header \in [Vaults -> Headers \cup {None}]
  /\ masterKey \in [Vaults -> MasterKeys \cup {None}]
  /\ dataKey \in [Vaults -> DataKeys \cup {None}]
  /\ entries \in [Vaults -> Entries]
  /\ saving \subseteq Vaults

Init ==
  /\ file = Absent
  /\ state = [v \in Vaults |-> "UNINITIALIZED"]
  /\ header = [v \in Vaults |-> None]
  /\ masterKey = [v \in Vaults |-> None]
  /\ dataKey = [v \in Vaults |-> None]
  /\ entries = [v \in Vaults |-> NoEntries]
  /\ saving = {}
  /\ told = [who |-> None, op |-> "none", result |-> "none"]

Tell(v, op, result) == told' = [who |-> v, op |-> op, result |-> result]

\* A call that changes nothing but what its caller knows.
Returns(v, op, result) ==
  /\ Tell(v, op, result)
  /\ UNCHANGED <<file, state, header, masterKey, dataKey, entries, saving>>

\* A call of an operation that starts with ensure_unlocked().
Throws(v, op) == state[v] # "UNLOCKED" /\ Returns(v, op, "throws")

\* save() up to the truncation.  The image is fixed here: v makes no other
\* call before FinishSave(v).
StartSave(v) ==
  \/ /\ file' = Torn
     /\ saving' = saving \cup {v}
     /\ Tell(v, "save", "pending")
  \/ /\ OpenFails
     /\ UNCHANGED <<file, saving>>
     /\ Tell(v, "save", "false")

\* Mutant: the header is assigned before the file is known to parse.
LoadFile_Unchecked(v, key) ==
  /\ header' = [header EXCEPT ![v] = IF Whole THEN file.header ELSE file]
  /\ entries' = IF Whole /\ key # None /\ key = file.sealedBy
                  THEN [entries EXCEPT ![v] = file.entries] ELSE entries

\* load() on behalf of v, whose data_key_ is `key` (None when it is locked):
\* the header is replaced before the entries are tried with the key.
LoadFile(v, key) ==
  /\ header' = IF Whole THEN [header EXCEPT ![v] = file.header] ELSE header
  /\ entries' = IF Whole /\ key # None /\ key = file.sealedBy
                  THEN [entries EXCEPT ![v] = file.entries] ELSE entries
LoadResult(key) ==
  IF Whole /\ (key # None => key = file.sealedBy) THEN "true" ELSE "false"

-----------------------------------------------------------------------------
Create(v, p) ==
  \/ state[v] # "UNINITIALIZED" /\ Returns(v, "create", "false")
  \/ /\ state[v] = "UNINITIALIZED"
     /\ InitOver \/ (file = Absent /\ \A w \in Vaults : state[w] = "UNINITIALIZED")
     /\ \E s \in FreshSalts, k \in FreshKeys :
          LET mk == DeriveMasterKey(p, s) IN
            /\ masterKey' = [masterKey EXCEPT ![v] = mk]
            /\ dataKey' = [dataKey EXCEPT ![v] = k]
            /\ header' = [header EXCEPT ![v] = [salt |-> s, by |-> mk, key |-> k]]
     /\ state' = [state EXCEPT ![v] = "UNLOCKED"]
     /\ StartSave(v)
     /\ UNCHANGED entries

Open(v) ==
  \/ state[v] # "UNINITIALIZED" /\ Returns(v, "open", "false")
  \/ state[v] = "UNINITIALIZED" /\ ~Whole /\ Returns(v, "open", "false")
  \/ /\ state[v] = "UNINITIALIZED"
     /\ Whole
     /\ LoadFile(v, None)
     /\ state' = [state EXCEPT ![v] = "LOCKED"]
     /\ Tell(v, "open", "true")
     /\ UNCHANGED <<file, masterKey, dataKey, saving>>

\* Mutant: the data key is unwrapped without checking the passphrase.
Unlock_AnyPassphrase(v, p) ==
  /\ state[v] = "LOCKED"
  /\ masterKey' = [masterKey EXCEPT ![v] = DeriveMasterKey(p, header[v].salt)]
  /\ dataKey' = [dataKey EXCEPT ![v] = header[v].key]
  /\ state' = [state EXCEPT ![v] = "UNLOCKED"]
  /\ LoadFile(v, header[v].key)
  /\ Tell(v, "unlock", LoadResult(header[v].key))
  /\ UNCHANGED <<file, saving>>

\* Mutant: unlock() leaves the entries to a later load().
Unlock_WithoutLoad(v, p) ==
  /\ state[v] = "LOCKED"
  /\ DeriveMasterKey(p, header[v].salt) = header[v].by
  /\ masterKey' = [masterKey EXCEPT ![v] = DeriveMasterKey(p, header[v].salt)]
  /\ dataKey' = [dataKey EXCEPT ![v] = header[v].key]
  /\ state' = [state EXCEPT ![v] = "UNLOCKED"]
  /\ Tell(v, "unlock", "true")
  /\ UNCHANGED <<file, header, entries, saving>>

\* The object counts as unlocked before load() has read the entries, and
\* stays so when load() fails.
Unlock(v, p) ==
  \/ state[v] # "LOCKED" /\ Returns(v, "unlock", "false")
  \/ /\ state[v] = "LOCKED"
     /\ DeriveMasterKey(p, header[v].salt) # header[v].by
     /\ Returns(v, "unlock", "false")
  \/ /\ state[v] = "LOCKED"
     /\ DeriveMasterKey(p, header[v].salt) = header[v].by
     /\ masterKey' = [masterKey EXCEPT ![v] = DeriveMasterKey(p, header[v].salt)]
     /\ dataKey' = [dataKey EXCEPT ![v] = header[v].key]
     /\ state' = [state EXCEPT ![v] = "UNLOCKED"]
     /\ LoadFile(v, header[v].key)
     /\ Tell(v, "unlock", LoadResult(header[v].key))
     /\ UNCHANGED <<file, saving>>

\* load() is public.  On an UNINITIALIZED object it may read the header of the
\* path a failed open() left behind, but create and open overwrite it before
\* anything reads it.
Load(v) ==
  \/ /\ state[v] = "UNINITIALIZED"
     /\ \E result \in {"false", LoadResult(None)} : Returns(v, "load", result)
  \/ /\ state[v] # "UNINITIALIZED"
     /\ LoadFile(v, dataKey[v])
     /\ Tell(v, "load", LoadResult(dataKey[v]))
     /\ UNCHANGED <<file, state, masterKey, dataKey, saving>>

\* Mutant: lock() forgets the data key.
Lock_KeepsDataKey(v) ==
  /\ state[v] = "UNLOCKED"
  /\ state' = [state EXCEPT ![v] = "LOCKED"]
  /\ masterKey' = [masterKey EXCEPT ![v] = None]
  /\ entries' = [entries EXCEPT ![v] = NoEntries]
  /\ Tell(v, "lock", "true")
  /\ UNCHANGED <<file, header, dataKey, saving>>

Lock(v) ==
  \/ state[v] # "UNLOCKED" /\ Returns(v, "lock", "true")
  \/ /\ state[v] = "UNLOCKED"
     /\ state' = [state EXCEPT ![v] = "LOCKED"]
     /\ masterKey' = [masterKey EXCEPT ![v] = None]
     /\ dataKey' = [dataKey EXCEPT ![v] = None]
     /\ entries' = [entries EXCEPT ![v] = NoEntries]
     /\ Tell(v, "lock", "true")
     /\ UNCHANGED <<file, header, saving>>

Edit(v, i, x, op) ==
  /\ entries' = [entries EXCEPT ![v][i] = x]
  /\ Tell(v, op, "true")
  /\ UNCHANGED <<file, state, header, masterKey, dataKey, saving>>

AddEntry(v, x) ==
  \/ Throws(v, "add")
  \/ state[v] = "UNLOCKED" /\ \E i \in FreshIds : Edit(v, i, x, "add")

UpdateEntry(v, i, x) ==
  \/ Throws(v, "update")
  \/ state[v] = "UNLOCKED" /\ entries[v][i] = None /\ Returns(v, "update", "false")
  \/ state[v] = "UNLOCKED" /\ entries[v][i] # None /\ Edit(v, i, x, "update")

DeleteEntry(v, i) ==
  \/ Throws(v, "delete")
  \/ state[v] = "UNLOCKED" /\ entries[v][i] = None /\ Returns(v, "delete", "false")
  \/ state[v] = "UNLOCKED" /\ entries[v][i] # None /\ Edit(v, i, None, "delete")

GetEntry(v, i) ==
  \/ Throws(v, "get")
  \/ /\ state[v] = "UNLOCKED"
     /\ Returns(v, "get", IF entries[v][i] = None THEN "throws" ELSE "true")

\* Mutant: the new key seals the entries, the header still wraps the old one.
Rekey_KeepsHeader(v) ==
  /\ state[v] = "UNLOCKED"
  /\ \E k \in FreshKeys : dataKey' = [dataKey EXCEPT ![v] = k]
  /\ StartSave(v)
  /\ UNCHANGED <<state, header, masterKey, entries>>

\* The plugin's new key replaces data_key_ and the wrapped key in header_,
\* and only then the vault is saved.
Rekey(v) ==
  \/ Throws(v, "rekey")
  \/ state[v] = "UNLOCKED" /\ Returns(v, "rekey", "false")   \* wrong key size
  \/ /\ state[v] = "UNLOCKED"
     /\ \E k \in FreshKeys :
          /\ dataKey' = [dataKey EXCEPT ![v] = k]
          /\ header' = [header EXCEPT ![v].by = masterKey[v], ![v].key = k]
     /\ StartSave(v)
     /\ UNCHANGED <<state, masterKey, entries>>

\* Mutant: save() draws a new salt.
Save_NewSalt(v) ==
  /\ state[v] = "UNLOCKED"
  /\ \E s \in FreshSalts : header' = [header EXCEPT ![v].salt = s]
  /\ StartSave(v)
  /\ UNCHANGED <<state, masterKey, dataKey, entries>>

Save(v) ==
  \/ state[v] # "UNLOCKED" /\ Returns(v, "save", "false")
  \/ /\ state[v] = "UNLOCKED"
     /\ StartSave(v)
     /\ UNCHANGED <<state, header, masterKey, dataKey, entries>>

\* The image reaches the disk, or part of it, or nothing.  save() returns
\* file.good() before the stream is flushed: it may be true either way.
FinishSave(v) ==
  /\ v \in saving
  /\ saving' = saving \ {v}
  /\ \/ file' = Image(v) /\ Tell(v, "save", "true")
     \/ /\ DeviceFails
        /\ file' \in {Torn, file}
        /\ \E result \in {"true", "false"} : Tell(v, "save", result)
  /\ UNCHANGED <<state, header, masterKey, dataKey, entries>>

\* The process exits or is killed, perhaps inside save(); its successor starts
\* with a new object.
ProcessEnds(v) ==
  /\ state[v] # "UNINITIALIZED"
  /\ state' = [state EXCEPT ![v] = "UNINITIALIZED"]
  /\ header' = [header EXCEPT ![v] = None]
  /\ masterKey' = [masterKey EXCEPT ![v] = None]
  /\ dataKey' = [dataKey EXCEPT ![v] = None]
  /\ entries' = [entries EXCEPT ![v] = NoEntries]
  /\ file' \in IF v \in saving THEN {Torn, file} ELSE {file}
  /\ saving' = saving \ {v}
  /\ Tell(v, "end", "none")

Call(v) ==
  \/ Open(v) \/ Load(v) \/ Lock(v) \/ Save(v)
  \/ \E p \in Passphrases : Create(v, p) \/ Unlock(v, p)
  \/ \E x \in Secrets : AddEntry(v, x)
  \/ \E i \in Ids : DeleteEntry(v, i) \/ GetEntry(v, i)
  \/ \E i \in Ids, x \in Secrets : UpdateEntry(v, i, x)
  \/ v \in Rekeying /\ Rekey(v)

Next == \E v \in Vaults :
  \/ v \notin saving /\ Call(v)
  \/ FinishSave(v)
  \/ ProcessEnds(v)

Spec == Init /\ [][Next]_vars

-----------------------------------------------------------------------------
\* Vault::lock, a failed call or the end of a process leaves no key and no
\* secret behind (vault.cpp:116-133), and an UNLOCKED object always has the two
\* keys that rekey and save dereference (vault.cpp:226-230, 249).
KeysIffUnlocked ==
  \A v \in Vaults :
    IF state[v] = "UNLOCKED"
      THEN masterKey[v] # None /\ dataKey[v] # None
      ELSE masterKey[v] = None /\ dataKey[v] = None /\ entries[v] = NoEntries

\* Whatever the order of creates, saves, rotations and crashes, a file that
\* parses can be read back: some passphrase unwraps its data key with its salt,
\* and that key opens its entries (Vault::save, rekey and load keep the two
\* halves of the file in step).
FileReadable ==
  Whole =>
    /\ file.sealedBy = file.header.key
    /\ \E p \in Passphrases :
         DeriveMasterKey(p, file.header.salt) = file.header.by

\* Every object that opened the vault agrees with the file on its header, so
\* that unlock() derives the right key and save() writes a header its entries
\* fit (header_ is read by open and unlock and written back by save).
HeadersAgree ==
  \A v \in Vaults : state[v] # "UNINITIALIZED" /\ Whole => header[v] = file.header

\* tests/test_vault.cpp:63-64: unlock returned false and the state is LOCKED;
\* in general, an unlock that fails leaves the state as it was.
FailedUnlockChangesNoState ==
  [][told'.op = "unlock" /\ told'.result = "false" => state' = state]_vars

=============================================================================
