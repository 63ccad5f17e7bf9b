---------------------------- MODULE VaultProofs ----------------------------
(***************************************************************************)
(* Theorems about Vault for any number of objects, passphrases, keys and   *)
(* entries.  TypeOK and KeysIffUnlocked hold wherever the objects run;     *)
(* FileReadable and HeadersAgree need one of the two environments of Calm. *)
(* Then, for one process, that its vault implements SecretStore.           *)
(***************************************************************************)
EXTENDS VaultSession, TLAPS

\* An object that was created or opened has a header.
HeaderIfOpened ==
  \A v \in Vaults : state[v] # "UNINITIALIZED" => header[v] # None

\* Only an UNLOCKED object is inside save().
SavingUnlocked == \A v \in saving : state[v] = "UNLOCKED"

Safe == TypeOK /\ KeysIffUnlocked /\ HeaderIfOpened /\ SavingUnlocked

\* Either nobody rotates keys or runs "init" a second time, or one process at a
\* time uses the file and can always open it for writing.
Calm ==
  \/ Rekeying = {} /\ ~InitOver
  \/ ~OpenFails /\ \A v, w \in Vaults : v = w

WellFormed(h) == h.by.salt = h.salt

\* The parts of the invariant that keep the file readable.
FileInStep ==
  Whole => file.sealedBy = file.header.key /\ WellFormed(file.header)
OpenedWellFormed ==
  \A v \in Vaults : state[v] # "UNINITIALIZED" => WellFormed(header[v])
OpenedAgree ==
  \A v, w \in Vaults :
    state[v] # "UNINITIALIZED" /\ state[w] # "UNINITIALIZED" => header[v] = header[w]
KeysFit ==
  \A v \in Vaults : state[v] = "UNLOCKED" =>
    dataKey[v] = header[v].key /\ masterKey[v] = header[v].by

InStep == FileInStep /\ OpenedWellFormed /\ OpenedAgree /\ HeadersAgree /\ KeysFit

-----------------------------------------------------------------------------
objects == <<file, state, header, masterKey, dataKey, entries, saving>>

LEMMA SafeUnchanged == Safe /\ UNCHANGED objects => Safe'
  BY DEF Safe, TypeOK, KeysIffUnlocked, HeaderIfOpened, SavingUnlocked, Whole,
         Contents, Headers, MasterKeys, Entries, objects

LEMMA InitSafe == Init => Safe
  BY DEF Init, Safe, TypeOK, KeysIffUnlocked, HeaderIfOpened, SavingUnlocked,
         States, Entries, NoEntries

LEMMA CreateSafe ==
  ASSUME Safe, NEW v \in Vaults, v \notin saving, NEW p \in Passphrases, Create(v, p)
  PROVE  Safe'
<1>1. CASE Returns(v, "create", "false")
  BY <1>1, SafeUnchanged DEF Returns, objects
<1>2. CASE state[v] = "UNINITIALIZED" /\ state'[v] = "UNLOCKED"
  <2>1. PICK s \in Salts, k \in DataKeys :
          /\ masterKey' = [masterKey EXCEPT ![v] = [pass |-> p, salt |-> s]]
          /\ dataKey' = [dataKey EXCEPT ![v] = k]
          /\ header' = [header EXCEPT ![v] =
               [salt |-> s, by |-> [pass |-> p, salt |-> s], key |-> k]]
    BY <1>2 DEF Create, Returns, DeriveMasterKey, FreshSalts, FreshKeys
  <2>. QED BY <1>2, <2>1, NoneAssumption DEF Create, Returns, StartSave, Safe, TypeOK,
      KeysIffUnlocked, HeaderIfOpened, SavingUnlocked, States, MasterKeys, Headers
<1>. QED BY <1>1, <1>2 DEF Create, Returns, Safe, TypeOK

LEMMA OpenSafe ==
  ASSUME Safe, NEW v \in Vaults, v \notin saving, Open(v)
  PROVE  Safe'
<1>1. CASE Returns(v, "open", "false")
  BY <1>1, SafeUnchanged DEF Returns, objects
<1>2. CASE /\ state[v] = "UNINITIALIZED"
           /\ Whole
           /\ LoadFile(v, None)
           /\ state' = [state EXCEPT ![v] = "LOCKED"]
           /\ UNCHANGED <<file, masterKey, dataKey, saving>>
  <2>1. file.header \in Headers
    BY <1>2 DEF Safe, TypeOK, Whole, Contents
  <2>. QED BY <1>2, <2>1, NoneAssumption DEF LoadFile, Safe, TypeOK, KeysIffUnlocked,
      HeaderIfOpened, SavingUnlocked, States
<1>. QED BY <1>1, <1>2 DEF Open

LEMMA UnlockSafe ==
  ASSUME Safe, NEW v \in Vaults, v \notin saving, NEW p \in Passphrases, Unlock(v, p)
  PROVE  Safe'
<1>1. CASE Returns(v, "unlock", "false")
  BY <1>1, SafeUnchanged DEF Returns, objects
<1>2. CASE /\ state[v] = "LOCKED"
           /\ DeriveMasterKey(p, header[v].salt) = header[v].by
           /\ masterKey' = [masterKey EXCEPT ![v] = DeriveMasterKey(p, header[v].salt)]
           /\ dataKey' = [dataKey EXCEPT ![v] = header[v].key]
           /\ state' = [state EXCEPT ![v] = "UNLOCKED"]
           /\ LoadFile(v, header[v].key)
           /\ UNCHANGED <<file, saving>>
  <2>1. Whole => file.header \in Headers /\ file.entries \in Entries
    BY DEF Safe, TypeOK, Whole, Contents
  <2>2. header[v].by \in MasterKeys /\ header[v].key \in DataKeys
    BY <1>2 DEF Safe, TypeOK, HeaderIfOpened, Headers
  <2>3. /\ header' \in [Vaults -> Headers \cup {None}]
        /\ \A w \in Vaults : header[w] # None => header'[w] # None
        /\ entries' \in [Vaults -> Entries]
        /\ \A w \in Vaults \ {v} : entries'[w] = entries[w]
    BY <1>2, <2>1, NoneAssumption DEF LoadFile, Safe, TypeOK
  <2>. QED BY <1>2, <2>2, <2>3, NoneAssumption DEF Safe, TypeOK, KeysIffUnlocked,
      HeaderIfOpened, SavingUnlocked, States
<1>. QED BY <1>1, <1>2 DEF Unlock

LEMMA LoadSafe ==
  ASSUME Safe, NEW v \in Vaults, v \notin saving, Load(v)
  PROVE  Safe'
<1>1. CASE \E result \in {"false", LoadResult(None)} : Returns(v, "load", result)
  BY <1>1, SafeUnchanged DEF Returns, objects
<1>2. CASE /\ state[v] # "UNINITIALIZED"
           /\ LoadFile(v, dataKey[v])
           /\ UNCHANGED <<file, state, masterKey, dataKey, saving>>
  <2>1. Whole => file.header \in Headers /\ file.entries \in Entries
    BY DEF Safe, TypeOK, Whole, Contents
  <2>2. /\ header' \in [Vaults -> Headers \cup {None}]
        /\ \A w \in Vaults : header[w] # None => header'[w] # None
        /\ entries' \in [Vaults -> Entries]
        /\ \A w \in Vaults : w # v \/ dataKey[v] = None => entries'[w] = entries[w]
    BY <1>2, <2>1, NoneAssumption DEF LoadFile, Safe, TypeOK
  <2>. QED BY <1>2, <2>2, NoneAssumption DEF Safe, TypeOK, KeysIffUnlocked,
      HeaderIfOpened, SavingUnlocked, States
<1>. QED BY <1>1, <1>2 DEF Load

LEMMA LockSafe ==
  ASSUME Safe, NEW v \in Vaults, v \notin saving, Lock(v)
  PROVE  Safe'
<1>1. CASE Returns(v, "lock", "true")
  BY <1>1, SafeUnchanged DEF Returns, objects
<1>2. CASE /\ state[v] = "UNLOCKED"
           /\ state' = [state EXCEPT ![v] = "LOCKED"]
           /\ masterKey' = [masterKey EXCEPT ![v] = None]
           /\ dataKey' = [dataKey EXCEPT ![v] = None]
           /\ entries' = [entries EXCEPT ![v] = NoEntries]
           /\ UNCHANGED <<file, header, saving>>
  BY <1>2 DEF Safe, TypeOK, KeysIffUnlocked, HeaderIfOpened,
      SavingUnlocked, States, Entries, NoEntries
<1>. QED BY <1>1, <1>2 DEF Lock

LEMMA EditSafe ==
  ASSUME Safe, NEW v \in Vaults, state[v] = "UNLOCKED",
         NEW i \in Ids, NEW x \in Secrets \cup {None}, NEW op, Edit(v, i, x, op)
  PROVE  Safe'
<1>1. entries[v] \in Entries
  BY DEF Safe, TypeOK
<1>2. [entries[v] EXCEPT ![i] = x] \in Entries
  BY <1>1 DEF Entries
<1>3. entries' = [entries EXCEPT ![v] = [entries[v] EXCEPT ![i] = x]]
  BY DEF Edit
<1>4. /\ entries' \in [Vaults -> Entries]
      /\ \A w \in Vaults \ {v} : entries'[w] = entries[w]
  BY <1>2, <1>3 DEF Safe, TypeOK
<1>. QED BY <1>4 DEF Edit, Safe, TypeOK, KeysIffUnlocked, HeaderIfOpened,
      SavingUnlocked, Contents

LEMMA RekeySafe ==
  ASSUME Safe, NEW v \in Vaults, v \notin saving, Rekey(v)
  PROVE  Safe'
<1>1. CASE UNCHANGED objects
  BY <1>1, SafeUnchanged
<1>2. CASE /\ state[v] = "UNLOCKED"
           /\ \E k \in FreshKeys :
                /\ dataKey' = [dataKey EXCEPT ![v] = k]
                /\ header' = [header EXCEPT ![v].by = masterKey[v], ![v].key = k]
           /\ StartSave(v)
           /\ UNCHANGED <<state, masterKey, entries>>
  <2>1. PICK k \in DataKeys :
          /\ dataKey' = [dataKey EXCEPT ![v] = k]
          /\ header' = [header EXCEPT ![v].by = masterKey[v], ![v].key = k]
    BY <1>2 DEF FreshKeys
  <2>2. /\ header[v] \in Headers
        /\ masterKey[v] \in MasterKeys
    BY <1>2 DEF Safe, TypeOK, KeysIffUnlocked, HeaderIfOpened
  <2>3. /\ header' \in [Vaults -> Headers \cup {None}]
        /\ header'[v] \in Headers
        /\ \A w \in Vaults \ {v} : header'[w] = header[w]
    BY <2>1, <2>2 DEF Safe, TypeOK, Headers
  <2>. QED BY <1>2, <2>1, <2>3, NoneAssumption DEF StartSave, Safe, TypeOK,
      KeysIffUnlocked, HeaderIfOpened, SavingUnlocked
<1>. QED BY <1>1, <1>2 DEF Rekey, Throws, Returns, objects

LEMMA SaveSafe ==
  ASSUME Safe, NEW v \in Vaults, v \notin saving, Save(v)
  PROVE  Safe'
<1>1. CASE UNCHANGED objects
  BY <1>1, SafeUnchanged
<1>2. CASE /\ state[v] = "UNLOCKED"
           /\ StartSave(v)
           /\ UNCHANGED <<state, header, masterKey, dataKey, entries>>
  BY <1>2 DEF StartSave, Safe, TypeOK, KeysIffUnlocked, HeaderIfOpened, SavingUnlocked
<1>. QED BY <1>1, <1>2 DEF Save, Returns, objects

LEMMA FinishSaveSafe ==
  ASSUME Safe, NEW v \in Vaults, FinishSave(v)
  PROVE  Safe'
<1>1. Image(v) \in Contents
  BY NoneAssumption DEF FinishSave, Safe, TypeOK, KeysIffUnlocked, HeaderIfOpened,
     SavingUnlocked, Image, Contents
<1>. QED BY <1>1 DEF FinishSave, Safe, TypeOK, KeysIffUnlocked, HeaderIfOpened,
      SavingUnlocked

LEMMA ProcessEndsSafe ==
  ASSUME Safe, NEW v \in Vaults, ProcessEnds(v)
  PROVE  Safe'
BY DEF ProcessEnds, Safe, TypeOK, KeysIffUnlocked, HeaderIfOpened, SavingUnlocked,
   States, Entries, NoEntries

LEMMA StepSafe == Safe /\ [Next]_vars => Safe'
<1>. SUFFICES ASSUME Safe, [Next]_vars PROVE Safe'
  OBVIOUS
<1>1. CASE UNCHANGED vars
  BY <1>1, SafeUnchanged DEF vars, objects
<1>2. ASSUME NEW v \in Vaults, v \notin saving, Call(v)
      PROVE  Safe'
  <2>1. CASE Open(v) \/ Load(v) \/ Lock(v) \/ Save(v)
    BY <1>2, <2>1, OpenSafe, LoadSafe, LockSafe, SaveSafe
  <2>2. CASE \E p \in Passphrases : Create(v, p) \/ Unlock(v, p)
    BY <1>2, <2>2, CreateSafe, UnlockSafe
  <2>3. CASE \E x \in Secrets : AddEntry(v, x)
    <3>. PICK x \in Secrets : AddEntry(v, x)
      BY <2>3
    <3>1. CASE state[v] = "UNLOCKED" /\ \E i \in Ids : Edit(v, i, x, "add")
      BY <3>1, EditSafe
    <3>2. CASE UNCHANGED objects
      BY <3>2, SafeUnchanged
    <3>. QED BY <3>1, <3>2 DEF AddEntry, Throws, Returns, FreshIds, objects
  <2>4. CASE \E i \in Ids : DeleteEntry(v, i) \/ GetEntry(v, i)
    <3>. PICK i \in Ids : DeleteEntry(v, i) \/ GetEntry(v, i)
      BY <2>4
    <3>1. CASE state[v] = "UNLOCKED" /\ Edit(v, i, None, "delete")
      BY <3>1, EditSafe
    <3>2. CASE UNCHANGED objects
      BY <3>2, SafeUnchanged
    <3>. QED BY <3>1, <3>2 DEF DeleteEntry, GetEntry, Throws, Returns, objects
  <2>5. CASE \E i \in Ids, x \in Secrets : UpdateEntry(v, i, x)
    <3>. PICK i \in Ids, x \in Secrets : UpdateEntry(v, i, x)
      BY <2>5
    <3>1. CASE state[v] = "UNLOCKED" /\ Edit(v, i, x, "update")
      BY <3>1, EditSafe
    <3>2. CASE UNCHANGED objects
      BY <3>2, SafeUnchanged
    <3>. QED BY <3>1, <3>2 DEF UpdateEntry, Throws, Returns, objects
  <2>6. CASE Rekey(v)
    BY <1>2, <2>6, RekeySafe
  <2>. QED BY <1>2, <2>1, <2>2, <2>3, <2>4, <2>5, <2>6 DEF Call
<1>3. ASSUME NEW v \in Vaults, FinishSave(v) \/ ProcessEnds(v)
      PROVE  Safe'
  BY <1>3, FinishSaveSafe, ProcessEndsSafe
<1>. QED BY <1>1, <1>2, <1>3 DEF Next

\* For any number of processes and in any environment, every variable keeps its
\* type and an object holds keys and secrets exactly while it is UNLOCKED, with
\* both keys present (vault.cpp: create, unlock, lock, rekey).
THEOREM VaultSafe == Spec => [](TypeOK /\ KeysIffUnlocked)
<1>1. Spec => []Safe
  BY InitSafe, StepSafe, PTL DEF Spec
<1>2. Safe => TypeOK /\ KeysIffUnlocked
  BY DEF Safe
<1>. QED BY <1>1, <1>2, PTL

\* The types alone, for the modules that build on Vault.
THEOREM VaultTyped == Spec => []TypeOK
<1>1. Spec => [](TypeOK /\ KeysIffUnlocked)
  BY VaultSafe
<1>. QED BY <1>1, PTL

-----------------------------------------------------------------------------
LEMMA InStepUnchanged == InStep /\ UNCHANGED objects => InStep'
  BY DEF InStep, FileInStep, OpenedWellFormed, OpenedAgree, HeadersAgree, KeysFit,
         WellFormed, Whole, objects

\* A call that touches neither the file nor a header, a key or a state.
LEMMA EntriesOnly ==
  ASSUME InStep, UNCHANGED <<file, state, header, masterKey, dataKey>>
  PROVE  InStep'
BY DEF InStep, FileInStep, OpenedWellFormed, OpenedAgree, HeadersAgree, KeysFit,
       WellFormed, Whole

LEMMA CreateInStep ==
  ASSUME Calm, Safe, InStep, NEW v \in Vaults, v \notin saving,
         NEW p \in Passphrases, Create(v, p)
  PROVE  InStep'
<1>1. CASE Returns(v, "create", "false")
  BY <1>1, InStepUnchanged DEF Returns, objects
<1>2. CASE /\ state[v] = "UNINITIALIZED"
           /\ InitOver \/ (file = Absent /\ \A w \in Vaults : state[w] = "UNINITIALIZED")
           /\ \E s \in FreshSalts, k \in FreshKeys :
                LET mk == DeriveMasterKey(p, s) IN
                  /\ masterKey' = [masterKey EXCEPT ![v] = mk]
                  /\ dataKey' = [dataKey EXCEPT ![v] = k]
                  /\ header' = [header EXCEPT ![v] = [salt |-> s, by |-> mk, key |-> k]]
           /\ state' = [state EXCEPT ![v] = "UNLOCKED"]
           /\ StartSave(v)
  <2>1. PICK s, k :
          /\ masterKey' = [masterKey EXCEPT ![v] = [pass |-> p, salt |-> s]]
          /\ dataKey' = [dataKey EXCEPT ![v] = k]
          /\ header' = [header EXCEPT ![v] =
               [salt |-> s, by |-> [pass |-> p, salt |-> s], key |-> k]]
    BY <1>2 DEF DeriveMasterKey
  <2>2. \A w \in Vaults \ {v} : state[w] = "UNINITIALIZED"
    BY <1>2 DEF Calm
  <2>3. file' = Torn \/ (file = Absent /\ file' = file)
    BY <1>2 DEF Calm, StartSave
  <2>. QED BY <1>2, <2>1, <2>2, <2>3 DEF Safe, TypeOK, InStep, FileInStep,
      OpenedWellFormed, OpenedAgree, HeadersAgree, KeysFit, WellFormed, Whole
<1>. QED BY <1>1, <1>2 DEF Create

LEMMA OpenInStep ==
  ASSUME Safe, InStep, NEW v \in Vaults, Open(v)
  PROVE  InStep'
<1>1. CASE Returns(v, "open", "false")
  BY <1>1, InStepUnchanged DEF Returns, objects
<1>2. CASE /\ state[v] = "UNINITIALIZED"
           /\ Whole
           /\ LoadFile(v, None)
           /\ state' = [state EXCEPT ![v] = "LOCKED"]
           /\ UNCHANGED <<file, masterKey, dataKey, saving>>
  <2>1. header' = [header EXCEPT ![v] = file.header]
    BY <1>2 DEF LoadFile
  <2>. QED BY <1>2, <2>1 DEF Safe, TypeOK, InStep, FileInStep, OpenedWellFormed,
      OpenedAgree, HeadersAgree, KeysFit, WellFormed, Whole
<1>. QED BY <1>1, <1>2 DEF Open

\* load() on an opened object assigns the header it already has.
LEMMA LoadKeepsHeader ==
  ASSUME Safe, InStep, NEW v \in Vaults, state[v] # "UNINITIALIZED",
         header' = IF Whole THEN [header EXCEPT ![v] = file.header] ELSE header
  PROVE  header' = header
BY DEF Safe, TypeOK, InStep, HeadersAgree

LEMMA UnlockInStep ==
  ASSUME Safe, InStep, NEW v \in Vaults, NEW p \in Passphrases, Unlock(v, p)
  PROVE  InStep'
<1>1. CASE Returns(v, "unlock", "false")
  BY <1>1, InStepUnchanged DEF Returns, objects
<1>2. CASE /\ state[v] = "LOCKED"
           /\ DeriveMasterKey(p, header[v].salt) = header[v].by
           /\ masterKey' = [masterKey EXCEPT ![v] = DeriveMasterKey(p, header[v].salt)]
           /\ dataKey' = [dataKey EXCEPT ![v] = header[v].key]
           /\ state' = [state EXCEPT ![v] = "UNLOCKED"]
           /\ LoadFile(v, header[v].key)
           /\ UNCHANGED <<file, saving>>
  <2>1. header' = header
    BY <1>2, LoadKeepsHeader DEF LoadFile
  <2>. QED BY <1>2, <2>1 DEF Safe, TypeOK, InStep, FileInStep, OpenedWellFormed,
      OpenedAgree, HeadersAgree, KeysFit, WellFormed, Whole
<1>. QED BY <1>1, <1>2 DEF Unlock

LEMMA LoadInStep ==
  ASSUME Safe, InStep, NEW v \in Vaults, Load(v)
  PROVE  InStep'
<1>1. CASE \E result \in {"false", LoadResult(None)} : Returns(v, "load", result)
  BY <1>1, InStepUnchanged DEF Returns, objects
<1>2. CASE /\ state[v] # "UNINITIALIZED"
           /\ LoadFile(v, dataKey[v])
           /\ UNCHANGED <<file, state, masterKey, dataKey, saving>>
  BY <1>2, LoadKeepsHeader, EntriesOnly DEF LoadFile
<1>. QED BY <1>1, <1>2 DEF Load

LEMMA LockInStep ==
  ASSUME Safe, InStep, NEW v \in Vaults, Lock(v)
  PROVE  InStep'
<1>1. CASE Returns(v, "lock", "true")
  BY <1>1, InStepUnchanged DEF Returns, objects
<1>2. CASE /\ state[v] = "UNLOCKED"
           /\ state' = [state EXCEPT ![v] = "LOCKED"]
           /\ masterKey' = [masterKey EXCEPT ![v] = None]
           /\ dataKey' = [dataKey EXCEPT ![v] = None]
           /\ UNCHANGED <<file, header, saving>>
  BY <1>2 DEF Safe, TypeOK, InStep, FileInStep, OpenedWellFormed, OpenedAgree,
      HeadersAgree, KeysFit, WellFormed, Whole
<1>. QED BY <1>1, <1>2 DEF Lock

LEMMA SaveInStep ==
  ASSUME InStep, NEW v \in Vaults, Save(v)
  PROVE  InStep'
<1>1. CASE UNCHANGED <<file, state, header, masterKey, dataKey>>
  BY <1>1, EntriesOnly
<1>2. CASE file' = Torn /\ UNCHANGED <<state, header, masterKey, dataKey>>
  BY <1>2 DEF InStep, FileInStep, OpenedWellFormed, OpenedAgree, HeadersAgree,
      KeysFit, WellFormed, Whole
<1>. QED BY <1>1, <1>2 DEF Save, StartSave, Returns

\* Only where one process is alone with the file: the header of its object and
\* the file change together.
LEMMA RekeyInStep ==
  ASSUME Calm, Safe, InStep, NEW v \in Vaults, v \in Rekeying, Rekey(v)
  PROVE  InStep'
<1>1. CASE UNCHANGED objects
  BY <1>1, InStepUnchanged
<1>2. CASE /\ state[v] = "UNLOCKED"
           /\ \E k \in FreshKeys :
                /\ dataKey' = [dataKey EXCEPT ![v] = k]
                /\ header' = [header EXCEPT ![v].by = masterKey[v], ![v].key = k]
           /\ StartSave(v)
           /\ UNCHANGED <<state, masterKey, entries>>
  <2>1. PICK k \in DataKeys :
          /\ dataKey' = [dataKey EXCEPT ![v] = k]
          /\ header' = [header EXCEPT ![v].by = masterKey[v], ![v].key = k]
    BY <1>2 DEF FreshKeys
  <2>2. header[v] \in Headers
    BY <1>2 DEF Safe, TypeOK, HeaderIfOpened
  <2>3. /\ header'[v].salt = header[v].salt
        /\ header'[v].by = masterKey[v]
        /\ header'[v].key = k
        /\ dataKey'[v] = k
    BY <2>1, <2>2 DEF Safe, TypeOK, Headers
  <2>4. file' = Torn /\ \A w \in Vaults : w = v
    BY <1>2 DEF Calm, StartSave
  <2>5. masterKey[v] = header[v].by /\ WellFormed(header[v])
    BY <1>2 DEF InStep, KeysFit, OpenedWellFormed
  <2>. QED BY <1>2, <2>3, <2>4, <2>5 DEF InStep, FileInStep, OpenedWellFormed,
      OpenedAgree, HeadersAgree, KeysFit, WellFormed, Whole
<1>. QED BY <1>1, <1>2 DEF Rekey, Throws, Returns, objects

LEMMA FinishSaveInStep ==
  ASSUME Safe, InStep, NEW v \in Vaults, FinishSave(v)
  PROVE  InStep'
<1>1. CASE file' = Image(v)
  <2>1. state[v] = "UNLOCKED"
    BY DEF FinishSave, Safe, SavingUnlocked
  <2>2. /\ file'.header = header[v]
        /\ file'.sealedBy = dataKey[v]
    BY <1>1 DEF Image
  <2>. QED BY <2>1, <2>2 DEF FinishSave, InStep, FileInStep, OpenedWellFormed,
      OpenedAgree, HeadersAgree, KeysFit, WellFormed, Whole
<1>2. CASE file' = Torn
  BY <1>2 DEF FinishSave, InStep, FileInStep, OpenedWellFormed, OpenedAgree,
      HeadersAgree, KeysFit, WellFormed, Whole
<1>3. CASE file' = file
  BY <1>3, EntriesOnly DEF FinishSave
<1>. QED BY <1>1, <1>2, <1>3 DEF FinishSave

LEMMA ProcessEndsInStep ==
  ASSUME Safe, InStep, NEW v \in Vaults, ProcessEnds(v)
  PROVE  InStep'
BY DEF ProcessEnds, Safe, TypeOK, InStep, FileInStep, OpenedWellFormed, OpenedAgree,
   HeadersAgree, KeysFit, WellFormed, Whole

LEMMA StepInStep ==
  ASSUME Calm, Safe, InStep, [Next]_vars
  PROVE  InStep'
<1>1. CASE UNCHANGED vars
  BY <1>1, InStepUnchanged DEF vars, objects
<1>2. ASSUME NEW v \in Vaults, v \notin saving, Call(v)
      PROVE  InStep'
  <2>1. CASE Open(v) \/ Load(v) \/ Lock(v) \/ Save(v)
    BY <1>2, <2>1, OpenInStep, LoadInStep, LockInStep, SaveInStep
  <2>2. CASE \E p \in Passphrases : Create(v, p) \/ Unlock(v, p)
    BY <1>2, <2>2, CreateInStep, UnlockInStep
  <2>3. CASE UNCHANGED <<file, state, header, masterKey, dataKey>>
    BY <2>3, EntriesOnly
  <2>4. CASE v \in Rekeying /\ Rekey(v)
    BY <1>2, <2>4, RekeyInStep
  <2>. QED BY <1>2, <2>1, <2>2, <2>3, <2>4 DEF Call, AddEntry, UpdateEntry,
      DeleteEntry, GetEntry, Edit, Throws, Returns
<1>3. ASSUME NEW v \in Vaults, FinishSave(v) \/ ProcessEnds(v)
      PROVE  InStep'
  BY <1>3, FinishSaveInStep, ProcessEndsInStep
<1>. QED BY <1>1, <1>2, <1>3 DEF Next

\* In a calm environment a vault file that parses can always be read back, and
\* every object that opened it holds its header, across crashes in the middle of
\* a save, failed writes and, for a lone process, key rotations and re-creations
\* (vault.cpp: save, load, unlock, rekey, create).
THEOREM VaultReadable ==
  ASSUME Calm
  PROVE  Spec => [](FileReadable /\ HeadersAgree)
<1>1. Init => InStep
  BY DEF Init, InStep, FileInStep, OpenedWellFormed, OpenedAgree, HeadersAgree,
     KeysFit, Whole
<1>2. Safe /\ InStep /\ [Next]_vars => InStep'
  BY StepInStep
<1>3. Safe /\ InStep => FileReadable /\ HeadersAgree
  <2>. SUFFICES ASSUME Safe, InStep PROVE FileReadable /\ HeadersAgree
    OBVIOUS
  <2>1. ASSUME Whole
        PROVE  DeriveMasterKey(file.header.by.pass, file.header.salt) = file.header.by
    BY <2>1 DEF Safe, TypeOK, Whole, Contents, Headers, MasterKeys, InStep,
       FileInStep, WellFormed, DeriveMasterKey
  <2>2. ASSUME Whole
        PROVE  file.header.by.pass \in Passphrases
    BY <2>2 DEF Safe, TypeOK, Whole, Contents, Headers, MasterKeys
  <2>. QED BY <2>1, <2>2 DEF InStep, FileInStep, FileReadable
<1>. QED BY <1>1, <1>2, <1>3, InitSafe, StepSafe, PTL DEF Spec

-----------------------------------------------------------------------------
\* One process that can always open its file for writing; it may rotate keys,
\* re-create the vault and meet a device that fails.
OneProcess == Vaults = {TheVault} /\ ~OpenFails

\* The file is torn while it is being saved, and there is one once the object
\* was created or opened.
FileFollows ==
  /\ TheVault \in saving => file = Torn
  /\ state[TheVault] # "UNINITIALIZED" => file # Absent

Abstract == <<Store, View>>

LEMMA FollowsUnchanged ==
  ASSUME FileFollows, UNCHANGED objects
  PROVE  FileFollows' /\ UNCHANGED Abstract
BY DEF FileFollows, Abstract, Store, View, Session, Whole, objects

SessionInv == OneProcess /\ Safe /\ InStep /\ FileFollows

\* What a step must do: keep the file where it should be, and be a step of the
\* store or none.
Follows == FileFollows' /\ [StoreOfOneProcess!Next]_Abstract

LEMMA StoreSteps ==
  ASSUME \/ \E p \in Passphrases :
              \/ StoreOfOneProcess!Create(p) \/ StoreOfOneProcess!Unlock(p)
              \/ StoreOfOneProcess!UnlockLost(p)
         \/ \E i \in Ids, x \in Secrets \cup {None} : StoreOfOneProcess!Edit(i, x)
         \/ StoreOfOneProcess!Reload \/ StoreOfOneProcess!Commit
         \/ StoreOfOneProcess!Close \/ StoreOfOneProcess!Lose
  PROVE  StoreOfOneProcess!Next
BY DEF StoreOfOneProcess!Next

\* The session of an unlocked object is none of the values that mean there is none.
LEMMA SessionOpen ==
  ASSUME SessionInv, state[TheVault] = "UNLOCKED"
  PROVE  /\ View = Session /\ Session \notin {Closed, Absent, Torn}
         /\ TheVault \in Vaults
<1>1. TheVault \in Vaults
  BY DEF SessionInv, OneProcess
<1>2. masterKey[TheVault] \in MasterKeys /\ entries[TheVault] \in Entries
  BY <1>1 DEF SessionInv, Safe, TypeOK, KeysIffUnlocked
<1>3. Session \in [pass : Passphrases, entries : Entries]
  BY <1>2 DEF Session, MasterKeys
<1>. QED BY <1>1, <1>3, SessionAssumption DEF View

LEMMA SaveFollows ==
  ASSUME SessionInv, state[TheVault] = "UNLOCKED", StartSave(TheVault),
         UNCHANGED <<state, masterKey, entries>>
  PROVE  Follows
<1>1. file' = Torn /\ TheVault \in saving'
  BY DEF StartSave, SessionInv, OneProcess
<1>2. Session' = Session /\ View' = View /\ View = Session /\ View # Closed
  BY SessionOpen DEF Session, View
<1>3. Store' = Session
  BY <1>1, <1>2 DEF Store, Whole
<1>4. StoreOfOneProcess!Commit
  BY <1>2, <1>3 DEF StoreOfOneProcess!Commit
<1>. QED BY <1>1, <1>4, StoreSteps, NoneAssumption DEF Follows, FileFollows

LEMMA CreateFollows ==
  ASSUME SessionInv, TheVault \notin saving, NEW p \in Passphrases, Create(TheVault, p)
  PROVE  Follows
<1>1. CASE UNCHANGED objects
  BY <1>1, FollowsUnchanged DEF SessionInv, Follows
<1>2. CASE state[TheVault] = "UNINITIALIZED" /\ ~UNCHANGED objects
  <2>1. /\ file' = Torn /\ TheVault \in saving'
        /\ state'[TheVault] = "UNLOCKED" /\ masterKey'[TheVault].pass = p
        /\ entries' = entries
    BY <1>2 DEF Create, Returns, StartSave, DeriveMasterKey, SessionInv, OneProcess, Safe,
                TypeOK, objects
  <2>2. entries[TheVault] = NoEntries
    BY <1>2 DEF SessionInv, OneProcess, Safe, KeysIffUnlocked
  <2>3. View = Closed
    BY <1>2 DEF View
  <2>4. View' = [pass |-> p, entries |-> [i \in Ids |-> None]] /\ Store' = View'
    BY <2>1, <2>2 DEF View, Store, Session, Whole, NoEntries
  <2>5. StoreOfOneProcess!Create(p)
    BY <2>3, <2>4 DEF StoreOfOneProcess!Create
  <2>. QED BY <2>1, <2>5, StoreSteps, NoneAssumption DEF Follows, FileFollows
<1>. QED BY <1>1, <1>2 DEF Create, Returns, objects

LEMMA OpenFollows ==
  ASSUME SessionInv, Open(TheVault)
  PROVE  Follows
<1>1. CASE UNCHANGED objects
  BY <1>1, FollowsUnchanged DEF SessionInv, Follows
<1>2. CASE /\ state[TheVault] = "UNINITIALIZED" /\ Whole
           /\ state' = [state EXCEPT ![TheVault] = "LOCKED"]
           /\ UNCHANGED <<file, masterKey, entries, saving>>
  <2>1. state'[TheVault] = "LOCKED"
    BY <1>2 DEF SessionInv, OneProcess, Safe, TypeOK
  <2>2. UNCHANGED Abstract
    BY <1>2, <2>1 DEF Abstract, Store, View, Session, Whole
  <2>. QED BY <1>2, <2>2 DEF Follows, FileFollows, SessionInv, Whole
<1>. QED BY <1>1, <1>2 DEF Open, Returns, LoadFile, objects

LEMMA UnlockFollows ==
  ASSUME SessionInv, NEW p \in Passphrases, Unlock(TheVault, p)
  PROVE  Follows
<1>1. CASE UNCHANGED objects
  BY <1>1, FollowsUnchanged DEF SessionInv, Follows
<1>2. CASE /\ state[TheVault] = "LOCKED"
           /\ DeriveMasterKey(p, header[TheVault].salt) = header[TheVault].by
           /\ masterKey' = [masterKey EXCEPT ![TheVault] =
                              DeriveMasterKey(p, header[TheVault].salt)]
           /\ state' = [state EXCEPT ![TheVault] = "UNLOCKED"]
           /\ LoadFile(TheVault, header[TheVault].key)
           /\ UNCHANGED <<file, saving>>
  <2>1. TheVault \in Vaults /\ TheVault \notin saving /\ file # Absent
    BY <1>2 DEF SessionInv, OneProcess, Safe, SavingUnlocked, FileFollows
  <2>2. state'[TheVault] = "UNLOCKED" /\ masterKey'[TheVault].pass = p
    BY <1>2, <2>1 DEF SessionInv, Safe, TypeOK, DeriveMasterKey
  <2>3. FileFollows'
    BY <1>2, <2>1 DEF FileFollows
  <2>4. View = Closed /\ Store' = Store
    BY <1>2, <2>1 DEF View, Store, Whole
  <2>5. CASE Whole
    <3>1. header[TheVault].key = file.sealedBy /\ header[TheVault] = file.header
      BY <1>2, <2>1, <2>5 DEF SessionInv, InStep, HeadersAgree, FileInStep
    <3>2. header[TheVault].key # None
      BY <1>2, <2>1, NoneAssumption DEF SessionInv, Safe, TypeOK, HeaderIfOpened, Headers
    <3>3. entries'[TheVault] = file.entries
      BY <1>2, <2>1, <2>5, <3>1, <3>2 DEF LoadFile, SessionInv, Safe, TypeOK
    <3>4. file.header.by.pass = p
      BY <1>2, <3>1 DEF DeriveMasterKey
    <3>5. Store = [pass |-> p, entries |-> file.entries] /\ View' = Store
      BY <2>2, <2>5, <3>3, <3>4 DEF Store, View, Session
    <3>6. file \in Contents
      BY <2>5 DEF SessionInv, Safe, TypeOK, Whole
    <3>7. Store \notin {Absent, Torn}
      BY <3>5, <3>6, SessionAssumption DEF Contents
    <3>8. StoreOfOneProcess!Unlock(p)
      BY <2>4, <3>5, <3>7 DEF StoreOfOneProcess!Unlock
    <3>. QED BY <2>3, <3>8, StoreSteps DEF Follows
  <2>6. CASE file = Torn
    <3>1. entries'[TheVault] = NoEntries
      BY <1>2, <2>1, <2>6 DEF LoadFile, Whole, SessionInv, Safe, KeysIffUnlocked
    <3>2. Store = Torn /\ View' = [pass |-> p, entries |-> [i \in Ids |-> None]]
      BY <2>1, <2>2, <2>6, <3>1 DEF Store, View, Session, Whole, NoEntries
    <3>3. StoreOfOneProcess!UnlockLost(p)
      BY <2>4, <3>2 DEF StoreOfOneProcess!UnlockLost
    <3>. QED BY <2>3, <3>3, StoreSteps DEF Follows
  <2>. QED BY <2>1, <2>5, <2>6 DEF Whole
<1>. QED BY <1>1, <1>2 DEF Unlock, Returns, objects

LEMMA LoadFollows ==
  ASSUME SessionInv, TheVault \notin saving, Load(TheVault)
  PROVE  Follows
<1>1. CASE UNCHANGED objects
  BY <1>1, FollowsUnchanged DEF SessionInv, Follows
<1>2. CASE /\ state[TheVault] # "UNINITIALIZED"
           /\ LoadFile(TheVault, dataKey[TheVault])
           /\ UNCHANGED <<file, state, masterKey, dataKey, saving>>
  <2>1. FileFollows' /\ Store' = Store
    BY <1>2 DEF FileFollows, SessionInv, Store, Whole
  <2>2. CASE UNCHANGED entries
    BY <1>2, <2>1, <2>2 DEF Follows, Abstract, View, Session
  <2>3. CASE /\ Whole /\ dataKey[TheVault] # None /\ dataKey[TheVault] = file.sealedBy
             /\ entries' = [entries EXCEPT ![TheVault] = file.entries]
    <3>1. TheVault \in Vaults /\ state[TheVault] = "UNLOCKED"
      BY <2>3 DEF SessionInv, OneProcess, Safe, KeysIffUnlocked
    <3>2. file.header.by = masterKey[TheVault]
      BY <2>3, <3>1 DEF SessionInv, InStep, HeadersAgree, KeysFit
    <3>3. entries'[TheVault] = file.entries
      BY <2>3, <3>1 DEF SessionInv, Safe, TypeOK
    <3>4. /\ View = Session /\ View # Closed
          /\ Store = [pass |-> View.pass, entries |-> file.entries]
      BY <2>3, <3>2, <3>1, SessionOpen DEF Store, Session
    <3>5. View' = Store
      BY <1>2, <3>1, <3>3, <3>4 DEF View, Session
    <3>6. file \in Contents /\ masterKey[TheVault] \in MasterKeys
      BY <2>3, <3>1 DEF SessionInv, Safe, TypeOK, KeysIffUnlocked, Whole
    <3>7. Store \in [pass : Passphrases, entries : Entries]
      BY <3>4, <3>6 DEF Contents, Session, MasterKeys
    <3>8. StoreOfOneProcess!Reload
      BY <2>1, <3>4, <3>5, <3>7, SessionAssumption DEF StoreOfOneProcess!Reload
    <3>. QED BY <2>1, <3>8, StoreSteps DEF Follows
  <2>. QED BY <1>2, <2>2, <2>3 DEF LoadFile
<1>. QED BY <1>1, <1>2 DEF Load, Returns, objects

LEMMA LockFollows ==
  ASSUME SessionInv, TheVault \notin saving, Lock(TheVault)
  PROVE  Follows
<1>1. CASE UNCHANGED objects
  BY <1>1, FollowsUnchanged DEF SessionInv, Follows
<1>2. CASE /\ state[TheVault] = "UNLOCKED"
           /\ state' = [state EXCEPT ![TheVault] = "LOCKED"]
           /\ UNCHANGED <<file, header, saving>>
  <2>1. state'[TheVault] = "LOCKED"
    BY <1>2, SessionOpen DEF SessionInv, Safe, TypeOK
  <2>2. View # Closed /\ View' = Closed /\ Store' = Store
    BY <1>2, <2>1, SessionOpen DEF View, Store, Whole
  <2>3. StoreOfOneProcess!Close
    BY <2>2 DEF StoreOfOneProcess!Close
  <2>. QED BY <1>2, <2>1, <2>3, StoreSteps DEF Follows, FileFollows, SessionInv
<1>. QED BY <1>1, <1>2 DEF Lock, Returns, objects

LEMMA EditFollows ==
  ASSUME SessionInv, TheVault \notin saving, state[TheVault] = "UNLOCKED",
         NEW i \in Ids, NEW x \in Secrets \cup {None}, NEW op, Edit(TheVault, i, x, op)
  PROVE  Follows
<1>1. entries'[TheVault] = [entries[TheVault] EXCEPT ![i] = x]
  BY SessionOpen DEF Edit, SessionInv, Safe, TypeOK
<1>2. View' = [View EXCEPT !.entries[i] = x] /\ View # Closed
  BY <1>1, SessionOpen DEF Edit, View, Session
<1>3. Store' = Store
  BY DEF Edit, Store, Whole
<1>4. StoreOfOneProcess!Edit(i, x)
  BY <1>2, <1>3 DEF StoreOfOneProcess!Edit
<1>. QED BY <1>4, StoreSteps DEF Edit, Follows, FileFollows, SessionInv

\* The image of the session reaches the file, which stands for the session since
\* the save began, or nothing does, and the store is lost.
LEMMA FinishSaveFollows ==
  ASSUME SessionInv, FinishSave(TheVault)
  PROVE  Follows
<1>1. /\ TheVault \in saving /\ state[TheVault] = "UNLOCKED" /\ file = Torn
      /\ TheVault \notin saving'
      /\ UNCHANGED <<state, masterKey, entries>>
  BY DEF FinishSave, SessionInv, Safe, SavingUnlocked, FileFollows
<1>2. Store = Session /\ View = Session /\ View' = View /\ View # Closed
  BY <1>1, SessionOpen DEF Store, View, Session, Whole
<1>3. CASE file' = Image(TheVault)
  <2>1. Image(TheVault) \in Contents
    BY <1>1, SessionOpen, NoneAssumption DEF SessionInv, Safe, TypeOK, KeysIffUnlocked,
       HeaderIfOpened, Image, Contents
  <2>2. Whole'
    BY <1>3, <2>1, ContentsAssumption DEF Whole
  <2>3. header[TheVault].by = masterKey[TheVault]
    BY <1>1, SessionOpen DEF SessionInv, InStep, KeysFit
  <2>4. Store' = Session
    BY <1>3, <2>2, <2>3 DEF Store, Session, Image
  <2>. QED BY <1>1, <1>2, <2>2, <2>4 DEF Follows, FileFollows, Abstract, Whole
<1>4. CASE file' = Torn
  <2>1. Store' = Torn
    BY <1>1, <1>4 DEF Store, Whole
  <2>2. StoreOfOneProcess!Lose
    BY <1>2, <2>1 DEF StoreOfOneProcess!Lose
  <2>. QED BY <1>1, <1>4, <2>2, StoreSteps, NoneAssumption DEF Follows, FileFollows
<1>. QED BY <1>1, <1>3, <1>4 DEF FinishSave

LEMMA ProcessEndsFollows ==
  ASSUME SessionInv, ProcessEnds(TheVault)
  PROVE  Follows
<1>1. /\ state'[TheVault] = "UNINITIALIZED" /\ TheVault \notin saving' /\ file' = file
  BY DEF ProcessEnds, SessionInv, OneProcess, Safe, TypeOK, FileFollows
<1>2. FileFollows' /\ View' = Closed
  BY <1>1 DEF FileFollows, View
<1>3. CASE TheVault \in saving
  <2>1. state[TheVault] = "UNLOCKED" /\ file = Torn
    BY <1>3 DEF SessionInv, Safe, SavingUnlocked, FileFollows
  <2>2. Store = View /\ View # Closed /\ Store' = Torn
    BY <1>1, <1>3, <2>1, SessionOpen DEF Store, View, Whole
  <2>3. StoreOfOneProcess!Lose
    BY <1>2, <2>2 DEF StoreOfOneProcess!Lose
  <2>. QED BY <1>2, <2>3, StoreSteps DEF Follows
<1>4. CASE TheVault \notin saving
  <2>1. Store' = Store
    BY <1>1, <1>4 DEF Store, Whole
  <2>2. CASE View = Closed
    BY <1>2, <2>1, <2>2 DEF Follows, Abstract
  <2>3. CASE View # Closed
    <3>1. StoreOfOneProcess!Close
      BY <1>2, <2>1, <2>3 DEF StoreOfOneProcess!Close
    <3>. QED BY <1>2, <3>1, StoreSteps DEF Follows
  <2>. QED BY <2>2, <2>3
<1>. QED BY <1>3, <1>4

LEMMA RekeyFollows ==
  ASSUME SessionInv, Rekey(TheVault)
  PROVE  Follows
<1>1. CASE UNCHANGED objects
  BY <1>1, FollowsUnchanged DEF SessionInv, Follows
<1>. QED BY <1>1, SaveFollows DEF Rekey, Throws, Returns, objects

LEMMA CallFollows ==
  ASSUME SessionInv, TheVault \notin saving, Call(TheVault)
  PROVE  Follows
<1>1. CASE UNCHANGED objects
  BY <1>1, FollowsUnchanged DEF SessionInv, Follows
<1>2. CASE Open(TheVault) \/ Load(TheVault) \/ Lock(TheVault) \/ Rekey(TheVault)
  BY <1>2, OpenFollows, LoadFollows, LockFollows, RekeyFollows
<1>3. CASE Save(TheVault)
  BY <1>1, <1>3, SaveFollows DEF Save, Returns, objects
<1>4. CASE \E p \in Passphrases : Create(TheVault, p) \/ Unlock(TheVault, p)
  BY <1>4, CreateFollows, UnlockFollows
<1>5. ASSUME NEW i \in Ids, NEW x \in Secrets \cup {None}, NEW op,
             state[TheVault] = "UNLOCKED", Edit(TheVault, i, x, op)
      PROVE  Follows
  BY <1>5, EditFollows
<1>6. CASE \E x \in Secrets : AddEntry(TheVault, x)
  BY <1>1, <1>5, <1>6 DEF AddEntry, Throws, Returns, FreshIds, objects
<1>7. CASE \E i \in Ids, x \in Secrets : UpdateEntry(TheVault, i, x)
  BY <1>1, <1>5, <1>7 DEF UpdateEntry, Throws, Returns, objects
<1>8. CASE \E i \in Ids : DeleteEntry(TheVault, i) \/ GetEntry(TheVault, i)
  BY <1>1, <1>5, <1>8 DEF DeleteEntry, GetEntry, Throws, Returns, objects
<1>. QED BY <1>2, <1>3, <1>4, <1>6, <1>7, <1>8 DEF Call

LEMMA StepFollows ==
  ASSUME SessionInv, [Next]_vars
  PROVE  Follows
<1>1. CASE UNCHANGED vars
  BY <1>1, FollowsUnchanged DEF vars, objects, SessionInv, Follows
<1>2. CASE Next
  <2>1. PICK v \in Vaults : (v \notin saving /\ Call(v)) \/ FinishSave(v) \/ ProcessEnds(v)
    BY <1>2 DEF Next
  <2>2. v = TheVault
    BY DEF SessionInv, OneProcess
  <2>. QED BY <2>1, <2>2, CallFollows, FinishSaveFollows, ProcessEndsFollows
<1>. QED BY <1>1, <1>2

\* The vault of one process is a store of entries that belongs to a passphrase:
\* whatever it creates, edits, rotates, locks, reloads or loses, and wherever it
\* is killed, every step is one of SecretStore or none (vault.cpp:25-318).
THEOREM VaultImplementsStore ==
  ASSUME OneProcess
  PROVE  Spec => ImplementsSecretStore
<1>1. Init => SessionInv /\ StoreOfOneProcess!Init
  <2>1. Init => Safe /\ InStep
    BY InitSafe DEF Init, InStep, FileInStep, OpenedWellFormed, OpenedAgree, HeadersAgree,
       KeysFit, Whole
  <2>2. Init => FileFollows /\ StoreOfOneProcess!Init
    BY DEF Init, FileFollows, StoreOfOneProcess!Init, Store, View, Whole, OneProcess
  <2>. QED BY <2>1, <2>2 DEF SessionInv
<1>2. SessionInv /\ [Next]_vars => SessionInv' /\ [StoreOfOneProcess!Next]_<<Store, View>>
  BY StepSafe, StepInStep, StepFollows DEF SessionInv, Follows, Abstract, OneProcess, Calm
<1>. QED BY <1>1, <1>2, PTL DEF Spec, ImplementsSecretStore, StoreOfOneProcess!Spec

=============================================================================
