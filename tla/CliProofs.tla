----------------------------- MODULE CliProofs -----------------------------
(***************************************************************************)
(* Whatever the commands do, their processes use the vault file as Vault   *)
(* says: every step of Cli is a step of Vault or none.  The theorems about *)
(* Vault therefore hold of any number of passdoq processes.  Then, for one *)
(* process that writes, what the commands tell their users.                *)
(***************************************************************************)
EXTENDS Cli, VaultProofs

\* A process is inside save() only where its command waits for the flush, so
\* that a command never calls the object in the middle of its own save.
SavingWaits ==
  /\ cmd \in [Vaults -> Commands \cup {None}]
  /\ \A v \in saving : v \in Vaults /\ cmd[v] # None /\ cmd[v].at = "flush"

LEMMA CmdAt ==
  ASSUME cmd \in [Vaults -> Commands \cup {None}], NEW v \in Vaults,
         cmd[v] # None, NEW point \in Points, Goes(v, point)
  PROVE  /\ cmd' \in [Vaults -> Commands \cup {None}]
         /\ \A w \in Vaults \ {v} : cmd'[w] = cmd[w]
         /\ cmd'[v] # None /\ cmd'[v].at = point
<1>1. cmd[v] \in Commands /\ [cmd[v] EXCEPT !.at = point] \in Commands
  BY DEF Commands
<1>2. cmd' = [cmd EXCEPT ![v] = [cmd[v] EXCEPT !.at = point]]
  BY DEF Goes
<1>3. None \notin Commands
  BY CommandAssumption
<1>4. [cmd[v] EXCEPT !.at = point].at = point
  BY <1>1 DEF Commands
<1>. QED BY <1>1, <1>2, <1>3, <1>4

LEMMA CmdNone ==
  ASSUME cmd \in [Vaults -> Commands \cup {None}], NEW v \in Vaults, Returned(v)
  PROVE  /\ cmd' \in [Vaults -> Commands \cup {None}]
         /\ \A w \in Vaults \ {v} : cmd'[w] = cmd[w]
BY DEF Returned

\* What every step must do to keep SavingWaits: it concerns one process, which
\* is inside save() only if its command now waits for the flush.
LEMMA OneProcessWaits ==
  ASSUME SavingWaits, NEW v \in Vaults,
         cmd' \in [Vaults -> Commands \cup {None}],
         \A w \in Vaults \ {v} : cmd'[w] = cmd[w],
         saving' \subseteq saving \cup {v},
         v \in saving' => cmd'[v] # None /\ cmd'[v].at = "flush"
  PROVE  SavingWaits'
BY DEF SavingWaits

\* A step that begins or ends no save leaves saving alone; where the process is
\* not at its flush it is not inside save().
LEMMA NotSaving ==
  ASSUME SavingWaits, NEW v \in Vaults, cmd[v] = None \/ cmd[v].at # "flush"
  PROVE  v \notin saving
BY DEF SavingWaits

LEMMA CallIsStep ==
  ASSUME NEW v \in Vaults, v \notin saving, Call(v)
  PROVE  [Next]_vars
BY DEF Next

-----------------------------------------------------------------------------
\* Each step of a command: what it does to the vault, and that it keeps
\* SavingWaits.
Sound == [Next]_vars /\ SavingWaits'

LEMMA BeginSound ==
  ASSUME SavingWaits, NEW v \in Vaults, NEW op \in Ops, Begin(v, op)
  PROVE  Sound
<1>1. v \notin saving
  BY NotSaving DEF Begin
<1>2. [op |-> op, at |-> IF op \in {"init", "lock"} THEN "run" ELSE "open",
       id |-> None, value |-> None] \in Commands
  BY DEF Commands, Points, Values
<1>3. /\ cmd' \in [Vaults -> Commands \cup {None}]
      /\ \A w \in Vaults \ {v} : cmd'[w] = cmd[w]
      /\ UNCHANGED vars
  BY <1>2 DEF Begin, SavingWaits
<1>. QED BY <1>1, <1>3, OneProcessWaits DEF Sound, vars

LEMMA EnsureOpenSound ==
  ASSUME SavingWaits, NEW v \in Vaults, EnsureOpen(v)
  PROVE  Sound
<1>1. v \notin saving /\ cmd[v] # None
  BY NotSaving DEF EnsureOpen, At
<1>2. UNCHANGED vars \/ Open(v)
  BY DEF EnsureOpen
<1>3. saving' = saving /\ [Next]_vars
  BY <1>1, <1>2, CallIsStep DEF Call, Open, Returns, vars
<1>4. Goes(v, "unlock") \/ Returned(v)
  BY DEF EnsureOpen
<1>. QED BY <1>1, <1>3, <1>4, CmdAt, CmdNone, OneProcessWaits
         DEF Sound, SavingWaits, Points

LEMMA EnsureUnlockedSound ==
  ASSUME SavingWaits, NEW v \in Vaults, EnsureUnlocked(v)
  PROVE  Sound
<1>1. v \notin saving /\ cmd[v] # None
  BY NotSaving DEF EnsureUnlocked, At
<1>2. UNCHANGED vars \/ \E p \in Passphrases : Unlock(v, p)
  BY DEF EnsureUnlocked
<1>3. saving' = saving /\ [Next]_vars
  BY <1>1, <1>2, CallIsStep DEF Call, Unlock, Returns, vars
<1>4. Goes(v, "run") \/ Returned(v)
  BY DEF EnsureUnlocked
<1>. QED BY <1>1, <1>3, <1>4, CmdAt, CmdNone, OneProcessWaits
         DEF Sound, SavingWaits, Points

LEMMA CmdLockSound ==
  ASSUME SavingWaits, NEW v \in Vaults, CmdLock(v)
  PROVE  Sound
<1>1. v \notin saving /\ cmd[v] # None
  BY NotSaving DEF CmdLock, At
<1>2. saving' = saving /\ [Next]_vars
  BY <1>1, CallIsStep DEF CmdLock, Call, Lock, Returns, vars
<1>. QED BY <1>1, <1>2, CmdNone, OneProcessWaits DEF CmdLock, Sound, SavingWaits

LEMMA CmdInitSound ==
  ASSUME SavingWaits, NEW v \in Vaults, CmdInit(v)
  PROVE  Sound
<1>1. v \notin saving /\ cmd[v] # None
  BY NotSaving DEF CmdInit, At
<1>2. UNCHANGED vars \/ \E p \in Passphrases : Create(v, p)
  BY DEF CmdInit
<1>3. saving' \subseteq saving \cup {v} /\ [Next]_vars
  BY <1>1, <1>2, CallIsStep DEF Call, Create, StartSave, Returns, vars
<1>4. IF v \in saving' THEN Goes(v, "flush") ELSE Returned(v)
  BY <1>1 DEF CmdInit, vars
<1>. QED BY <1>1, <1>3, <1>4, CmdAt, CmdNone, OneProcessWaits
         DEF Sound, SavingWaits, Points

LEMMA CmdGetSound ==
  ASSUME Safe, SavingWaits, NEW v \in Vaults, CmdGet(v)
  PROVE  Sound
<1>1. v \notin saving /\ cmd[v] # None /\ cmd[v] \in Commands
  BY NotSaving DEF CmdGet, At, SavingWaits
<1>2. PICK i \in Ids :
        /\ GetEntry(v, i)
        /\ cmd' = [cmd EXCEPT ![v].at = "printed", ![v].id = i,
                              ![v].value = entries[v][i]]
  BY DEF CmdGet
<1>3. saving' = saving /\ [Next]_vars
  BY <1>1, <1>2, CallIsStep DEF Call, GetEntry, Throws, Returns
<1>4. entries[v][i] \in Values
  BY DEF Safe, TypeOK, Entries, Values
<1>5. /\ cmd' \in [Vaults -> Commands \cup {None}]
      /\ \A w \in Vaults \ {v} : cmd'[w] = cmd[w]
  BY <1>1, <1>2, <1>4 DEF SavingWaits, Commands, Points
<1>. QED BY <1>1, <1>3, <1>5, OneProcessWaits DEF Sound

LEMMA EditsAt ==
  ASSUME SavingWaits, NEW v \in Vaults, cmd[v] # None,
         NEW i \in Ids, NEW x \in Values, Edits(v, i, x)
  PROVE  /\ cmd' \in [Vaults -> Commands \cup {None}]
         /\ \A w \in Vaults \ {v} : cmd'[w] = cmd[w]
<1>1. cmd[v] \in Commands
  BY DEF SavingWaits
<1>. QED BY <1>1 DEF Edits, SavingWaits, Commands, Points

LEMMA CmdAddSound ==
  ASSUME SavingWaits, NEW v \in Vaults, CmdAdd(v)
  PROVE  Sound
<1>1. v \notin saving /\ cmd[v] # None
  BY NotSaving DEF CmdAdd, At
<1>2. PICK x \in Secrets, i \in FreshIds :
        state[v] = "UNLOCKED" /\ Edit(v, i, x, "add") /\ Edits(v, i, x)
  BY DEF CmdAdd
<1>3. saving' = saving /\ [Next]_vars
  BY <1>1, <1>2, CallIsStep DEF Call, AddEntry, Edit
<1>4. i \in Ids /\ x \in Values
  BY DEF FreshIds, Values
<1>. QED BY <1>1, <1>2, <1>3, <1>4, EditsAt, OneProcessWaits DEF Sound

LEMMA CmdUpdateSound ==
  ASSUME SavingWaits, NEW v \in Vaults, CmdUpdate(v)
  PROVE  Sound
<1>1. v \notin saving /\ cmd[v] # None
  BY NotSaving DEF CmdUpdate, At
<1>2. PICK i \in Ids, x \in Secrets :
        /\ UpdateEntry(v, i, x)
        /\ Edits(v, i, x) \/ Returned(v)
  BY DEF CmdUpdate
<1>3. saving' = saving /\ [Next]_vars
  BY <1>1, <1>2, CallIsStep DEF Call, UpdateEntry, Edit, Throws, Returns
<1>. QED BY <1>1, <1>2, <1>3, EditsAt, CmdNone, OneProcessWaits
         DEF Sound, SavingWaits, Values

LEMMA CmdDeleteSound ==
  ASSUME SavingWaits, NEW v \in Vaults, CmdDelete(v)
  PROVE  Sound
<1>1. v \notin saving /\ cmd[v] # None
  BY NotSaving DEF CmdDelete, At
<1>2. CASE UNCHANGED vars /\ Returned(v)
  BY <1>1, <1>2, CmdNone, OneProcessWaits DEF Sound, SavingWaits, vars
<1>3. CASE \E i \in Ids : DeleteEntry(v, i) /\ (Edits(v, i, None) \/ Returned(v))
  <2>1. PICK i \in Ids : DeleteEntry(v, i) /\ (Edits(v, i, None) \/ Returned(v))
    BY <1>3
  <2>2. saving' = saving /\ [Next]_vars
    BY <1>1, <2>1, CallIsStep DEF Call, DeleteEntry, Edit, Throws, Returns
  <2>. QED BY <1>1, <2>1, <2>2, EditsAt, CmdNone, OneProcessWaits
           DEF Sound, SavingWaits, Values
<1>. QED BY <1>2, <1>3 DEF CmdDelete

LEMMA CmdSaveSound ==
  ASSUME SavingWaits, NEW v \in Vaults, CmdSave(v)
  PROVE  Sound
<1>1. v \notin saving /\ cmd[v] # None
  BY NotSaving DEF CmdSave, At
<1>2. saving' \subseteq saving \cup {v} /\ [Next]_vars
  BY <1>1, CallIsStep DEF CmdSave, Call, Save, StartSave, Returns
<1>3. IF v \in saving' THEN Goes(v, "flush") ELSE Returned(v)
  BY DEF CmdSave
<1>. QED BY <1>1, <1>2, <1>3, CmdAt, CmdNone, OneProcessWaits
         DEF Sound, SavingWaits, Points

LEMMA CmdFlushSound ==
  ASSUME SavingWaits, NEW v \in Vaults, CmdFlush(v)
  PROVE  Sound
<1>1. cmd[v] # None
  BY DEF CmdFlush, At
<1>2. saving' = saving \ {v} /\ [Next]_vars
  BY DEF CmdFlush, FinishSave, Next
<1>3. Goes(v, "reported") \/ Returned(v)
  BY DEF CmdFlush
<1>. QED BY <1>1, <1>2, <1>3, CmdAt, CmdNone, OneProcessWaits
         DEF Sound, SavingWaits, Points

LEMMA FinishSound ==
  ASSUME SavingWaits, NEW v \in Vaults, Finish(v)
  PROVE  Sound
<1>1. v \notin saving /\ cmd[v] # None
  BY NotSaving DEF Finish, At
<1>. QED BY <1>1, CmdNone, OneProcessWaits DEF Finish, Sound, SavingWaits, vars

LEMMA EndsSound ==
  ASSUME Safe, SavingWaits, NEW v \in Vaults, Ends(v)
  PROVE  Sound
<1>1. Returned(v)
  BY DEF Ends, Returned
<1>2. CASE ProcessEnds(v)
  <2>1. saving' = saving \ {v} /\ [Next]_vars
    BY <1>2 DEF ProcessEnds, Next
  <2>. QED BY <1>1, <2>1, CmdNone, OneProcessWaits DEF Sound, SavingWaits
<1>3. CASE state[v] = "UNINITIALIZED" /\ UNCHANGED vars
  <2>1. v \notin saving
    BY <1>3 DEF Safe, SavingUnlocked
  <2>. QED BY <1>1, <1>3, <2>1, CmdNone, OneProcessWaits DEF Sound, SavingWaits, vars
<1>. QED BY <1>2, <1>3 DEF Ends

LEMMA CliStepSound ==
  ASSUME Safe, SavingWaits, [CliNext]_allVars
  PROVE  Sound
<1>1. CASE UNCHANGED allVars
  BY <1>1 DEF allVars, cliVars, vars, Sound, SavingWaits
<1>2. CASE CliNext
  <2>1. PICK v \in Vaults :
          \/ \E op \in Ops : Begin(v, op)
          \/ EnsureOpen(v) \/ EnsureUnlocked(v)
          \/ CmdInit(v) \/ CmdLock(v) \/ CmdGet(v) \/ CmdAdd(v) \/ CmdUpdate(v)
          \/ CmdDelete(v) \/ CmdSave(v) \/ CmdFlush(v) \/ Finish(v) \/ Ends(v)
    BY <1>2 DEF CliNext
  <2>. QED BY <2>1, BeginSound, EnsureOpenSound, EnsureUnlockedSound, CmdInitSound,
      CmdLockSound, CmdGetSound, CmdAddSound, CmdUpdateSound, CmdDeleteSound,
      CmdSaveSound, CmdFlushSound, FinishSound, EndsSound
<1>. QED BY <1>1, <1>2

LEMMA CliInitSound == CliInit => Init /\ SavingWaits
  BY DEF CliInit, Init, SavingWaits

-----------------------------------------------------------------------------
\* Any number of passdoq processes, killed and restarted at will, use the file
\* as objects of Vault do: the commands of cli.cpp add no behaviour to it.
THEOREM CliUsesVault == CliSpec => Spec
<1>1. Safe /\ SavingWaits /\ [CliNext]_allVars => Safe' /\ SavingWaits' /\ [Next]_vars
  BY CliStepSound, StepSafe DEF Sound
<1>. QED BY <1>1, CliInitSound, InitSafe, PTL DEF CliSpec, Spec

\* In a calm environment no interleaving of commands leaves a file that cannot
\* be read back, or a process whose header is not that of the file.
THEOREM CliReadable ==
  ASSUME Calm
  PROVE  CliSpec => [](FileReadable /\ HeadersAgree)
BY CliUsesVault, VaultReadable

-----------------------------------------------------------------------------
\* The types of what the commands add to the vault.
CommandsTypeOK ==
  /\ cmd \in [Vaults -> Commands \cup {None}]
  /\ ran \in [Vaults -> 0 .. MaxCommands]
  /\ mayHold \in [Ids -> SUBSET Values]
  /\ atUnlock \in [Vaults -> [Ids -> SUBSET Values]]
  /\ cut \in BOOLEAN

\* A step that leaves mayHold and atUnlock alone.
LEMMA TypesKept ==
  ASSUME CommandsTypeOK, SavingWaits', UNCHANGED <<mayHold, atUnlock, cut>>,
         ran' \in [Vaults -> 0 .. MaxCommands]
  PROVE  CommandsTypeOK'
BY DEF CommandsTypeOK, SavingWaits

LEMMA EditsTyped ==
  ASSUME CommandsTypeOK, NEW v, NEW i, NEW x \in Values, Edits(v, i, x)
  PROVE  mayHold' \in [Ids -> SUBSET Values]
BY DEF CommandsTypeOK, Edits

LEMMA StepTyped ==
  ASSUME Safe, CommandsTypeOK, SavingWaits', NEW v \in Vaults,
         \/ \E op \in Ops : Begin(v, op)
         \/ EnsureOpen(v) \/ EnsureUnlocked(v)
         \/ CmdInit(v) \/ CmdLock(v) \/ CmdGet(v) \/ CmdAdd(v) \/ CmdUpdate(v)
         \/ CmdDelete(v) \/ CmdSave(v) \/ CmdFlush(v) \/ Finish(v) \/ Ends(v)
  PROVE  CommandsTypeOK'
<1>. MaxCommands \in Nat \ {0}
  BY CliAssumption
<1>1. CASE \E op \in Ops : Begin(v, op)
  <2>1. ran[v] + 1 \in 0 .. MaxCommands
    BY <1>1 DEF Begin, CommandsTypeOK
  <2>. QED BY <1>1, <2>1, TypesKept DEF Begin, CommandsTypeOK
<1>2. CASE EnsureUnlocked(v)
  <2>1. Found \in [Ids -> SUBSET Values]
    <3>1. \A i \in Ids : {file.entries[i]} \cap mayHold[i] \subseteq Values
      BY DEF CommandsTypeOK
    <3>. QED BY <3>1 DEF Found, Values
  <2>2. atUnlock' = atUnlock \/ atUnlock' = [atUnlock EXCEPT ![v] = Found]
    BY <1>2 DEF EnsureUnlocked
  <2>. QED BY <1>2, <2>1, <2>2 DEF EnsureUnlocked, CommandsTypeOK, SavingWaits
<1>3. CASE CmdInit(v)
  <2>1. mayHold' \in [Ids -> SUBSET Values]
    BY <1>3 DEF CmdInit, CommandsTypeOK, Values
  <2>. QED BY <1>3, <2>1 DEF CmdInit, CommandsTypeOK, SavingWaits
<1>4. CASE CmdAdd(v) \/ CmdUpdate(v) \/ CmdDelete(v)
  <2>1. \/ \E i \in Ids, x \in Values : Edits(v, i, x)
        \/ mayHold' = mayHold
    BY <1>4 DEF CmdAdd, CmdUpdate, CmdDelete, FreshIds, Values
  <2>2. UNCHANGED <<ran, atUnlock, cut>>
    BY <1>4 DEF CmdAdd, CmdUpdate, CmdDelete
  <2>. QED BY <2>1, <2>2, EditsTyped DEF CommandsTypeOK, SavingWaits
<1>5. CASE CmdFlush(v)
  <2>1. cmd[v] \in Commands
    BY <1>5 DEF CmdFlush, At, CommandsTypeOK
  <2>2. cmd[v].value \in Values
    BY <2>1 DEF Commands
  <2>3. mayHold' \in [Ids -> SUBSET Values]
    BY <1>5, <2>2 DEF CmdFlush, CommandsTypeOK, Values
  <2>. QED BY <1>5, <2>3 DEF CmdFlush, CommandsTypeOK, SavingWaits
<1>6. CASE Ends(v)
  <2>1. 0 \in 0 .. MaxCommands
    OBVIOUS
  <2>. QED BY <1>6, <2>1 DEF Ends, CommandsTypeOK, SavingWaits, Values
<1>. QED BY <1>1, <1>2, <1>3, <1>4, <1>5, <1>6, TypesKept
         DEF EnsureOpen, CmdLock, CmdGet, CmdSave, Finish, CommandsTypeOK

LEMMA CliTypesKept ==
  ASSUME Safe, CommandsTypeOK, SavingWaits', [CliNext]_allVars
  PROVE  CommandsTypeOK'
<1>1. CASE UNCHANGED allVars
  BY <1>1 DEF allVars, cliVars, CommandsTypeOK
<1>. QED BY <1>1, StepTyped DEF CliNext

CliInv == Safe /\ SavingWaits /\ CommandsTypeOK

LEMMA CliInvFirst == CliInit => CliInv
<1>. SUFFICES ASSUME CliInit PROVE CliInv
  OBVIOUS
<1>1. 0 \in 0 .. MaxCommands
  BY CliAssumption
<1>2. mayHold \in [Ids -> SUBSET Values]
  BY DEF CliInit, Values
<1>3. CommandsTypeOK
  BY <1>1, <1>2 DEF CliInit, CommandsTypeOK
<1>. QED BY <1>3, CliInitSound, InitSafe DEF CliInv

LEMMA CliInvKept == CliInv /\ [CliNext]_allVars => CliInv' /\ [Next]_vars
BY CliStepSound, StepSafe, CliTypesKept DEF Sound, CliInv

\* With any number of processes and commands every variable has its type.
THEOREM CliTyped == CliSpec => []CliTypeOK
<1>1. CliInv => CliTypeOK
  BY DEF CliInv, Safe, CommandsTypeOK, CliTypeOK
<1>. QED BY <1>1, CliInvFirst, CliInvKept, PTL DEF CliSpec

-----------------------------------------------------------------------------
\* One process writes, and the device takes what it is given: two writers overwrite
\* each other, and save() says true before the flush (vault.cpp:285).  Init may run
\* over a vault if its save can open the file; else the object is left unlocked and
\* empty, and the next command of the process writes it over the vault.
Sole == /\ ~DeviceFails
        /\ ~InitOver \/ ~OpenFails
        /\ \A v, w \in Writers : v = w

\* Only the writer is inside save(), and its file is torn only there, or because
\* it was killed there.
WriterSaves ==
  /\ saving \subseteq Writers
  /\ saving # {} => file = Torn
  /\ file = Torn => saving # {} \/ cut
  /\ \A w \in Writers : file = Torn /\ state[w] # "UNINITIALIZED" => w \in saving

\* The key of the writer opens the file: readers may have opened an older vault.
WriterFits ==
  /\ Whole => file.sealedBy = file.header.key
  /\ \A w \in Writers :
       /\ state[w] # "UNINITIALIZED" /\ Whole => header[w].key = file.sealedBy
       /\ state[w] = "UNLOCKED" => dataKey[w] = header[w].key

\* The file and the memory of the writer hold what users know they may.
AllHeld ==
  /\ \A w \in Writers : state[w] = "UNLOCKED" =>
       \A i \in Ids : entries[w][i] \in mayHold[i]
  /\ Whole => \A i \in Ids : file.entries[i] \in mayHold[i]
  /\ file = Absent => \A i \in Ids : None \in mayHold[i]

\* A command that may write runs in the writer, and between its edit and the end
\* of its save the memory holds the edit.
EditHeld == \A v \in Vaults : cmd[v] # None =>
  /\ cmd[v].op \in Writes \cup {"init"} => v \in Writers
  /\ cmd[v].op \in Writes /\ cmd[v].at \in {"save", "flush"} =>
       cmd[v].id \in Ids /\ entries[v][cmd[v].id] = cmd[v].value
  /\ cmd[v].op = "init" /\ cmd[v].at = "flush" => entries[v] = NoEntries

Held == WriterSaves /\ AllHeld /\ EditHeld

LEMMA GoesKeeps ==
  ASSUME CommandsTypeOK, NEW v \in Vaults, cmd[v] # None, NEW point \in Points, Goes(v, point)
  PROVE  /\ \A w \in Vaults \ {v} : cmd'[w] = cmd[w]
         /\ cmd'[v] # None
         /\ cmd'[v].op = cmd[v].op /\ cmd'[v].at = point
         /\ cmd'[v].id = cmd[v].id /\ cmd'[v].value = cmd[v].value
<1>1. cmd[v] \in Commands
  BY DEF CommandsTypeOK
<1>2. cmd'[v] = [cmd[v] EXCEPT !.at = point]
  BY DEF Goes, CommandsTypeOK
<1>. QED BY <1>1, <1>2, CmdAt DEF CommandsTypeOK, Commands

\* A step of v outside its edits and saves.
LEMMA OutsideEdits ==
  ASSUME EditHeld, NEW v \in Vaults,
         \A w \in Vaults \ {v} : cmd'[w] = cmd[w] /\ entries'[w] = entries[w],
         \/ cmd'[v] = None
         \/ /\ cmd'[v].op \in Writes \cup {"init"} => v \in Writers
            /\ cmd'[v].at \notin {"save", "flush"}
  PROVE  EditHeld'
BY DEF EditHeld

LEMMA ReturnedHeld ==
  ASSUME CommandsTypeOK, EditHeld, NEW v \in Vaults, Returned(v),
         \A w \in Vaults \ {v} : entries'[w] = entries[w]
  PROVE  EditHeld'
<1>1. cmd' \in [Vaults -> Commands \cup {None}]
      /\ (\A w \in Vaults \ {v} : cmd'[w] = cmd[w]) /\ cmd'[v] = None
  BY DEF Returned, CommandsTypeOK
<1>. QED BY <1>1 DEF EditHeld

LEMMA QuietHeld ==
  ASSUME Held, EditHeld', UNCHANGED <<file, state, entries, saving, mayHold, cut>>
  PROVE  Held'
BY DEF Held, WriterSaves, AllHeld, Whole

LEMMA BeginHeld ==
  ASSUME CliInv, Held, NEW v \in Vaults, NEW op \in Ops, Begin(v, op)
  PROVE  Held'
<1>1. cmd'[v] = [op |-> op, at |-> IF op \in {"init", "lock"} THEN "run" ELSE "open",
                 id |-> None, value |-> None]
  BY DEF Begin, CliInv, CommandsTypeOK
<1>2. \A w \in Vaults \ {v} : cmd'[w] = cmd[w] /\ entries'[w] = entries[w]
  BY DEF Begin, CliInv, CommandsTypeOK, vars
<1>3. op \in Writes \cup {"init"} => v \in Writers
  BY DEF Begin
<1>4. EditHeld'
  BY <1>1, <1>2, <1>3, OutsideEdits DEF Held
<1>. QED BY <1>4, QuietHeld DEF Begin, vars

LEMMA EnsureOpenHeld ==
  ASSUME CliInv, Held, NEW v \in Vaults, EnsureOpen(v)
  PROVE  Held'
<1>1. cmd[v] # None /\ v \notin saving
  BY NotSaving DEF EnsureOpen, At, CliInv
<1>2. /\ UNCHANGED <<file, saving, mayHold, cut>>
      /\ \A w \in Vaults \ {v} : entries'[w] = entries[w]
      /\ \/ UNCHANGED <<state, entries>>
         \/ state'[v] = "LOCKED" /\ Whole /\ \A w \in Vaults \ {v} : state'[w] = state[w]
  BY DEF EnsureOpen, Open, LoadFile, Returns, vars, CliInv, Safe, TypeOK
<1>3. EditHeld'
  <2>1. CASE Goes(v, "unlock")
    BY <1>1, <1>2, <2>1, GoesKeeps, OutsideEdits DEF CliInv, Held, EditHeld, Points
  <2>2. CASE Returned(v)
    BY <1>2, <2>2, ReturnedHeld DEF CliInv, Held
  <2>. QED BY <2>1, <2>2 DEF EnsureOpen
<1>4. CASE UNCHANGED <<state, entries>>
  BY <1>2, <1>3, <1>4, QuietHeld
<1>5. CASE state'[v] = "LOCKED" /\ Whole /\ \A w \in Vaults \ {v} : state'[w] = state[w]
  BY <1>2, <1>3, <1>5, CliAssumption DEF Held, WriterSaves, AllHeld, Whole
<1>. QED BY <1>2, <1>4, <1>5

\* What unlock() reads for the writer is what users know of the file.
LEMMA EnsureUnlockedHeld ==
  ASSUME CliInv, WriterFits, Held, NEW v \in Vaults, EnsureUnlocked(v)
  PROVE  Held'
<1>1. cmd[v] # None /\ v \notin saving
  BY NotSaving DEF EnsureUnlocked, At, CliInv
<1>2. UNCHANGED vars \/ \E p \in Passphrases : Unlock(v, p)
  BY DEF EnsureUnlocked
<1>3. /\ UNCHANGED <<file, saving, mayHold, cut>>
      /\ \A w \in Vaults \ {v} : entries'[w] = entries[w]
      /\ \/ UNCHANGED <<state, entries>>
         \/ /\ state[v] = "LOCKED" /\ state'[v] = "UNLOCKED"
            /\ LoadFile(v, header[v].key)
            /\ \A w \in Vaults \ {v} : state'[w] = state[w]
  BY <1>2 DEF EnsureUnlocked, Unlock, LoadFile, Returns, vars, CliInv, Safe, TypeOK
<1>4. EditHeld'
  <2>1. CASE Goes(v, "run")
    BY <1>1, <1>3, <2>1, GoesKeeps, OutsideEdits DEF CliInv, Held, EditHeld, Points
  <2>2. CASE Returned(v)
    BY <1>3, <2>2, ReturnedHeld DEF CliInv, Held
  <2>. QED BY <2>1, <2>2 DEF EnsureUnlocked
<1>5. CASE UNCHANGED <<state, entries>>
  BY <1>3, <1>4, <1>5, QuietHeld
<1>6. CASE /\ state[v] = "LOCKED" /\ state'[v] = "UNLOCKED"
           /\ LoadFile(v, header[v].key)
           /\ \A w \in Vaults \ {v} : state'[w] = state[w]
  <2>1. v \in Writers => \A i \in Ids : entries'[v][i] \in mayHold[i]
    <3>. SUFFICES ASSUME v \in Writers PROVE \A i \in Ids : entries'[v][i] \in mayHold[i]
      OBVIOUS
    <3>1. file # Torn
      BY <1>1, <1>6 DEF Held, WriterSaves
    <3>2. CASE Whole
      <4>1. header[v].key = file.sealedBy
        BY <1>6, <3>2 DEF WriterFits
      <4>2. header[v].key \in DataKeys
        BY <1>6 DEF CliInv, Safe, TypeOK, HeaderIfOpened, Headers
      <4>3. entries'[v] = file.entries
        BY <1>6, <3>2, <4>1, <4>2, NoneAssumption DEF LoadFile, CliInv, Safe, TypeOK
      <4>. QED BY <3>2, <4>3 DEF Held, AllHeld
    <3>3. CASE file = Absent
      <4>1. entries'[v] = NoEntries
        BY <1>6, <3>3 DEF LoadFile, Whole, CliInv, Safe, KeysIffUnlocked
      <4>. QED BY <3>3, <4>1 DEF Held, AllHeld, NoEntries
    <3>. QED BY <3>1, <3>2, <3>3 DEF Whole
  <2>. QED BY <1>3, <1>4, <1>6, <2>1, CliAssumption DEF Held, WriterSaves, AllHeld, Whole
<1>. QED BY <1>3, <1>5, <1>6

LEMMA CmdLockHeld ==
  ASSUME CliInv, Held, NEW v \in Vaults, CmdLock(v)
  PROVE  Held'
<1>1. /\ UNCHANGED <<file, saving, mayHold, cut>>
      /\ \A w \in Vaults \ {v} : entries'[w] = entries[w]
      /\ \/ UNCHANGED <<state, entries>>
         \/ /\ state[v] = "UNLOCKED" /\ state'[v] = "LOCKED"
            /\ \A w \in Vaults \ {v} : state'[w] = state[w]
  BY DEF CmdLock, Lock, Returns, CliInv, Safe, TypeOK
<1>2. EditHeld'
  BY <1>1, ReturnedHeld DEF CmdLock, CliInv, Held
<1>3. CASE UNCHANGED <<state, entries>>
  BY <1>1, <1>2, <1>3, QuietHeld
<1>. QED BY <1>1, <1>2, <1>3, CliAssumption DEF Held, WriterSaves, AllHeld, Whole

\* create() keeps nothing of what was there, and its user may know.
LEMMA CmdInitHeld ==
  ASSUME Sole, CliInv, Held, NEW v \in Vaults, CmdInit(v)
  PROVE  Held'
<1>1. cmd[v] # None /\ cmd[v].op = "init" /\ v \notin saving /\ v \in Writers
  BY NotSaving DEF CmdInit, At, CliInv, Held, EditHeld
<1>2. IF v \in saving' THEN Goes(v, "flush") ELSE Returned(v)
  BY <1>1 DEF CmdInit, vars
<1>3. /\ UNCHANGED entries
      /\ \/ UNCHANGED <<file, state, saving, mayHold, cut>>
         \/ /\ state[v] = "UNINITIALIZED" /\ state'[v] = "UNLOCKED"
            /\ \A w \in Vaults \ {v} : state'[w] = state[w]
            /\ \/ file = Absent /\ UNCHANGED <<file, saving, mayHold, cut>>
               \/ /\ file' = Torn /\ saving' = saving \cup {v}
                  /\ mayHold' = [i \in Ids |-> mayHold[i] \cup {None}]
  <2>. UNCHANGED cut
    BY DEF CmdInit
  <2>1. CASE UNCHANGED vars /\ UNCHANGED mayHold
    BY <2>1 DEF vars
  <2>2. CASE \E p \in Passphrases : Create(v, p)
    <3>1. v \in saving' => mayHold' = [i \in Ids |-> mayHold[i] \cup {None}]
      BY <1>1, <2>2 DEF CmdInit, vars
    <3>2. v \notin saving' => UNCHANGED mayHold
      BY <1>1, <2>2 DEF CmdInit, vars
    <3>. QED BY <1>1, <2>2, <3>1, <3>2 DEF Create, StartSave, Returns, Sole, CliInv, Safe, TypeOK
  <2>. QED BY <2>1, <2>2 DEF CmdInit
<1>4. state[v] = "UNINITIALIZED" => entries[v] = NoEntries
  BY DEF CliInv, Safe, KeysIffUnlocked
<1>5. EditHeld'
  <2>1. CASE v \in saving'
    BY <1>1, <1>2, <1>3, <1>4, <2>1, GoesKeeps DEF CliInv, Held, EditHeld, Points, Writes
  <2>2. CASE v \notin saving'
    BY <1>2, <1>3, <2>2, ReturnedHeld DEF CliInv, Held
  <2>. QED BY <2>1, <2>2
<1>6. CASE UNCHANGED <<file, state, saving, mayHold, cut>>
  BY <1>3, <1>5, <1>6, QuietHeld
<1>7. CASE /\ state[v] = "UNINITIALIZED" /\ state'[v] = "UNLOCKED"
           /\ \A w \in Vaults \ {v} : state'[w] = state[w]
           /\ \/ file = Absent /\ UNCHANGED <<file, saving, mayHold, cut>>
              \/ /\ file' = Torn /\ saving' = saving \cup {v}
                 /\ mayHold' = [i \in Ids |-> mayHold[i] \cup {None}]
  <2>1. \A i \in Ids : None \in mayHold'[i] /\ entries'[v][i] = None
    BY <1>3, <1>4, <1>7 DEF Held, AllHeld, NoEntries
  <2>2. WriterSaves'
    BY <1>1, <1>7, NoneAssumption, CliAssumption DEF Sole, Held, WriterSaves
  <2>3. AllHeld'
    BY <1>1, <1>7, <2>1, NoneAssumption DEF Sole, AllHeld, Whole
  <2>. QED BY <1>5, <2>2, <2>3 DEF Held
<1>. QED BY <1>3, <1>6, <1>7

LEMMA CmdGetHeld ==
  ASSUME CliInv, Held, NEW v \in Vaults, CmdGet(v)
  PROVE  Held'
<1>1. PICK i \in Ids : cmd' = [cmd EXCEPT ![v].at = "printed", ![v].id = i,
                                          ![v].value = entries[v][i]]
  BY DEF CmdGet
<1>2. UNCHANGED <<file, state, entries, saving, mayHold, cut>>
  BY DEF CmdGet, GetEntry, Throws, Returns
<1>3. cmd[v] \in Commands /\ cmd[v].op \in Reads
  BY DEF CmdGet, At, CliInv, CommandsTypeOK
<1>4. cmd'[v].op \in Reads /\ \A w \in Vaults \ {v} : cmd'[w] = cmd[w]
  BY <1>1, <1>3 DEF CliInv, CommandsTypeOK, Commands
<1>5. EditHeld'
  BY <1>2, <1>4 DEF Held, EditHeld, Reads, Writes
<1>. QED BY <1>2, <1>5, QuietHeld

\* What every edit does.
LEMMA EditsHeld ==
  ASSUME Sole, CliInv, Held, NEW v \in Vaults, cmd[v] # None, cmd[v].op \in Writes,
         NEW i \in Ids, NEW x, Edits(v, i, x), NEW op, Edit(v, i, x, op), UNCHANGED cut
  PROVE  Held'
<1>1. cmd[v] \in Commands /\ v \in Writers
  BY DEF CliInv, CommandsTypeOK, Held, EditHeld
<1>2. /\ cmd'[v].op \in Writes /\ cmd'[v].id = i /\ cmd'[v].value = x
      /\ \A w \in Vaults \ {v} : cmd'[w] = cmd[w]
  BY <1>1 DEF Edits, CliInv, CommandsTypeOK, Commands
<1>3. /\ UNCHANGED <<file, state, saving>>
      /\ entries'[v] = [entries[v] EXCEPT ![i] = x]
      /\ \A w \in Vaults \ {v} : entries'[w] = entries[w]
  BY DEF Edit, CliInv, Safe, TypeOK
<1>4. entries[v] \in Entries
  BY DEF CliInv, Safe, TypeOK
<1>5. entries'[v][i] = x /\ \A j \in Ids \ {i} : entries'[v][j] = entries[v][j]
  BY <1>3, <1>4 DEF Entries
<1>6. /\ \A j \in Ids : mayHold[j] \subseteq mayHold'[j]
      /\ x \in mayHold'[i]
  BY DEF Edits, CliInv, CommandsTypeOK
<1>7. EditHeld'
  BY <1>1, <1>2, <1>3, <1>5 DEF Held, EditHeld, Writes
<1>8. AllHeld'
  BY <1>1, <1>3, <1>5, <1>6 DEF Sole, Held, AllHeld, Whole
<1>. QED BY <1>3, <1>7, <1>8 DEF Held, WriterSaves

LEMMA CmdEditHeld ==
  ASSUME Sole, CliInv, Held, NEW v \in Vaults,
         CmdAdd(v) \/ CmdUpdate(v) \/ CmdDelete(v)
  PROVE  Held'
<1>1. cmd[v] # None /\ cmd[v].op \in Writes
  BY DEF CmdAdd, CmdUpdate, CmdDelete, At, Writes
<1>. UNCHANGED cut
  BY DEF CmdAdd, CmdUpdate, CmdDelete
<1>2. \/ \E i \in Ids, x \in Values, op \in Ops : Edit(v, i, x, op) /\ Edits(v, i, x)
      \/ UNCHANGED <<file, state, entries, saving, mayHold, cut>> /\ Returned(v)
  <2>1. CASE CmdAdd(v)
    BY <2>1 DEF CmdAdd, FreshIds, Values, Ops, Writes
  <2>2. CASE CmdUpdate(v)
    <3>1. PICK i \in Ids, x \in Secrets :
            /\ UpdateEntry(v, i, x)
            /\ IF Succeeds THEN Edits(v, i, x) ELSE Returned(v) /\ UNCHANGED mayHold
      BY <2>2 DEF CmdUpdate
    <3>. QED BY <3>1 DEF UpdateEntry, Throws, Returns, Edit, Tell, Succeeds, Values, Ops, Writes
  <2>3. CASE CmdDelete(v)
    BY <2>3 DEF CmdDelete, DeleteEntry, Throws, Returns, Edit, Tell, Succeeds, Values,
                Ops, Writes, vars
  <2>. QED BY <2>1, <2>2, <2>3
<1>3. CASE UNCHANGED <<file, state, entries, saving, mayHold, cut>> /\ Returned(v)
  BY <1>3, ReturnedHeld, QuietHeld DEF CliInv, Held
<1>. QED BY <1>1, <1>2, <1>3, EditsHeld

LEMMA CmdSaveHeld ==
  ASSUME Sole, CliInv, Held, NEW v \in Vaults, CmdSave(v)
  PROVE  Held'
<1>1. cmd[v] # None /\ cmd[v].op \in Writes /\ cmd[v].at = "save" /\ v \in Writers
  BY DEF CmdSave, At, Held, EditHeld
<1>2. IF v \in saving' THEN Goes(v, "flush") ELSE Returned(v)
  BY DEF CmdSave
<1>3. /\ UNCHANGED <<state, entries, mayHold, cut>>
      /\ \/ UNCHANGED <<file, saving>>
         \/ file' = Torn /\ saving' = saving \cup {v}
  BY DEF CmdSave, Save, StartSave, Returns
<1>4. EditHeld'
  <2>1. CASE v \in saving'
    BY <1>1, <1>2, <1>3, <2>1, GoesKeeps DEF CliInv, Held, EditHeld, Points, Writes
  <2>2. CASE v \notin saving'
    BY <1>2, <1>3, <2>2, ReturnedHeld DEF CliInv, Held
  <2>. QED BY <2>1, <2>2
<1>5. CASE UNCHANGED <<file, saving>>
  BY <1>3, <1>4, <1>5, QuietHeld
<1>6. CASE file' = Torn /\ saving' = saving \cup {v}
  <2>1. v \notin saving /\ file' # Absent /\ ~Whole'
    BY <1>1, <1>6, NotSaving, NoneAssumption DEF CliInv, Whole
  <2>2. \A w \in Writers : state[w] # "UNINITIALIZED" => w \in saving'
    BY <1>1, <1>6 DEF Sole
  <2>. QED BY <1>1, <1>3, <1>4, <1>6, <2>1, <2>2 DEF Held, WriterSaves, AllHeld
<1>. QED BY <1>3, <1>5, <1>6

\* The save reaches the disk: the file holds what the memory did, which is what
\* the command reports.
LEMMA CmdFlushHeld ==
  ASSUME Sole, CliInv, Held, NEW v \in Vaults, CmdFlush(v)
  PROVE  Held'
<1>1. /\ cmd[v] # None /\ cmd[v].at = "flush" /\ cmd[v].op \in Writes \cup {"init"}
      /\ v \in Writers /\ v \in saving
  BY DEF CmdFlush, At, FinishSave, Held, EditHeld
<1>2. /\ file' = Image(v) /\ Succeeds
      /\ saving' = saving \ {v}
      /\ UNCHANGED <<state, entries>>
  BY DEF CmdFlush, FinishSave, Tell, Succeeds, Sole
<1>3. state[v] = "UNLOCKED"
  BY <1>1 DEF CliInv, Safe, SavingUnlocked
<1>4. file' # Absent /\ file' # Torn
  BY <1>2, <1>3, NoneAssumption, ContentsAssumption
     DEF CliInv, Safe, TypeOK, KeysIffUnlocked, HeaderIfOpened, Image, Contents
<1>5. file'.entries = entries[v] /\ entries' = entries
  BY <1>2 DEF Image
<1>6. Goes(v, "reported")
  BY <1>2 DEF CmdFlush
<1>7. EditHeld'
  BY <1>1, <1>5, <1>6, GoesKeeps DEF CliInv, Held, EditHeld, Points
<1>8. \A i \in Ids : entries[v][i] \in mayHold'[i]
  <2>1. CASE cmd[v].op = "init"
    <3>1. mayHold' = [i \in Ids |-> {None}] /\ entries[v] = NoEntries
      BY <1>1, <1>2, <2>1 DEF CmdFlush, Held, EditHeld
    <3>. QED BY <3>1 DEF NoEntries
  <2>2. CASE cmd[v].op # "init"
    <3>1. mayHold' = [mayHold EXCEPT ![cmd[v].id] = {cmd[v].value}]
      BY <1>2, <2>2 DEF CmdFlush
    <3>2. cmd[v].id \in Ids /\ entries[v][cmd[v].id] = cmd[v].value
      BY <1>1, <2>2 DEF Held, EditHeld
    <3>3. \A i \in Ids : entries[v][i] \in mayHold[i]
      BY <1>1, <1>3 DEF Held, AllHeld
    <3>. QED BY <3>1, <3>2, <3>3 DEF CliInv, CommandsTypeOK
  <2>. QED BY <2>1, <2>2
<1>9. WriterSaves'
  BY <1>1, <1>2, <1>4 DEF Sole, Held, WriterSaves
<1>10. AllHeld'
  BY <1>1, <1>2, <1>4, <1>5, <1>8 DEF Sole, AllHeld
<1>. QED BY <1>7, <1>9, <1>10 DEF Held

LEMMA EndsHeld ==
  ASSUME Sole, CliInv, Held, NEW v \in Vaults, Ends(v)
  PROVE  Held'
<1>1. Returned(v) /\ mayHold' = mayHold
  BY DEF Ends, Returned
<1>2. CASE UNCHANGED vars /\ v \notin saving
  <2>1. UNCHANGED cut
    BY <1>2 DEF Ends, CliInv, CommandsTypeOK
  <2>. QED BY <1>1, <1>2, <2>1, ReturnedHeld, QuietHeld DEF CliInv, Held, vars
<1>3. CASE ProcessEnds(v)
  <2>1. /\ \A w \in Vaults \ {v} : entries'[w] = entries[w] /\ state'[w] = state[w]
        /\ state'[v] = "UNINITIALIZED" /\ saving' = saving \ {v}
        /\ file' = file
        /\ cut' = (cut \/ v \in saving)
    BY <1>3 DEF Ends, ProcessEnds, CliInv, Safe, TypeOK, Held, WriterSaves
  <2>2. EditHeld'
    BY <1>1, <2>1, ReturnedHeld DEF CliInv, Held
  <2>3. file' = Torn => saving' # {} \/ cut'
    BY <2>1 DEF Held, WriterSaves, CliInv, CommandsTypeOK
  <2>. QED BY <1>1, <2>1, <2>2, <2>3, CliAssumption DEF Held, WriterSaves, AllHeld, Whole
<1>. QED BY <1>2, <1>3 DEF Ends, CliInv, Safe, SavingUnlocked

\* A step of one process that leaves the file, or tears it.
LEMMA OneFits ==
  ASSUME WriterFits, NEW v \in Vaults,
         \A w \in Vaults \ {v} : state'[w] = state[w] /\ header'[w] = header[w] /\ dataKey'[w] = dataKey[w],
         file' \in {file, Torn},
         v \in Writers =>
           /\ state'[v] # "UNINITIALIZED" /\ Whole' => header'[v].key = file'.sealedBy
           /\ state'[v] = "UNLOCKED" => dataKey'[v] = header'[v].key
  PROVE  WriterFits'
BY CliAssumption DEF WriterFits, Whole

LEMMA OpenFits ==
  ASSUME CliInv, WriterFits, NEW v \in Vaults, EnsureOpen(v)
  PROVE  WriterFits'
<1>1. CASE UNCHANGED <<file, state, header, dataKey>>
  BY <1>1 DEF WriterFits, Whole
<1>2. CASE /\ Whole /\ LoadFile(v, None)
           /\ state' = [state EXCEPT ![v] = "LOCKED"]
           /\ UNCHANGED <<file, dataKey>>
  <2>1. header'[v] = file.header /\ state'[v] = "LOCKED"
    BY <1>2 DEF LoadFile, CliInv, Safe, TypeOK
  <2>2. \A w \in Vaults \ {v} : state'[w] = state[w] /\ header'[w] = header[w]
    BY <1>2 DEF LoadFile, CliInv, Safe, TypeOK
  <2>. QED BY <1>2, <2>1, <2>2, OneFits DEF WriterFits
<1>. QED BY <1>1, <1>2 DEF EnsureOpen, Open, Returns, vars

LEMMA UnlockFits ==
  ASSUME CliInv, WriterFits, NEW v \in Vaults, EnsureUnlocked(v)
  PROVE  WriterFits'
<1>1. CASE UNCHANGED <<file, state, header, dataKey>>
  BY <1>1 DEF WriterFits, Whole
<1>2. CASE /\ state[v] = "LOCKED"
           /\ dataKey' = [dataKey EXCEPT ![v] = header[v].key]
           /\ state' = [state EXCEPT ![v] = "UNLOCKED"]
           /\ LoadFile(v, header[v].key)
           /\ UNCHANGED file
  <2>1. /\ dataKey'[v] = header[v].key
        /\ header'[v] = IF Whole THEN file.header ELSE header[v]
    BY <1>2 DEF LoadFile, CliInv, Safe, TypeOK
  <2>2. \A w \in Vaults \ {v} :
          state'[w] = state[w] /\ header'[w] = header[w] /\ dataKey'[w] = dataKey[w]
    BY <1>2 DEF LoadFile, CliInv, Safe, TypeOK
  <2>. QED BY <1>2, <2>1, <2>2, OneFits DEF WriterFits, Whole
<1>. QED BY <1>1, <1>2 DEF EnsureUnlocked, Unlock, Returns, vars

LEMMA LockFits ==
  ASSUME CliInv, WriterFits, NEW v \in Vaults, CmdLock(v)
  PROVE  WriterFits'
<1>1. CASE UNCHANGED <<file, state, header, dataKey>>
  BY <1>1 DEF WriterFits, Whole
<1>2. CASE /\ state[v] = "UNLOCKED"
           /\ state' = [state EXCEPT ![v] = "LOCKED"]
           /\ dataKey' = [dataKey EXCEPT ![v] = None]
           /\ UNCHANGED <<file, header>>
  <2>1. state'[v] = "LOCKED"
    BY <1>2 DEF CliInv, Safe, TypeOK
  <2>2. \A w \in Vaults \ {v} : state'[w] = state[w] /\ dataKey'[w] = dataKey[w]
    BY <1>2 DEF CliInv, Safe, TypeOK
  <2>. QED BY <1>2, <2>1, <2>2, OneFits DEF WriterFits, Whole
<1>. QED BY <1>1, <1>2 DEF CmdLock, Lock, Returns

\* A new vault has a new key, and its save tears what was there.
LEMMA InitFits ==
  ASSUME Sole, CliInv, WriterFits, NEW v \in Vaults, CmdInit(v)
  PROVE  WriterFits'
<1>1. CASE UNCHANGED <<file, state, header, dataKey>>
  BY <1>1 DEF WriterFits, Whole
<1>2. ASSUME NEW p \in Passphrases, Create(v, p), state[v] = "UNINITIALIZED" PROVE WriterFits'
  <2>1. PICK s, k : /\ dataKey' = [dataKey EXCEPT ![v] = k]
                    /\ header' = [header EXCEPT ![v] =
                         [salt |-> s, by |-> DeriveMasterKey(p, s), key |-> k]]
    BY <1>2 DEF Create, Returns
  <2>2. dataKey'[v] = k /\ header'[v].key = k
    BY <2>1 DEF CliInv, Safe, TypeOK
  <2>3. file' = Torn \/ (file = Absent /\ file' = file)
    BY <1>2 DEF Create, StartSave, Sole, Returns
  <2>4. \A w \in Vaults \ {v} :
          state'[w] = state[w] /\ header'[w] = header[w] /\ dataKey'[w] = dataKey[w]
    BY <1>2, <2>1 DEF Create, Returns, CliInv, Safe, TypeOK
  <2>. QED BY <2>2, <2>3, <2>4, OneFits DEF Whole
<1>. QED BY <1>1, <1>2 DEF CmdInit, Create, Returns, vars

\* The file gets the header of the writer, and entries sealed by its key.
LEMMA FlushFits ==
  ASSUME Sole, CliInv, Held, WriterFits, NEW v \in Vaults, CmdFlush(v)
  PROVE  WriterFits'
<1>1. v \in Writers /\ state[v] = "UNLOCKED"
  BY DEF CmdFlush, FinishSave, CliInv, Safe, SavingUnlocked, Held, WriterSaves
<1>2. file' = Image(v) /\ UNCHANGED <<state, header, dataKey>>
  BY DEF CmdFlush, FinishSave, Sole
<1>3. dataKey[v] = header[v].key
  BY <1>1 DEF WriterFits
<1>. QED BY <1>1, <1>2, <1>3 DEF WriterFits, Image, Sole

LEMMA EndsFits ==
  ASSUME CliInv, WriterFits, NEW v \in Vaults, Ends(v)
  PROVE  WriterFits'
<1>1. CASE UNCHANGED vars
  BY <1>1 DEF vars, WriterFits, Whole
<1>2. CASE ProcessEnds(v)
  <2>1. state'[v] = "UNINITIALIZED" /\ file' \in {file, Torn}
    BY <1>2 DEF ProcessEnds, CliInv, Safe, TypeOK
  <2>2. \A w \in Vaults \ {v} :
          state'[w] = state[w] /\ header'[w] = header[w] /\ dataKey'[w] = dataKey[w]
    BY <1>2 DEF ProcessEnds, CliInv, Safe, TypeOK
  <2>. QED BY <2>1, <2>2, OneFits
<1>. QED BY <1>1, <1>2 DEF Ends

\* No other step changes keys or headers; a save may tear the file.
LEMMA OtherFits ==
  ASSUME WriterFits, UNCHANGED <<state, header, dataKey>>, file' \in {file, Torn}
  PROVE  WriterFits'
BY DEF WriterFits, Whole

LEMMA StepFits ==
  ASSUME Sole, CliInv, Held, WriterFits, [CliNext]_allVars
  PROVE  WriterFits'
<1>1. CASE UNCHANGED vars
  BY <1>1, OtherFits DEF vars
<1>2. CASE CliNext
  <2>1. PICK v \in Vaults :
          \/ \E op \in Ops : Begin(v, op)
          \/ EnsureOpen(v) \/ EnsureUnlocked(v)
          \/ CmdInit(v) \/ CmdLock(v) \/ CmdGet(v) \/ CmdAdd(v) \/ CmdUpdate(v)
          \/ CmdDelete(v) \/ CmdSave(v) \/ CmdFlush(v) \/ Finish(v) \/ Ends(v)
    BY <1>2 DEF CliNext
  <2>2. CASE (\E op \in Ops : Begin(v, op)) \/ Finish(v)
    BY <1>1, <2>2 DEF Begin, Finish
  <2>3. CASE CmdGet(v) \/ CmdAdd(v) \/ CmdUpdate(v) \/ CmdDelete(v)
    BY <2>3, OtherFits DEF CmdGet, GetEntry, CmdAdd, CmdUpdate, UpdateEntry, CmdDelete,
       DeleteEntry, Edit, Throws, Returns, vars
  <2>4. CASE CmdSave(v)
    BY <2>4, OtherFits DEF CmdSave, Save, StartSave, Returns
  <2>. QED BY <2>1, <2>2, <2>3, <2>4, OpenFits, UnlockFits, InitFits, LockFits, FlushFits, EndsFits
<1>. QED BY <1>1, <1>2 DEF allVars

LEMMA StepHeld ==
  ASSUME Sole, CliInv, WriterFits, Held, [CliNext]_allVars
  PROVE  Held'
<1>1. CASE UNCHANGED allVars
  BY <1>1, QuietHeld DEF allVars, cliVars, vars, Held, EditHeld
<1>2. CASE \E v \in Vaults : Finish(v)
  BY <1>2, ReturnedHeld, QuietHeld DEF Finish, CliInv, Held, vars
<1>3. CASE CliNext /\ ~ \E v \in Vaults : Finish(v)
  BY <1>3, BeginHeld, EnsureOpenHeld, EnsureUnlockedHeld, CmdInitHeld, CmdLockHeld,
     CmdGetHeld, CmdEditHeld, CmdSaveHeld, CmdFlushHeld, EndsHeld DEF CliNext
<1>. QED BY <1>1, <1>2, <1>3

LEMMA FirstHeld == CliInit => Held /\ WriterFits
BY NoneAssumption, CliAssumption
   DEF CliInit, Init, Held, WriterSaves, AllHeld, EditHeld, Whole, WriterFits

\* With one process that writes and any number that read, whatever command fails or
\* is killed: a whole file holds what the commands reported, and a file that is not
\* whole is being saved or was left so by a process killed inside save(), which is
\* the one way to lose what was reported (cli.cpp:108-295, vault.cpp:279).
THEOREM CliReportedIsStored ==
  ASSUME Sole
  PROVE  CliSpec => []ReportedIsStored
<1>1. CliInit => CliInv /\ WriterFits /\ Held
  BY CliInvFirst, FirstHeld
<1>2. CliInv /\ WriterFits /\ Held /\ [CliNext]_allVars => CliInv' /\ WriterFits' /\ Held'
  BY CliInvKept, StepFits, StepHeld
<1>3. Held => ReportedIsStored
  BY DEF Held, WriterSaves, AllHeld, Whole, ReportedIsStored
<1>. QED BY <1>1, <1>2, <1>3, PTL DEF CliSpec

-----------------------------------------------------------------------------
\* The memory of a process that only reads holds what its unlock() found.
ReadsHeld == \A v \in Vaults \ Writers :
  /\ state[v] = "UNLOCKED" => \A i \in Ids : entries[v][i] \in atUnlock[v][i]
  /\ At(v, Ops, "run") /\ cmd[v].op # "lock" => state[v] = "UNLOCKED"
  /\ At(v, Reads, "printed") => cmd[v].id \in Ids /\ cmd[v].value \in atUnlock[v][cmd[v].id]

\* A step of one process: the others stay as they were.
LEMMA OneReads ==
  ASSUME ReadsHeld, NEW v \in Vaults,
         \A w \in Vaults \ {v} :
           /\ cmd'[w] = cmd[w] /\ state'[w] = state[w]
           /\ entries'[w] = entries[w] /\ atUnlock'[w] = atUnlock[w],
         v \notin Writers =>
           /\ state'[v] = "UNLOCKED" => \A i \in Ids : entries'[v][i] \in atUnlock'[v][i]
           /\ cmd'[v] # None =>
                /\ cmd'[v].at = "run" /\ cmd'[v].op # "lock" => state'[v] = "UNLOCKED"
                /\ cmd'[v].op \in Reads /\ cmd'[v].at = "printed" =>
                     cmd'[v].id \in Ids /\ cmd'[v].value \in atUnlock'[v][cmd'[v].id]
  PROVE  ReadsHeld'
BY DEF ReadsHeld, At

\* A step of v touches the object of no other process.
LEMMA OthersAlone ==
  ASSUME CliInv, CliInv', NEW v \in Vaults,
         \/ \E op \in Ops : Begin(v, op)
         \/ EnsureOpen(v) \/ EnsureUnlocked(v)
         \/ CmdInit(v) \/ CmdLock(v) \/ CmdGet(v) \/ CmdAdd(v) \/ CmdUpdate(v)
         \/ CmdDelete(v) \/ CmdSave(v) \/ CmdFlush(v) \/ Finish(v) \/ Ends(v)
  PROVE  \A w \in Vaults \ {v} :
           /\ cmd'[w] = cmd[w] /\ state'[w] = state[w]
           /\ entries'[w] = entries[w] /\ atUnlock'[w] = atUnlock[w]
<1>1. /\ cmd \in [Vaults -> Commands \cup {None}]
      /\ atUnlock \in [Vaults -> [Ids -> SUBSET Values]]
      /\ state \in [Vaults -> States] /\ entries \in [Vaults -> Entries]
  BY DEF CliInv, CommandsTypeOK, Safe, TypeOK
<1>2. CASE \E op \in Ops : Begin(v, op)
  BY <1>1, <1>2 DEF Begin, vars
<1>3. CASE EnsureOpen(v)
  BY <1>1, <1>3 DEF EnsureOpen, Open, LoadFile, Returns, Goes, Returned, vars
<1>4. CASE EnsureUnlocked(v)
  BY <1>1, <1>4 DEF EnsureUnlocked, Unlock, LoadFile, Returns, Goes, Returned, vars
<1>5. CASE CmdInit(v)
  BY <1>1, <1>5 DEF CmdInit, Create, Returns, Goes, Returned, vars
<1>6. CASE CmdLock(v)
  BY <1>1, <1>6 DEF CmdLock, Lock, Returns, Goes, Returned, vars
<1>7. CASE CmdGet(v)
  BY <1>1, <1>7 DEF CmdGet, GetEntry, Throws, Returns
<1>8. CASE CmdAdd(v) \/ CmdUpdate(v) \/ CmdDelete(v)
  <2>1. /\ UNCHANGED <<state, atUnlock>>
        /\ \A w \in Vaults \ {v} : entries'[w] = entries[w]
    BY <1>1, <1>8 DEF CmdAdd, CmdUpdate, CmdDelete, UpdateEntry, DeleteEntry, Edit, Throws,
                      Returns, vars
  <2>2. \A w \in Vaults \ {v} : cmd'[w] = cmd[w]
    BY <1>1, <1>8 DEF CmdAdd, CmdUpdate, CmdDelete, Edits, Returned
  <2>. QED BY <2>1, <2>2
<1>9. CASE CmdSave(v) \/ CmdFlush(v) \/ Finish(v)
  BY <1>1, <1>9 DEF CmdSave, CmdFlush, Finish, Save, FinishSave, Returns, Goes, Returned, vars
<1>10. CASE Ends(v)
  BY <1>1, <1>10 DEF Ends, ProcessEnds, vars
<1>. QED BY <1>2, <1>3, <1>4, <1>5, <1>6, <1>7, <1>8, <1>9, <1>10

\* What unlock() reads for a reader is what users know the file may hold.
LEMMA UnlockReads ==
  ASSUME CliInv, Held, ReadsHeld, NEW v \in Vaults \ Writers, EnsureUnlocked(v)
  PROVE  state'[v] = "UNLOCKED" => \A i \in Ids : entries'[v][i] \in atUnlock'[v][i]
<1>1. /\ state \in [Vaults -> States] /\ entries \in [Vaults -> Entries]
      /\ atUnlock \in [Vaults -> [Ids -> SUBSET Values]]
  BY DEF CliInv, CommandsTypeOK, Safe, TypeOK
<1>2. CASE UNCHANGED <<state, entries>> /\ atUnlock' = atUnlock
  BY <1>2 DEF ReadsHeld
<1>3. CASE \E p \in Passphrases : Unlock(v, p) /\ state[v] # "LOCKED"
  <2>1. UNCHANGED <<state, entries>> /\ atUnlock' = atUnlock
    BY <1>3 DEF EnsureUnlocked, Unlock, Returns
  <2>. QED BY <1>2, <2>1
<1>4. ASSUME NEW p \in Passphrases, Unlock(v, p), state[v] = "LOCKED", state' # state
      PROVE  \A i \in Ids : entries'[v][i] \in atUnlock'[v][i]
  <2>1. /\ state' = [state EXCEPT ![v] = "UNLOCKED"]
        /\ LoadFile(v, header[v].key)
        /\ told'.result = LoadResult(header[v].key)
    BY <1>4 DEF Unlock, Returns, Tell
  <2>2. state'[v] = "UNLOCKED"
    BY <1>1, <2>1
  <2>3. atUnlock'[v] = Found
    BY <1>1, <1>4, <2>2 DEF EnsureUnlocked, States, vars
  <2>4. header[v].key # None
    BY <1>4, NoneAssumption DEF CliInv, Safe, TypeOK, HeaderIfOpened, Headers
  <2>5. CASE Succeeds
    <3>1. Whole /\ entries'[v] = file.entries
      BY <1>1, <2>1, <2>4, <2>5 DEF Succeeds, LoadResult, LoadFile
    <3>. QED BY <2>3, <2>5, <3>1 DEF Found, Held, AllHeld
  <2>6. CASE ~Succeeds
    <3>1. ~(Whole /\ header[v].key = file.sealedBy)
      BY <2>1, <2>6 DEF Succeeds, LoadResult
    <3>2. entries'[v] = NoEntries
      BY <1>1, <1>4, <2>1, <3>1 DEF LoadFile, CliInv, Safe, KeysIffUnlocked
    <3>. QED BY <2>3, <2>6, <3>2 DEF Found, NoEntries
  <2>. QED BY <2>5, <2>6
<1>5. CASE \E p \in Passphrases : Unlock(v, p) /\ state[v] = "LOCKED" /\ state' = state
  BY <1>1, <1>5 DEF Unlock
<1>. QED BY <1>2, <1>3, <1>4, <1>5 DEF EnsureUnlocked, vars

\* A step of a process that only reads.
LEMMA ReaderStep ==
  ASSUME CliInv, CliInv', Held, ReadsHeld, NEW v \in Vaults \ Writers,
         \/ \E op \in Ops : Begin(v, op)
         \/ EnsureOpen(v) \/ EnsureUnlocked(v)
         \/ CmdInit(v) \/ CmdLock(v) \/ CmdGet(v) \/ CmdAdd(v) \/ CmdUpdate(v)
         \/ CmdDelete(v) \/ CmdSave(v) \/ CmdFlush(v) \/ Finish(v) \/ Ends(v)
  PROVE  /\ state'[v] = "UNLOCKED" => \A i \in Ids : entries'[v][i] \in atUnlock'[v][i]
         /\ cmd'[v] # None =>
              /\ cmd'[v].at = "run" /\ cmd'[v].op # "lock" => state'[v] = "UNLOCKED"
              /\ cmd'[v].op \in Reads /\ cmd'[v].at = "printed" =>
                   cmd'[v].id \in Ids /\ cmd'[v].value \in atUnlock'[v][cmd'[v].id]
<1>1. /\ cmd \in [Vaults -> Commands \cup {None}]
      /\ atUnlock \in [Vaults -> [Ids -> SUBSET Values]]
      /\ state \in [Vaults -> States] /\ entries \in [Vaults -> Entries]
  BY DEF CliInv, CommandsTypeOK, Safe, TypeOK
<1>2. CASE \E op \in Ops : Begin(v, op)
  <2>1. PICK op \in Ops : Begin(v, op)
    BY <1>2
  <2>2. /\ cmd'[v].at \in {"open", "run"}
        /\ cmd'[v].at = "run" => cmd'[v].op = "lock"
        /\ UNCHANGED <<state, entries, atUnlock>>
    BY <1>1, <2>1, CliAssumption DEF Begin, vars
  <2>. QED BY <2>2 DEF ReadsHeld
<1>3. CASE EnsureOpen(v)
  <2>1. cmd[v] # None /\ UNCHANGED atUnlock
    BY <1>3 DEF EnsureOpen, At
  <2>2. state'[v] = "UNLOCKED" => state[v] = "UNLOCKED" /\ UNCHANGED entries
    BY <1>1, <1>3 DEF EnsureOpen, Open, Returns, vars
  <2>3. CASE Goes(v, "unlock")
    BY <2>1, <2>2, <2>3, GoesKeeps DEF CliInv, Points, ReadsHeld
  <2>4. CASE Returned(v)
    BY <1>1, <2>1, <2>2, <2>4 DEF Returned, ReadsHeld
  <2>. QED BY <1>3, <2>3, <2>4 DEF EnsureOpen
<1>4. CASE EnsureUnlocked(v)
  <2>1. cmd[v] # None
    BY <1>4 DEF EnsureUnlocked, At
  <2>2. state'[v] = "UNLOCKED" => \A i \in Ids : entries'[v][i] \in atUnlock'[v][i]
    BY <1>4, UnlockReads
  <2>3. CASE Returned(v)
    BY <1>1, <2>2, <2>3 DEF Returned
  <2>4. CASE Goes(v, "run") /\ (state[v] = "UNLOCKED" /\ UNCHANGED vars)
    BY <2>1, <2>2, <2>4, GoesKeeps DEF CliInv, Points, vars
  <2>5. CASE Goes(v, "run") /\ Succeeds /\ \E p \in Passphrases : Unlock(v, p)
    <3>1. state'[v] = "UNLOCKED"
      BY <1>1, <2>5 DEF Unlock, Returns, Tell, Succeeds
    <3>. QED BY <2>1, <2>2, <2>5, <3>1, GoesKeeps DEF CliInv, Points
  <2>. QED BY <1>4, <2>3, <2>4, <2>5 DEF EnsureUnlocked
<1>5. CASE CmdGet(v)
  <2>1. /\ cmd[v] # None /\ cmd[v] \in Commands /\ state[v] = "UNLOCKED"
        /\ UNCHANGED <<state, entries, atUnlock>>
        /\ \A i \in Ids : entries[v][i] \in atUnlock[v][i]
    BY <1>1, <1>5 DEF CmdGet, At, ReadsHeld, Reads, Ops, GetEntry, Throws, Returns
  <2>2. PICK i \in Ids : cmd' = [cmd EXCEPT ![v].at = "printed", ![v].id = i,
                                            ![v].value = entries[v][i]]
    BY <1>5 DEF CmdGet
  <2>3. cmd'[v] = [cmd[v] EXCEPT !.at = "printed", !.id = i, !.value = entries[v][i]]
    BY <1>1, <2>2
  <2>4. cmd'[v].at = "printed" /\ cmd'[v].id = i /\ cmd'[v].value = entries[v][i]
    BY <2>1, <2>3 DEF Commands
  <2>. QED BY <2>1, <2>4
<1>6. CASE CmdLock(v) \/ Finish(v)
  <2>1. cmd'[v] = None /\ UNCHANGED atUnlock
    BY <1>1, <1>6 DEF CmdLock, Finish, Returned
  <2>2. state'[v] = "UNLOCKED" => UNCHANGED <<state, entries>>
    BY <1>1, <1>6 DEF CmdLock, Finish, Lock, Returns, vars
  <2>. QED BY <2>1, <2>2 DEF ReadsHeld
<1>7. CASE CmdInit(v) \/ CmdAdd(v) \/ CmdUpdate(v) \/ CmdDelete(v) \/ CmdSave(v) \/ CmdFlush(v)
  BY <1>7 DEF CmdInit, CmdAdd, CmdUpdate, CmdDelete, CmdSave, CmdFlush, At, Writes, Held, EditHeld
<1>8. CASE Ends(v)
  <2>1. cmd'[v] = None /\ state'[v] # "UNLOCKED"
    BY <1>1, <1>8 DEF Ends, ProcessEnds, vars
  <2>. QED BY <2>1
<1>. QED BY <1>2, <1>3, <1>4, <1>5, <1>6, <1>7, <1>8

LEMMA StepReads ==
  ASSUME CliInv, CliInv', Held, ReadsHeld, [CliNext]_allVars
  PROVE  ReadsHeld'
<1>1. CASE UNCHANGED allVars
  BY <1>1 DEF allVars, cliVars, vars, ReadsHeld, At
<1>2. CASE CliNext
  <2>1. PICK v \in Vaults :
          \/ \E op \in Ops : Begin(v, op)
          \/ EnsureOpen(v) \/ EnsureUnlocked(v)
          \/ CmdInit(v) \/ CmdLock(v) \/ CmdGet(v) \/ CmdAdd(v) \/ CmdUpdate(v)
          \/ CmdDelete(v) \/ CmdSave(v) \/ CmdFlush(v) \/ Finish(v) \/ Ends(v)
    BY <1>2 DEF CliNext
  <2>2. \A w \in Vaults \ {v} :
           /\ cmd'[w] = cmd[w] /\ state'[w] = state[w]
           /\ entries'[w] = entries[w] /\ atUnlock'[w] = atUnlock[w]
    BY <2>1, OthersAlone
  <2>3. CASE v \in Writers
    BY <2>2, <2>3, OneReads
  <2>4. CASE v \notin Writers
    BY <2>1, <2>2, <2>4, ReaderStep, OneReads
  <2>. QED BY <2>3, <2>4
<1>. QED BY <1>1, <1>2

\* A reader of any number of commands prints what the file held when unlock() read
\* it, of what no command had replaced or deleted by then, whatever the writer does
\* in between; and nothing after an unlock that failed in load() (cli.cpp:157-195).
THEOREM CliGetPrintsStored ==
  ASSUME Sole
  PROVE  CliSpec => []GetPrintsStored
<1>1. CliInit => CliInv /\ WriterFits /\ Held /\ ReadsHeld
  BY CliInvFirst, FirstHeld DEF CliInit, Init, ReadsHeld, At
<1>2. CliInv /\ WriterFits /\ Held /\ ReadsHeld /\ [CliNext]_allVars
        => CliInv' /\ WriterFits' /\ Held' /\ ReadsHeld'
  BY CliInvKept, StepFits, StepHeld, StepReads
<1>3. ReadsHeld => GetPrintsStored
  BY DEF ReadsHeld, GetPrintsStored, At
<1>. QED BY <1>1, <1>2, <1>3, PTL DEF CliSpec

=============================================================================
