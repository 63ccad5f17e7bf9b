-------------------------------- MODULE Cli --------------------------------
(***************************************************************************)
(* The commands of passdoq (src/src/cli.cpp).  A process owns one Vault    *)
(* object, runs one command after the other on it (CLI11 runs the callback *)
(* of every subcommand on the command line) and ends.  The steps of a      *)
(* command are the actions of Vault; the user answers prompts between      *)
(* them, so that anything another process does may fall in between.        *)
(*                                                                         *)
(* The code a callback returns is dropped (cli.cpp:62-98): a process goes  *)
(* on with its next command after one that failed.                         *)
(***************************************************************************)
EXTENDS Vault

CONSTANTS
  Writers,      \* the processes whose user runs init, add, update or delete
  MaxCommands   \* bound: commands one process runs

ASSUME CliAssumption ==
  /\ Writers \subseteq Vaults
  /\ MaxCommands \in Nat \ {0}

VARIABLES
  cmd,          \* the command each process runs
  ran,          \* commands it has begun
  mayHold,      \* what users know the file may hold for each identifier
  atUnlock,     \* what a process that only reads found when it unlocked
  cut           \* was a process killed inside the last save()?

cliVars == <<cmd, ran, mayHold, atUnlock, cut>>
allVars == <<vars, cliVars>>

-----------------------------------------------------------------------------
Values == Secrets \cup {None}
Reads == {"get"}                     \* and list and search, which print all
Writes == {"add", "update", "delete"}
Ops == {"init", "lock", "unlock"} \cup Reads \cup Writes
Points == {"open", "unlock", "run", "save", "flush", "printed", "reported"}

\* id and value: the entry a command writes or has printed.
Commands == [op : Ops, at : Points, id : Ids \cup {None}, value : Values]

ASSUME CommandAssumption == None \notin Commands

CliTypeOK ==
  /\ TypeOK
  /\ cmd \in [Vaults -> Commands \cup {None}]
  /\ ran \in [Vaults -> 0 .. MaxCommands]
  /\ mayHold \in [Ids -> SUBSET Values]
  /\ atUnlock \in [Vaults -> [Ids -> SUBSET Values]]
  /\ cut \in BOOLEAN

CliInit ==
  /\ Init
  /\ cmd = [v \in Vaults |-> None]
  /\ ran = [v \in Vaults |-> 0]
  /\ mayHold = [i \in Ids |-> {None}]
  /\ atUnlock = [v \in Vaults |-> mayHold]
  /\ cut = FALSE

At(v, ops, point) == cmd[v] # None /\ cmd[v].op \in ops /\ cmd[v].at = point
Goes(v, point) == cmd' = [cmd EXCEPT ![v].at = point]
Returned(v) == cmd' = [cmd EXCEPT ![v] = None]
Succeeds == told'.result = "true"

\* setup_commands: a callback begins.  init and lock do not open the vault.
Begin(v, op) ==
  /\ cmd[v] = None
  /\ ran[v] < MaxCommands
  /\ op \in Writes \cup {"init"} => v \in Writers
  /\ ran' = [ran EXCEPT ![v] = @ + 1]
  /\ cmd' = [cmd EXCEPT ![v] =
       [op |-> op, at |-> IF op \in {"init", "lock"} THEN "run" ELSE "open",
        id |-> None, value |-> None]]
  /\ UNCHANGED <<vars, mayHold, atUnlock, cut>>

\* ensure_vault_open
EnsureOpen(v) ==
  /\ At(v, Ops, "open")
  /\ IF state[v] = "UNINITIALIZED"
       THEN Open(v) /\ IF Succeeds THEN Goes(v, "unlock") ELSE Returned(v)
       ELSE UNCHANGED vars /\ Goes(v, "unlock")
  /\ UNCHANGED <<ran, mayHold, atUnlock, cut>>

\* What unlock() reads for a reader: the entries of the file, as far as users know
\* that it may hold them, and nothing when load() finds no whole file, or one of
\* another key.
Found == [i \in Ids |->
  IF Succeeds /\ Whole THEN {file.entries[i]} \cap mayHold[i] ELSE {None}]

\* ensure_vault_unlocked, after the user typed a passphrase; cmd_unlock always
\* asks for one.
EnsureUnlocked(v) ==
  /\ At(v, Ops, "unlock")
  /\ IF state[v] = "UNLOCKED" /\ cmd[v].op # "unlock"
       THEN UNCHANGED <<vars, atUnlock>> /\ Goes(v, "run")
       ELSE /\ \E p \in Passphrases : Unlock(v, p)
            /\ atUnlock' = IF v \notin Writers /\ state[v] = "LOCKED" /\ state'[v] = "UNLOCKED"
                            THEN [atUnlock EXCEPT ![v] = Found] ELSE atUnlock
            /\ IF Succeeds /\ cmd[v].op # "unlock" THEN Goes(v, "run") ELSE Returned(v)
  /\ UNCHANGED <<ran, mayHold, cut>>

CmdLock(v) ==
  /\ At(v, {"lock"}, "run")
  /\ Lock(v)
  /\ Returned(v)
  /\ UNCHANGED <<ran, mayHold, atUnlock, cut>>

\* cmd_init: create() saves the new vault on its own.
CmdInit(v) ==
  /\ At(v, {"init"}, "run")
  /\ \/ /\ UNCHANGED vars                       \* the passwords do not match
        /\ Returned(v)
        /\ UNCHANGED mayHold
     \/ /\ \E p \in Passphrases : Create(v, p)
        /\ IF v \in saving' THEN Goes(v, "flush") ELSE Returned(v)
        /\ mayHold' = IF v \in saving' THEN [i \in Ids |-> mayHold[i] \cup {None}]
                                       ELSE mayHold
  /\ UNCHANGED <<ran, atUnlock, cut>>

\* cmd_get, cmd_list and cmd_search print what the object holds.
CmdGet(v) ==
  /\ At(v, Reads, "run")
  /\ \E i \in Ids :
       /\ GetEntry(v, i)
       /\ cmd' = [cmd EXCEPT ![v].at = "printed", ![v].id = i,
                             ![v].value = entries[v][i]]
  /\ UNCHANGED <<ran, mayHold, atUnlock, cut>>

\* The entry is edited in memory; from here on a save may bring it to the file.
Edits(v, i, x) ==
  /\ cmd' = [cmd EXCEPT ![v].at = "save", ![v].id = i, ![v].value = x]
  /\ mayHold' = [mayHold EXCEPT ![i] = @ \cup {x}]

CmdAdd(v) ==
  /\ At(v, {"add"}, "run")
  /\ \E x \in Secrets, i \in FreshIds :
       state[v] = "UNLOCKED" /\ Edit(v, i, x, "add") /\ Edits(v, i, x)
  /\ UNCHANGED <<ran, atUnlock, cut>>

CmdUpdate(v) ==
  /\ At(v, {"update"}, "run")
  /\ \E i \in Ids, x \in Secrets :
       /\ UpdateEntry(v, i, x)
       /\ IF Succeeds THEN Edits(v, i, x) ELSE Returned(v) /\ UNCHANGED mayHold
  /\ UNCHANGED <<ran, atUnlock, cut>>

CmdDelete(v) ==
  /\ At(v, {"delete"}, "run")
  /\ \/ UNCHANGED <<vars, mayHold>> /\ Returned(v)           \* not confirmed
     \/ \E i \in Ids :
          /\ DeleteEntry(v, i)
          /\ IF Succeeds THEN Edits(v, i, None) ELSE Returned(v) /\ UNCHANGED mayHold
  /\ UNCHANGED <<ran, atUnlock, cut>>

\* Mutant: the command reports success without a save.
CmdSave_Skipped(v) ==
  /\ At(v, Writes, "save")
  /\ UNCHANGED vars
  /\ mayHold' = [mayHold EXCEPT ![cmd[v].id] = {cmd[v].value}]
  /\ Goes(v, "reported")
  /\ UNCHANGED <<ran, atUnlock, cut>>

CmdSave(v) ==
  /\ At(v, Writes, "save")
  /\ Save(v)
  /\ IF v \in saving' THEN Goes(v, "flush") ELSE Returned(v)
  /\ UNCHANGED <<ran, mayHold, atUnlock, cut>>

\* save() returns, and with it the command: it reports what it has done.
CmdFlush(v) ==
  /\ At(v, Writes \cup {"init"}, "flush")
  /\ FinishSave(v)
  /\ mayHold' =
       CASE ~Succeeds -> mayHold
         [] Succeeds /\ cmd[v].op = "init" -> [i \in Ids |-> {None}]
         [] OTHER -> [mayHold EXCEPT ![cmd[v].id] = {cmd[v].value}]
  /\ IF Succeeds THEN Goes(v, "reported") ELSE Returned(v)
  /\ cut' = IF Succeeds THEN FALSE ELSE cut
  /\ UNCHANGED <<ran, atUnlock>>

\* The callback returns after its last message.
Finish(v) ==
  /\ At(v, Ops, "printed") \/ At(v, Ops, "reported")
  /\ Returned(v)
  /\ UNCHANGED <<vars, ran, mayHold, atUnlock, cut>>

\* The process runs out of commands or is killed; its user starts another.
Ends(v) ==
  /\ IF state[v] # "UNINITIALIZED" THEN ProcessEnds(v)
     ELSE (cmd[v] # None \/ ran[v] > 0) /\ UNCHANGED vars
  /\ cmd' = [cmd EXCEPT ![v] = None]
  /\ ran' = [ran EXCEPT ![v] = 0]
  /\ atUnlock' = [atUnlock EXCEPT ![v] = [i \in Ids |-> {None}]]
  /\ cut' = (cut \/ v \in saving)
  /\ UNCHANGED mayHold

CliNext == \E v \in Vaults :
  \/ \E op \in Ops : Begin(v, op)
  \/ EnsureOpen(v) \/ EnsureUnlocked(v)
  \/ CmdInit(v) \/ CmdLock(v) \/ CmdGet(v) \/ CmdAdd(v) \/ CmdUpdate(v) \/ CmdDelete(v)
  \/ CmdSave(v) \/ CmdFlush(v) \/ Finish(v) \/ Ends(v)

CliSpec == CliInit /\ [][CliNext]_allVars

-----------------------------------------------------------------------------
\* What a command reported ("Entry added", "Entry updated successfully", "Entry
\* deleted successfully", cli.cpp:153, 258, 290) is what a whole file holds, and a
\* command that failed or was killed left the old value or the new one; save()
\* writes every entry back, so each command answers for all of them.  A file that
\* holds nothing of what was reported is being saved, or a process was killed in
\* that save, past the truncation (vault.cpp:279): such a kill loses every entry.
ReportedIsStored ==
  /\ Whole => \A i \in Ids : file.entries[i] \in mayHold[i]
  /\ ~Whole => saving # {} \/ cut \/ \A i \in Ids : None \in mayHold[i]

\* A get prints what the file held when unlock() read it, however long ago and
\* whatever was saved since: a value no later command had replaced or deleted by
\* then.  After an unlock that failed in load() and left the object unlocked
\* (vault.cpp:106-109), a get of the same process finds no entry at all, and never
\* one of an earlier session (cli.cpp:157-195).
GetPrintsStored ==
  \A v \in Vaults \ Writers :
    At(v, Reads, "printed") => cmd[v].value \in atUnlock[v][cmd[v].id]

=============================================================================
