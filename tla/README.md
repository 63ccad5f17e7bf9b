# Passdoq in TLA+

Passdoq is a password manager in C++: a vault file sealed with libsodium, a
command line that opens, edits and saves it, a daemon, an RPC server that serves
a vault, plugins, a configuration language, a full-text index, Lua scripts and
ways to deliver a secret. This directory holds a model of its core, the
configurations that check it with TLC, and theorems checked by TLAPS.

Line numbers are those of `src/` and `tests/` of the repository.

## 1. The system

| component | state it keeps | operations | hard behaviour |
|---|---|---|---|
| vault (`vault.cpp`) | `state_`, `header_`, `master_key_`, `data_key_`, `entries_`; the vault file | create, open, unlock, load, lock, add/update/delete/get, rekey, save | several processes on one file without a lock; a save that truncates first; failures half way through unlock and rekey |
| crypto (`crypto.cpp`) | none | key derivation, sealing, random keys | none of its own |
| memory (`memory.cpp`) | buffers, page locks, expiry | allocate, move, zero, lock, refresh | `munlock` works on pages; expiry against refresh |
| command line (`cli.cpp`) | one vault object per process | init, add, get, list, search, update, delete, lock, unlock, config | prompts between reading and writing; results of commands are dropped |
| daemon (`daemon.cpp`) | `running_`, `worker_thread_`, `instance_`, PID file | start, stop, destructor, worker loop, signal handler | the handler calls `stop()` on whatever thread it interrupts, at any statement |
| services (`services.cpp`) | map of services | register, unregister, start, stop, restart, start_all, stop_all | some services fail to start |
| RPC (`remote.cpp`) | server: bound vault; client: connection | unlock, lock, add, get, list, delete | broken connections, a server that dies, saves whose result is ignored |
| modules (`modules.cpp`) | list of modules, static `ltdl_initialized_`; libltdl's counts | construct, load, unload, destroy, hooks | every failure of load must release what it took; the flag is shared |
| runcom (`runcom.cpp`) | values, files loaded | load, preprocess, parse, defaults | includes, partial results of a failed parse |
| index and search (`indexing.cpp`, `search.cpp`) | a Xapian database, a reader's snapshot | add, remove, clear, search | stale readers, an index that differs from the vault |
| delivery (`delivery.cpp`) | the block of a `MemoryDelivery` | deliver, destroy | an allocation that throws after the old block was freed |
| lua (`lua.cpp`) | handlers | emit | sequential; an error stops later handlers |
| main, headers, libltdl, tests | | | glue, declarations, vendored code |

How they interact: every passdoq process owns a `Vault` object and shares the
file with the others; the RPC server calls one `Vault` object from its handlers;
a plugin's unlock hook may rotate the data key of the object it is given
(`examples/plugins/ephemeral_datakey.c`); the daemon starts and stops a registry
of services; configuration values come from files that include one another; an
index lives in a directory that several processes may open. Nothing in the repository connects the daemon with a vault beyond a
pointer, and no program calls the plugin hooks or the search index.

What makes each correct, in one line:

- vault: what was saved can be read back with the passphrase, whatever happened;
  keys and entries are in memory exactly while the vault is unlocked;
- command line: what a command reported is stored, what it printed was stored;
- RPC: the same for a client, plus every call returns;
- daemon: a signal stops it, `stop()` returns and leaves nothing behind, the PID
  file names the daemon that runs;
- modules: files are open exactly while listed, init and deinit are paired;
- runcom: every included file is read where its `#include` stands; what the grammar
  accepts loads; the last assignment that stores something counts; every call ends;
- index and search: a database holds what the calls that returned true made of it,
  and a reader finds what was confirmed before it was opened, and nothing else;
- memory and delivery: no secret goes back to the heap, every block has one owner,
  a buffer's page is locked as long as it lives and no longer.

## 2. Modules

| module | models | how |
|---|---|---|
| `Vault` | `vault.cpp`, and of `crypto.cpp` what it uses | any number of objects over one file |
| `SecretStore` | nothing: the promise | a store with private sessions |
| `VaultSession` | refinement of `SecretStore` by one `Vault` object | `INSTANCE SecretStore WITH store <- Store, view <- View` |
| `Cli` | `cli.cpp` | commands as sequences of `Vault` actions |
| `RemoteVault` | `remote.cpp` | handlers as sequences of `Vault` actions, clients |
| `Daemon` | `daemon.cpp`, the registry of `services.cpp` | two threads, a stack of `stop()` frames on each |
| `Plugins` | `modules.cpp`; libltdl is external | managers, handles, counts |
| `Config` | `runcom.cpp` | files, a stack of `preprocess()` frames, the parser over lines |
| `SearchIndex` | `indexing.cpp`, `search.cpp`; Xapian is external | writers, readers, one directory |
| `Buffers` | `memory.cpp`, `MemoryDelivery` of `delivery.cpp` | objects, blocks, pages |
| `VaultProofs`, `CliProofs`, `RemoteProofs`, `DaemonProofs`, `PluginsProofs`, `ConfigProofs`, `IndexProofs`, `BuffersProofs` | theorems | |
| `MC*` | instances for TLC | symmetry sets, plugin names, file contents, the page of each block |

An operator whose name ends in an underscore and a word, `Lock_KeepsDataKey`, is the
form a plausible bug would give the operator it is named after. No specification
uses it: putting it in place of that operator makes the property it belongs to fail.

### Vault

`file` is `Absent`, `Torn` or a record: the header in clear and the entries with
the key that seals them. The other variables are the members of the objects.
Encryption is symbolic: a header says which master key wraps which data key, and
opening a box compares keys. Random salts, keys and identifiers are taken from
those nobody uses. A secret stands for an entry without its identifier.

Each operation is an action with its early returns as disjuncts. Two things are
split, because the code has another process or a crash between them: a save
truncates the file when the stream is opened (`StartSave`) and the image reaches
the disk later (`FinishSave`). `ProcessEnds` is an exit or a kill; between the two
halves of a save it leaves what is on disk. `told` is what the last call said to
its caller; no action reads it.

The constants `Rekeying`, `InitOver`, `OpenFails` and `DeviceFails` choose the
environment: which processes rotate keys, whether `init` is run over a vault that
exists, whether a file may fail to open and whether a write may fail.

### Cli

`cmd[v]` is the command process `v` runs and the point it has reached: open,
unlock, run, save, flush. A process may run several commands, since the result
of a callback is dropped (`cli.cpp:62-98`). `mayHold[i]` is what users know the
file may hold for identifier `i`: an edit adds its value, and only a command that
reported success makes it the only one. `atUnlock` is what the file held, as far as
users know, when a reader's `unlock()` read it, and nothing when its `load()` failed;
`cut` says that a process was killed inside the last save. Users enter passphrases
and answers nondeterministically; the window while a prompt waits is the gap between
two actions.

### RemoteVault

rpclib is external: `requests` are those the server has not taken, `waiting` the
call each client blocks on. The server runs one handler at a time, in the thread
of `run()`; a handler that saves takes four steps (edit, `ServeSave`,
`ServeFlush`, `Reply`). `Break` is a connection that breaks: the client's call
throws and returns, the request may still be executed. `added`, `deleting` and
`deleted` record what clients were told and asked, `cut` that the server was killed
inside the last save. `running_` and `connected_`
guard nothing and are left out. `stop()` does not interrupt a handler.

### Daemon

One action per statement of `start()` and `stop()` that the other thread or a
handler can tell apart. `stack[d][t]` holds the calls of `stop()` on thread `t`,
innermost first: a signal pushes one above whatever the thread does. A signal is
blocked while its own handler runs, on that thread only, hence at most two
handler frames per thread. `std::terminate` (joining oneself, destroying or
overwriting a joinable thread) is `proc = "aborted"`. A service is up or down;
one that fails to stop is taken to be down.

The registry is `registered` (the map) and `up`. Its calls are one step each, made
by the main thread when it is idle; `restart_service` stops and then starts, which
may fail. `odd` is history: which of four things happened to a process that its
code does not handle, a signal inside `start()` ("early"), a signal on the worker
("worker"), a service that `start()` could not start ("failed") and a service
started by hand while the daemon did not run ("manual"). The properties hold
without condition where they can and name in `odd` the exact exception where the
code breaks them; no action reads `odd`.

### Plugins

`refs` and `users` are libltdl's counters. `load_module` is one step per outcome:
the process has one thread and nothing may come between its statements. The
descriptor's name decides whether a file is already loaded.

### Config

A file is a sequence of lines: blank, a comment, an include or an assignment. An
assignment is known by its shape, that is by what the rules of the grammar make of
its spelling: `10` is the boolean `1` and a rest, `[a, b]` the word `[a,` and a
rest. A path is a file and the number of detours in its spelling, because the code
compares spellings and an include that climbs out and back makes a longer one;
`MaxDetours` stands for `PATH_MAX`. `frames` is the recursion of `preprocess()`,
one line a step; `text` names the file and line each line came from; `next` is
where the parser has come to, one statement a step. `string` is `current_string`
of the parser and is modelled because an action that forgets to clear it would
carry it over. `sites` and `applied` are history: where the `#include` of each opened
file stood, by the lines that lead to it from the outermost file in, and the
assignments that stored something, by files and by the program. `StoredType` says
what an assignment stores: nothing if its string is empty, the string of its last
item if it spells a list.

### SearchIndex

`docs` is what is committed and counts how often each entry is there, since
`index_entry` of an entry that is there adds it again. `db[m]` is what a manager
would commit, so that a commit that throws may leave a change for the next one.
`clear()` is two steps (`Clear`, `ClearCreates`) and `rebuild_index` three, because
other processes reach the directory between them. `clear()` asks nobody: a manager
whose database is removed under it is one of the `orphans`, whose calls go on to
return true and reach no database.

A word is a record of what it is and whether it is spelled with a capital. The terms
of an entry are its words and tags in lower case, its tags as they are spelled, and
its identifier; `add_term` looks for a word as it is spelled, `parse_query` for a word
with a capital in lower case and for any other by its stem, which no entry has.
`Results` is the set of answers a search may give, at most `limit` documents. A reader
keeps the documents of the moment it was opened; after two later commits Xapian may
have reused the blocks (`age`), and a search may then find nothing. `doubt` and
`expected` are history: the identifiers of which a call has failed or was made to an
orphan, until they are updated or removed, and what the calls that returned true made of
the others; `seen` is what a reader was opened on, `confirmed` the entries expected then.

### Buffers

A cell is a block of the heap, on a page. `cell` is what each object points to,
`secret` the cells with a secret, `pinned` the locked pages: `mlock` and `munlock`
work on pages and count nothing, so that destroying a buffer unlocks its
neighbours. A `TimeLimitedBuffer` adds `locked` and `expired`; the clock is the
action `Expires`.

## 3. What TLC checks

| run | what | bounds |
|---|---|---|
| `vault_single` | types, `KeysIffUnlocked`, `FileReadable`; `ImplementsSecretStore`: unlock accepts the passphrase of create and no other and returns what was saved last | 1 object, 2 identifiers, 2 secrets, 2 passphrases, 3 keys and salts; rotation, init over a vault, writes that fail, a crash in a save |
| `vault_rekeyrace` | fails: a rotation in one process while another has the vault open makes the file unreadable | 2 objects, 1 rotates |
| `vault_tornunlock` | fails: an unlock that returned false left the object UNLOCKED | 2 objects |
| `cli_readers` | types, `ReportedIsStored`, `GetPrintsStored`, `HeadersAgree` | 1 writing and 1 reading process, two commands each and then the next process; 2 salts, files that fail to open |
| `remote_alone` | types, `AddedSurvives`, `AddedIsVisible`, `DeletedStaysDeleted`, `CallReturns` | 2 clients, 3 calls, 3 identifiers, crashes and broken connections |
| `daemon_all` | types, `StopWaitsForWorker`, `NeverAborts`, `NothingLeftBehind`, `PidFileNamesRunning`, `LateSignalStops`, `StopReturns` | 2 signals of two kinds to either thread at any statement, 2 services, one that fails |
| `daemon_earlysignal` | fails: a signal between the installation of the handlers and `running_ = true` is announced and lost | 1 signal |
| `plugins_one` | types, `OpenWhileListed`, `DeinitMatchesInit`, `NoStrayCall` | 2 managers one after the other, 5 files (two with one name, one broken, one that may refuse), 4 initialisations |
| `config_load` | types, `IncludedInPlace`, `LastStoredWins`, `AcceptsExactly`, `DefaultsTried`, `WindsDown`, `LoadReturns` | 3 files that include one another in cycles and diamonds, 11 shapes, all environments, 2 detours, 1 value set by the program |
| `index_search` | types, `IndexMatchesCalls`, `SearchFindsConfirmed` | 2 writers, 1 reader, 2 entries, 2 documents, 6 words, limits 1 and 2; kills, commits and directories that fail, clears under one another |
| `buffers_heap` | types, `FreedIsZero`, `OneOwner`, `LocksAreReturned`, `LockedHoldsNothing` | 2 plain buffers, 1 timed, 1 delivery, 3 blocks on 2 pages |
| `buffers_pages` | fails: the end of one buffer unlocks the page of another | the same, with locks that are never refused |

Why the bounds are enough.

- Two objects are the least that can disagree; three keys allow for a rotation while
  two are in use. Two identifiers show that a save writes back entries its command
  did not touch. Two salts are a vault and its replacement.
- Two signals, a SIGTERM and a SIGINT, with a call make the deepest stack of one
  thread, or interrupt both threads. That more of them on both threads break none of
  the invariants but `PidFileNamesRunning` is proved.
- A second call of an RPC client can come before or after the answer to the first,
  of either client. Three calls are an add, a delete of what it added, and one more that
  may undo the delete: another add, or an unlock after the server was started again.
  Identifiers are alike, so `remote_alone` gives out an unused one of its choice
  (`NewIdsAlike`) and clients name only those that were given out (`NamesGiven`).
- Two commands of a process show what an unlock that failed leaves to the next.
- Three files are the least with a cycle, a diamond and a leaf; two detours are
  two spellings of a path beside the plain one; the third is too long.
- Two documents are an entry that is there twice, or two entries; two
  writers the least that meet at the lock or clear each other's database away; the tag
  of one entry is a word of the other, so a query that mixed them up would show. A
  limit of 1 cuts results off.
- Three blocks on two pages give a neighbour on the same page, a page of one's own
  and a block that is freed and handed out again.

MaxSignals, MaxCalls, MaxCommands (commands per process, processes are not
bounded), MaxUsers, MaxDetours, MaxSets and MaxDocuments are the only counters,
and each is a guard.

The environments that pass are as wide as the code allows. Each failing run turns
one thing on: rotation next to a second process, a save next to an unlock, a signal
while `start()` runs, two buffers on a page. Further failures are known from the code.
Some follow from the same models when one constant is changed:

- `Writers = {v1, v2}` in `cli_readers`: two writing processes lose an update
  (`ReportedIsStored`; the file carries no lock and no version, `vault.cpp:284`);
- `OpenFails` in `vault_single`: a rotation whose save fails breaks `FileReadable` in
  one process (`vault.cpp:226-236`); in `remote_alone`: what the server answered is
  not on disk (`remote.cpp:85`);
- `DeviceFails` in `cli_readers`: a save reports success before its flush (`vault.cpp:285`);
- `Overlap`: one plugin manager closes libltdl under another (`modules.cpp:74`);
- `NewFails`: a delivery keeps a pointer to the block it has deleted (`delivery.cpp:75`).

Others are named by the properties that pass, as the exact exception they make:

- `ReportedIsStored` and `AddedSurvives`, by `cut`: a process killed inside a save, after
  the file was truncated (`vault.cpp:279`), takes every entry with it;
- `IndexMatchesCalls`, by `doubt`: `clear()` of one process removes the database another
  one has open, whose calls go on to return true (`indexing.cpp:135`);
- `SearchFindsConfirmed`, by the queries it speaks of: the parser looks for the stem of
  a word without a capital, and no stem is indexed, so `search("github")` finds nothing
  (`search.cpp:151`) and `search("GitHub")` does;
- `LastStoredWins`, by `StoredType`: `key = ""` stores nothing, so that the key keeps the
  value of an earlier assignment (`runcom.cpp:120`), and a list is stored as the string of
  its last item, since nothing sets `in_list` (`runcom.cpp:55`, `75-78`);
- `AcceptsExactly`, by `Accepted`: a comment takes its own end of line and the statement
  wants another one (`runcom.cpp:41`), so a file of assignments, one a line, is refused at
  the first, and the file that `tests/test_runcom.cpp:84-91` requires to load is not loaded;
- in `daemon_all`, by `odd`: without "early" in `StopWaitsForWorker`, a signal between
  `running_ = true` and the assignment of `worker_thread_` makes `stop()` skip the join;
  without "worker" in `NeverAborts`, a handler on the worker joins its own thread
  (`daemon.cpp:72`); without "failed" in `NothingLeftBehind`, a failed start leaves
  services and the PID file.

Deadlock is checked except where the system may stop: a daemon that exited, and
plugin managers at the bound of initialisations.

### Fairness

`Daemon`: weak fairness of each thread, `MainStep` and `WorkerStep`, as any
scheduler gives; no fairness of calls and signals, nobody has to make them.
`RemoteVault`: weak fairness of the handler thread (it sits in `server_->run()`)
and of a create that is being flushed. `Config`: weak fairness of `Goes`, the steps
inside a call of `load()` or `load_defaults()`: one thread that nothing blocks; no
fairness of the calls. The other modules state safety only.

## 4. What is proved

All theorems hold for any value of the constants, so for any number of objects,
passphrases, daemons, signals, files, entries and blocks, under the assumptions
in the modules (`None` is no key, no command, no value; `Absent` and `Torn` differ and
are no contents of a file).
Where a theorem assumes more, it is a constant of the environment and named here.

- `VaultSafe`, `VaultTyped`: `Spec => [](TypeOK /\ KeysIffUnlocked)` in every
  environment. The invariant `Safe` adds that an opened object has a header, without
  which unlock would read a field of nothing, and that only an unlocked object is
  inside `save()`.
- `VaultReadable`: `Calm => (Spec => [](FileReadable /\ HeadersAgree))`. `Calm` is one
  of two environments: nobody rotates or re-creates (any number of processes, any
  disk), or one process is alone and can always open the file (with rotation and
  re-creation). Neither can be dropped: `vault_rekeyrace` shows rotation next to
  a second process, and `vault_single` with `OpenFails = TRUE` breaks `FileReadable`
  too (the save of a rotation cannot open the file, `load()` restores the old header
  under the new key, and the next save writes the two together).
  `FileReadable` is not inductive: a save copies header and key of an object, so
  the invariant `InStep` says of every object that its header is well formed, that
  all opened objects hold the same one (the file may be torn between them), and that
  the keys of an unlocked object are those of its header.
- `VaultImplementsStore`: `Spec => ImplementsSecretStore`, the refinement of
  `vault_single`, for any passphrases, keys, entries and a device that may fail,
  assuming `OneProcess`: one object, whose file opens for writing (a save that cannot
  open the file leaves header and key apart, see above). Besides `Safe` and `InStep`
  the invariant needs `FileFollows`: the file is torn while it is being saved, so that
  the session then stands for the store, and there is a file once the object was
  created or opened. `SessionAssumption` keeps `Closed`, `Absent` and `Torn` apart from
  sessions. One lemma per call says which step of the store it is.
- `CliUsesVault`: `CliSpec => Spec`, every step of every command is a step of
  `Vault` or none. The invariant is `SavingWaits`: a process inside `save()` has a
  command that waits for the flush, so it makes no other call. `CliReadable` is the
  conclusion of `VaultReadable` for the command line, by the two.
- `CliTyped`: `CliSpec => []CliTypeOK`.
- `CliReportedIsStored`, assuming `Sole`: one process writes, any number read, the
  device takes what it is given, and `init` runs over a vault only if its save can
  open the file; otherwise the file may fail to open. Two writers overwrite each other
  and `save()` says true before the flush. An `init` whose save cannot open the file
  leaves the object UNLOCKED and empty (`vault.cpp:62-65`), and the next command of
  the process writes that over the vault: TLC finds it with `InitOver`, `OpenFails`
  and `MaxCommands = 2`. So no part can be dropped. `Rekeying` does not matter, no
  command rotates. What is left to lose is named in the property: `cut`, a process
  killed inside the last save. The invariant `Held` says that the file is torn only
  while the writer is inside `save()` or was killed there, that memory and file hold
  only what users know they may, and that between its edit and the end of its save the
  memory holds the edit; `WriterFits` that the key of the writer opens the file, while
  readers may still hold the key of a vault that `init` has replaced.
- `CliGetPrintsStored`, under the same assumption, for any number of commands: `ReadsHeld`
  follows a reader from its new object to what it prints, and says that its entries are
  those its last unlock found, none after one whose `load()` failed.
- `RemoteUsesVault`, `RemoteReadable`: the same for the server. The invariant says
  that a handler about to save has no save under way (`SaveNotBegun`).
- `RemoteTyped`: `RemoteSpec => []RemoteTypeOK`, in which `deleted \subseteq deleting`
  needs that a delete is asked for before the server sees it (`DeletesAsked`).
- `RemoteDeletedStays`, for any number of clients and requests, assuming that the file
  opens for writing; the device may fail and `init` may run over the vault. The
  invariant `Forgets` says that an entry whose delete was answered is neither in the
  file nor in the memory of an unlocked server, that a handler that deletes has the
  entry out of its memory and, at its answer, out of the file, and that the file is
  torn while the server is inside `save()`. A save that cannot open the
  file leaves the entry there and is answered all the same (`remote.cpp:131`).
- `RemoteAddedSurvives`, `RemoteAddedVisible`, assuming `Alone`: the server is the only
  object, can write its file, and nobody re-creates it. The handlers ignore what
  `save()` returns (`remote.cpp:85`), and an unlock after a torn write goes on without
  entries; TLC breaks both properties with each of `OpenFails`, `DeviceFails` and
  `InitOver`. The invariant `Kept` says that the file of an opened vault is torn
  exactly while it is being saved, any other torn file was left by a server killed
  there (`cut`), that a handler finds its edit in memory up to its
  answer and, at the answer, in the file, and that memory and file honour what
  clients were told.
- `DaemonTyped`, `DaemonJoins`, `DaemonNeverAborts`, `DaemonLeavesNothing`: the safety
  properties of `daemon_all` but `PidFileNamesRunning`, for any number of processes
  on one PID file, of services and of signals, with no assumption. None is inductive:
  a worker that outlives its stop comes from a handle that was not yet assigned, a
  handle from a call two frames down. The invariant speaks of `Points(d, t)`, the set
  of statements that the calls on a thread have reached, whatever their order: a
  joinable handle is one of a daemon that runs or of a call about to join it, a call
  past the test has cleared `running_`, a worker that lives has its handle or is
  being assigned (`Workers`, `Calls`), and a service or a PID file that is there
  belongs to a daemon that runs or to a call that has still to take it down (`Left`).
  That a set of statements is enough, and not the stacks, is what makes it provable
  for any number of nested handlers.
- `DaemonNamed`, assuming `Lone` (one daemon on the PID file; of two, the first to stop
  unlinks the file of the other). `Named` says why no call takes the file away: one
  past `clear` on the main thread has left `running_` clear, the calls that interrupt
  `start()` before it is set find it clear and return, and a call on the worker gets no
  further than the join unless a signal came early.
- `PluginsTyped`, `HooksPaired`: for any number of managers, side by side too. The
  invariant `Hooked` says that a file is listed by managers that live, under the name
  of its descriptor, and that its inits less its deinits are the number of places it
  is listed at.
- `OpenExactlyWhileListed`, `HooksInOpenFiles`, assuming `~Overlap`: at most one manager
  lives, as every user in the repository has it; of two, the first to end shuts
  libltdl down under the other (`modules.cpp:74`). `InStep` ties libltdl's counts to
  the lists: a listed file is open once, any other is closed.
- `ConfigTyped`, `LastStoredCounts`, `ConfigDefaultsTried`: for any
  files, any include graph and any sequence of calls. The invariant adds `Placed`: frames and text point
  into files that were read, and `current_string` is empty between statements, which
  is what makes the last assignment that stores something count. What `Past` returns is shown from
  well-foundedness of `<` on the naturals. `NoneAssumption` says that no type, tag or
  value is `None`. For `DefaultsTried` it also adds `Tried`: while `load_defaults()`
  runs, every default that exists was read or is still in its list.
- `ConfigAcceptsExactly`. `Accepted` speaks of the whole text, the parser only of what it
  has reached, so the invariant `Parsed` says that the lines before it are whole
  statements: every comment with its empty line, every assignment read to its end
  and with its comment. That `load()` then says true of nothing else follows; that it
  refuses nothing else needs the converse, that in an accepted text the statement is
  complete wherever the parser stands (`AcceptedCompletes`).
- `ConfigIncludedInPlace`. The place of a line is the sequence of the lines of the
  includes that lead to it and its own number, and places are ordered as a reader of
  the nested files meets them (`Before`). `Nested` says that the calls of `preprocess()`
  on the stack lie inside one another, each but the innermost just past the `#include`
  it waits for; `InPlace` that the lines a call has passed are in the text, that the text
  is in the order of its places, and that all of it lies before the place of every call
  on the stack.
- `ConfigWindsDown`, assuming finitely many files: every step of a call makes `Left`
  smaller, six numbers in lexicographic order, and `BelowEnds`: that order has no
  endless descent. It is the argument behind `LoadReturns`. What is missing for that,
  that a call which is not at its end can take a step and does, is ENABLED and fairness
  and stays with TLC.
- `BuffersTyped`, `LocksReturned`: whatever fails. The invariant `Locks`
  says besides that only an object that lives has a block: a lock is taken and
  returned by the `SecureBuffer`s alone, wherever a delivery may point. (Once a block is
  freed twice, a real heap promises nothing; that of the model may hand it out twice.)
- `BuffersWiped`, `BuffersOwned`, `LockedEmpty`, assuming `~NewFails`, which
  `delivery.cpp:75` shows cannot be dropped. They are inductive together: a block that
  is wiped when it is freed stays clean because nobody else owns it.
- `IndexTyped`, `IndexIsWhatCallsMade`, `SearchSound`: for any number of processes that
  clear the index under each other. The invariant says that of the managers whose
  database was not removed one at most has it open, that what it would commit, not
  only what is committed, agrees with the calls outside the identifiers in doubt (the
  next call, or `close()`, writes it), that nothing is expected of those, and that what a
  reader was opened on agrees with the calls of that time. `QueriesMatch` and `ResultsAre` say
  what the queries and a limited, perhaps outdated search give of it.

Only model-checked: liveness (`StopReturns`, `LateSignalStops`, `CallReturns`,
`LoadReturns`), which is beyond the prover. Every other property of the passing runs is
a theorem.

## 5. Not modelled, and why

- The wire format (msgpack), entry fields, time stamps: no property tells them apart.
- libsodium, rpclib, CLI11, PEGTL, Xapian, libltdl: external, taken by how they are used.
- An exception of `derive_master_key` when memory runs out leaves `unlock()` before
  anything is assigned, and is left out.
- `list_entries` and the searches of a vault read only.
- `daemonize()` is one step that may fail: its two forks leave one process.
- A handler that interrupts a call of the registry on the same thread walks a map that
  is being changed: undefined behaviour, so the calls are single steps. The order of
  `start_all` over services is not kept; `ServiceManager` holds functions that nothing
  sets.
- `SearchIndex`: the order of results, their fields, `suggest`, phrases and boolean
  queries; the metadata pair, which goes into a value slot that the query of
  `search.cpp:26` does not look at. Of Xapian: what the commit of an orphan may do to
  files of a database made since in the same directory, and a database half removed
  that can be neither opened nor created anew; the first is taken to leave the new
  database alone, the second to be a directory without a database.
- `Config`: spelling of keys and values beyond their shape. That nothing sets `in_list`
  is in `StoredType`; a filesystem call that throws is left out.
- Delivery to standard output, a file, a command: I/O. The clipboard is a stub.
- `SecureAllocator` is used by nothing; `lock_memory` and `unlock_memory` keep no state.
- lua, main, C headers: sequential glue or declarations. libltdl is vendored.
  `pssl.cpp` is empty.
- The session timeout, clipboard clearing, LMDBX storage and IPC the repository's
  README names have no code.

Two more differences between code and text, in places no property depends on: the
command line reads `vault.path` from the configuration (`cli.cpp:39`), a key no file can
set since an identifier has no dot; and the repository's `README.md:157` lists the
default files in another order than `get_default_paths` tries them.

## 6. Plan

1. Done: the modules and theorems above.
2. The descent of `ConfigWindsDown` for the other two liveness arguments: a call of
   `stop()` and the requests of the server.
3. Two servers, or a server and a command line, over one file.
