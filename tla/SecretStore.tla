---------------------------- MODULE SecretStore ----------------------------
(***************************************************************************)
(* What a vault promises the one process that uses it, without a word of   *)
(* keys, headers or files: a store of entries that belongs to a passphrase *)
(* and a session that is a private copy of it.  A session starts as the    *)
(* store, edits its copy, and puts all of it back at once; the store is    *)
(* lost only when it is being put back, and the device fails or the process*)
(* ends.                                                                   *)
(***************************************************************************)
CONSTANTS Passphrases, Ids, Secrets,
          None,     \* no entry
          Absent,   \* no store was ever created
          Lost,     \* the store is unreadable
          Closed    \* no session

VARIABLES store, view

Copies == [pass : Passphrases, entries : [Ids -> Secrets \cup {None}]]

Init == store = Absent /\ view = Closed

Create(p) ==
  /\ view = Closed
  /\ view' = [pass |-> p, entries |-> [i \in Ids |-> None]]
  /\ store' = view'

Unlock(p) ==
  /\ view = Closed
  /\ store \notin {Absent, Lost}
  /\ store.pass = p
  /\ view' = store
  /\ UNCHANGED store

\* A process that knew the store before it was lost can still open a session; it
\* finds the store empty.
UnlockLost(p) ==
  /\ view = Closed
  /\ store = Lost
  /\ view' = [pass |-> p, entries |-> [i \in Ids |-> None]]
  /\ UNCHANGED store

Edit(i, x) ==
  /\ view # Closed
  /\ view' = [view EXCEPT !.entries[i] = x]
  /\ UNCHANGED store

Reload ==
  /\ view # Closed
  /\ store \notin {Absent, Lost}
  /\ store.pass = view.pass
  /\ view' = store
  /\ UNCHANGED store

Commit == view # Closed /\ store' = view /\ UNCHANGED view

Close == view # Closed /\ view' = Closed /\ UNCHANGED store

\* Only a store that is being written, and so equals the session, can be lost.
Lose == view # Closed /\ store = view /\ store' = Lost /\ view' \in {view, Closed}

Next ==
  \/ \E p \in Passphrases : Create(p) \/ Unlock(p) \/ UnlockLost(p)
  \/ \E i \in Ids, x \in Secrets \cup {None} : Edit(i, x)
  \/ Reload \/ Commit \/ Close \/ Lose

Spec == Init /\ [][Next]_<<store, view>>

=============================================================================
