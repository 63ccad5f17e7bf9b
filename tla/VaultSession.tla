---------------------------- MODULE VaultSession ----------------------------
(***************************************************************************)
(* The vault of a single process implements SecretStore.  A save commits   *)
(* when it truncates the file: from there on the only copy of the entries  *)
(* is the one in memory, which FinishSave writes or the end of the process *)
(* loses.                                                                  *)
(***************************************************************************)
EXTENDS Vault

CONSTANT Closed

ASSUME SessionAssumption ==
  \A x \in {Closed, Absent, Torn} : x \notin [pass : Passphrases, entries : Entries]

TheVault == CHOOSE v \in Vaults : TRUE

Session == [pass |-> masterKey[TheVault].pass, entries |-> entries[TheVault]]

View == IF state[TheVault] = "UNLOCKED" THEN Session ELSE Closed

Store ==
  IF Whole THEN [pass |-> file.header.by.pass, entries |-> file.entries]
  ELSE IF TheVault \in saving THEN Session
  ELSE file

\* A single process sees the vault as a SecretStore: unlock() succeeds with
\* the passphrase of create() and no other, and gives back what was saved
\* last, whatever was rotated, locked, reloaded or killed in between.
StoreOfOneProcess ==
  INSTANCE SecretStore WITH store <- Store, view <- View, Lost <- Torn

ImplementsSecretStore == StoreOfOneProcess!Spec

=============================================================================
