------------------------------ MODULE MCVault ------------------------------
(* Instances of Vault for TLC.  Keys, salts, identifiers and secrets are     *)
(* told apart by equality only, so that their permutations are symmetries.   *)
EXTENDS VaultSession, TLC

Symmetry ==
  UNION {Permutations(S) : S \in {Salts, DataKeys, Ids, Secrets}}

=============================================================================
