------------------------------- MODULE MCCli -------------------------------
(* Instances of Cli for TLC.  Identifiers, secrets, keys and salts are told  *)
(* apart by equality only.                                                   *)
EXTENDS Cli, TLC

Symmetry == UNION {Permutations(S) : S \in {Salts, DataKeys, Ids, Secrets}}

=============================================================================
