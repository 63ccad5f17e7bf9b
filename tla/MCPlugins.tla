----------------------------- MODULE MCPlugins -----------------------------
(* Instances of Plugins for TLC: files f1 and f2 carry the same name, f4     *)
(* has no entry point, f3 may refuse.  At MaxUsers failed initialisations    *)
(* nothing more can be constructed, hence no deadlock check.                 *)
EXTENDS Plugins, TLC

CONSTANTS f1, f2, f3, f4, f5, n1, n2, n3, n4

FileNames == f1 :> n1 @@ f2 :> n1 @@ f3 :> n2 @@ f4 :> n3 @@ f5 :> n4

=============================================================================
