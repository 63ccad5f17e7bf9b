----------------------------- MODULE MCDaemon -----------------------------
(* Instances of Daemon for TLC: a daemon that exited, was killed or aborted *)
(* stays so, hence no deadlock check.                                       *)
EXTENDS Daemon
=============================================================================
