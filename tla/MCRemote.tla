------------------------------ MODULE MCRemote ------------------------------
(* Instances of RemoteVault for TLC.  Every call uses up at most one entry   *)
(* identifier, so MaxCalls of them never run out.  Identifiers are alike:    *)
(* which unused one add_entry gives out does not matter, and clients name    *)
(* those that were given out.                                                *)
EXTENDS RemoteVault, TLC

Pick(ids) == CHOOSE i \in ids : TRUE
Given == (Ids \ FreshIds) \cup deleting \cup {a[1] : a \in added}

NewIdsAlike ==
  doing = None /\ doing' # None /\ doing'.req.do.op = "add_entry" =>
    doing'.id \in {Pick(FreshIds), Pick(FreshIds \ Given)}

NamesGiven ==
  \A req \in requests' \ requests :
    req.do.op \in {"get_entry", "delete_entry"} => req.do.arg \in Given

=============================================================================
