---------------------------- MODULE RemoteProofs ----------------------------
(***************************************************************************)
(* Behind the server the vault file is used as Vault says: every step of   *)
(* RemoteVault, whatever breaks or dies, is a step of Vault or none.       *)
(* Then what clients were told: of deletes, for a file that opens, and of  *)
(* adds, for a server that is alone with its file and can write it.        *)
(***************************************************************************)
EXTENDS RemoteVault, VaultProofs

USE DEF heard

\* Who asks to delete an id has put it into `deleting` before the server sees
\* the request, and the handler works on the id that was asked for.
DeletesAsked ==
  /\ \A req \in requests : req.do.op = "delete_entry" => req.do.arg \in deleting
  /\ doing # None /\ doing.req.do.op = "delete_entry" => doing.id \in deleting

\* A handler that is about to save has no save under way.
SaveNotBegun == doing # None /\ doing.at = "save" => Server \notin saving

RemoteInv == RemoteTypeOK /\ Safe /\ DeletesAsked /\ SaveNotBegun

\* What every step must do.
RemoteSound ==
  /\ [Next]_vars
  /\ RemoteTypeOK' /\ DeletesAsked' /\ SaveNotBegun'

\* The types of the variables of the protocol, without those of the vault.
ProtocolTypeOK ==
  /\ bound \in BOOLEAN
  /\ calls \in 0 .. MaxCalls
  /\ requests \subseteq Requests
  /\ doing \in [req : Requests, id : Ids, at : Steps] \cup {None}
  /\ waiting \in [Clients -> 0 .. MaxCalls]
  /\ added \subseteq Ids \X Secrets
  /\ deleting \subseteq Ids
  /\ deleted \subseteq deleting
  /\ cut \in BOOLEAN

LEMMA ServerCallIsStep ==
  ASSUME Server \notin saving, Call(Server)
  PROVE  [Next]_vars
BY RemoteAssumption DEF Next

LEMMA SoundIfProtocol ==
  ASSUME Safe, [Next]_vars, ProtocolTypeOK', DeletesAsked', SaveNotBegun'
  PROVE  RemoteSound
BY StepSafe DEF RemoteSound, RemoteTypeOK, ProtocolTypeOK, Safe

LEMMA AnsweredTyped ==
  ASSUME RemoteTypeOK, NEW req \in Requests, Answered(req)
  PROVE  waiting' \in [Clients -> 0 .. MaxCalls]
<1>1. waiting \in [Clients -> 0 .. MaxCalls] /\ 0 \in 0 .. MaxCalls
  BY RemoteAssumption DEF RemoteTypeOK
<1>2. req.from \in Clients
  BY DEF Requests
<1>3. (IF waiting[req.from] = req.call THEN 0 ELSE waiting[req.from]) \in 0 .. MaxCalls
  BY <1>1, <1>2
<1>. QED BY <1>1, <1>2, <1>3 DEF Answered

-----------------------------------------------------------------------------
LEMMA RequestSound ==
  ASSUME RemoteInv, NEW c \in Clients, NEW do \in Ops, Request(c, do)
  PROVE  RemoteSound
<1>. MaxCalls \in Nat
  BY RemoteAssumption
<1>1. UNCHANGED vars /\ UNCHANGED <<bound, doing, added, deleted, cut>>
  BY DEF Request
<1>2. calls + 1 \in 1 .. MaxCalls /\ calls' = calls + 1
  BY DEF Request, RemoteInv, RemoteTypeOK
<1>3. [from |-> c, call |-> calls + 1, do |-> do] \in Requests
  BY <1>2 DEF Requests
<1>4. do.op = "delete_entry" => do.arg \in Ids
  BY DEF Ops
<1>5. /\ deleting \subseteq deleting'
      /\ deleting' \subseteq Ids
      /\ do.op = "delete_entry" => do.arg \in deleting'
  BY <1>4 DEF Request, RemoteInv, RemoteTypeOK
<1>6. ProtocolTypeOK'
  BY <1>1, <1>2, <1>3, <1>5 DEF Request, RemoteInv, RemoteTypeOK, ProtocolTypeOK
<1>7. DeletesAsked'
  BY <1>1, <1>5 DEF Request, RemoteInv, DeletesAsked
<1>8. SaveNotBegun'
  BY <1>1 DEF RemoteInv, SaveNotBegun, vars
<1>. QED BY <1>1, <1>6, <1>7, <1>8, SoundIfProtocol DEF RemoteInv

LEMMA BreakSound ==
  ASSUME RemoteInv, NEW c \in Clients, Break(c)
  PROVE  RemoteSound
<1>. MaxCalls \in Nat
  BY RemoteAssumption
<1>1. UNCHANGED <<vars, bound, calls, requests, doing, heard, cut>>
  BY DEF Break
<1>2. ProtocolTypeOK'
  BY <1>1 DEF Break, RemoteInv, RemoteTypeOK, ProtocolTypeOK
<1>3. DeletesAsked' /\ SaveNotBegun'
  BY <1>1 DEF RemoteInv, DeletesAsked, SaveNotBegun, vars
<1>. QED BY <1>1, <1>2, <1>3, SoundIfProtocol DEF RemoteInv

LEMMA ServeQuicklySound ==
  ASSUME RemoteInv, NEW req \in requests, ServeQuickly(req)
  PROVE  RemoteSound
<1>1. req \in Requests
  BY DEF RemoteInv, RemoteTypeOK
<1>2. /\ Server \notin saving
      /\ requests' \subseteq requests
      /\ doing = None
      /\ UNCHANGED <<bound, calls, doing, heard, cut>>
      /\ Answered(req)
  BY DEF ServeQuickly, Takes
<1>3. ProtocolTypeOK' /\ DeletesAsked' /\ SaveNotBegun'
  BY <1>1, <1>2, AnsweredTyped
     DEF RemoteInv, RemoteTypeOK, ProtocolTypeOK, DeletesAsked, SaveNotBegun
<1>4. UNCHANGED vars \/ Call(Server)
  <2>1. req.do \in Ops
    BY <1>1 DEF Requests
  <2>2. CASE Takes(req, "unlock") /\ Unlock(Server, req.do.arg)
    <3>1. req.do.arg \in Passphrases
      BY <2>1, <2>2 DEF Takes, Ops
    <3>. QED BY <2>2, <3>1 DEF Call
  <2>3. CASE Takes(req, "lock") /\ Lock(Server)
    BY <2>3 DEF Call
  <2>4. CASE Takes(req, "get_entry") /\ GetEntry(Server, req.do.arg)
    <3>1. req.do.arg \in Ids
      BY <2>1, <2>4 DEF Takes, Ops
    <3>. QED BY <2>4, <3>1 DEF Call
  <2>5. CASE Takes(req, "delete_entry") /\ DeleteEntry(Server, req.do.arg)
    <3>1. req.do.arg \in Ids
      BY <2>1, <2>5 DEF Takes, Ops
    <3>. QED BY <2>5, <3>1 DEF Call
  <2>. QED BY <2>2, <2>3, <2>4, <2>5 DEF ServeQuickly
<1>. QED BY <1>2, <1>3, <1>4, ServerCallIsStep, SoundIfProtocol DEF RemoteInv

\* add_entry and delete_entry up to their save.
LEMMA BegunSound ==
  ASSUME RemoteInv, NEW req \in requests, NEW op, Takes(req, op),
         NEW i \in Ids, doing' = [req |-> req, id |-> i, at |-> "save"],
         op = "delete_entry" => i = req.do.arg,
         UNCHANGED <<saving, waiting, added, deleted>>,
         Call(Server)
  PROVE  RemoteSound
<1>1. req \in Requests /\ req.do.op = op
  BY DEF RemoteInv, RemoteTypeOK, Takes
<1>2. /\ Server \notin saving
      /\ requests' \subseteq requests
      /\ UNCHANGED <<bound, calls, deleting, cut>>
  BY DEF Takes
<1>3. doing' \in [req : Requests, id : Ids, at : Steps]
  BY <1>1 DEF Steps
<1>4. ProtocolTypeOK'
  BY <1>2, <1>3 DEF RemoteInv, RemoteTypeOK, ProtocolTypeOK
<1>5. DeletesAsked'
  BY <1>1, <1>2 DEF RemoteInv, DeletesAsked
<1>6. SaveNotBegun'
  BY <1>2 DEF SaveNotBegun
<1>. QED BY <1>2, <1>4, <1>5, <1>6, ServerCallIsStep, SoundIfProtocol DEF RemoteInv

LEMMA ServeAddSound ==
  ASSUME RemoteInv, NEW req \in requests, ServeAdd(req)
  PROVE  RemoteSound
<1>1. PICK i \in FreshIds :
        /\ Edit(Server, i, req.do.arg, "add")
        /\ doing' = [req |-> req, id |-> i, at |-> "save"]
  BY DEF ServeAdd
<1>2. req.do \in Ops /\ req.do.op = "add_entry" /\ Takes(req, "add_entry")
  BY DEF ServeAdd, Takes, RemoteInv, RemoteTypeOK, Requests
<1>3. req.do.arg \in Secrets
  BY <1>2 DEF Ops
<1>4. AddEntry(Server, req.do.arg)
  BY <1>1 DEF ServeAdd, AddEntry
<1>5. i \in Ids
  BY DEF FreshIds
<1>6. UNCHANGED <<saving, waiting, added, deleted>>
  BY <1>1 DEF Edit, ServeAdd
<1>. QED BY <1>1, <1>2, <1>3, <1>4, <1>5, <1>6, BegunSound DEF Call

LEMMA ServeDeleteSound ==
  ASSUME RemoteInv, NEW req \in requests, ServeDelete(req)
  PROVE  RemoteSound
<1>1. req.do \in Ops /\ req.do.op = "delete_entry" /\ Takes(req, "delete_entry")
  BY DEF ServeDelete, Takes, RemoteInv, RemoteTypeOK, Requests
<1>2. req.do.arg \in Ids
  BY <1>1 DEF Ops
<1>3. UNCHANGED <<saving, waiting, added, deleted>>
  BY DEF ServeDelete, DeleteEntry, Throws, Returns, Edit
<1>. QED BY <1>1, <1>2, <1>3, BegunSound DEF ServeDelete, Call

\* A step of the handler that has begun.
LEMMA GoesOn ==
  ASSUME RemoteInv, doing # None, NEW point \in Steps \ {"save"},
         doing' = [doing EXCEPT !.at = point],
         UNCHANGED <<bound, calls, requests, waiting, heard>>, cut' \in BOOLEAN
  PROVE  ProtocolTypeOK' /\ DeletesAsked' /\ SaveNotBegun'
<1>1. doing \in [req : Requests, id : Ids, at : Steps]
  BY DEF RemoteInv, RemoteTypeOK
<1>2. /\ doing' \in [req : Requests, id : Ids, at : Steps]
      /\ doing'.at # "save"
      /\ doing'.req = doing.req /\ doing'.id = doing.id
  BY <1>1
<1>. QED BY <1>2 DEF RemoteInv, RemoteTypeOK, ProtocolTypeOK, DeletesAsked, SaveNotBegun

LEMMA ServeSaveSound ==
  ASSUME RemoteInv, ServeSave
  PROVE  RemoteSound
<1>1. Server \notin saving
  BY DEF ServeSave, RemoteInv, SaveNotBegun
<1>2. [Next]_vars
  BY <1>1, ServerCallIsStep DEF ServeSave, Call
<1>3. ProtocolTypeOK' /\ DeletesAsked' /\ SaveNotBegun'
  BY GoesOn DEF ServeSave, Steps, RemoteInv, RemoteTypeOK
<1>. QED BY <1>2, <1>3, SoundIfProtocol DEF RemoteInv

LEMMA ServeFlushSound ==
  ASSUME RemoteInv, ServeFlush
  PROVE  RemoteSound
<1>1. [Next]_vars
  BY RemoteAssumption DEF ServeFlush, Next
<1>2. ProtocolTypeOK' /\ DeletesAsked' /\ SaveNotBegun'
  BY GoesOn DEF ServeFlush, Steps
<1>. QED BY <1>1, <1>2, SoundIfProtocol DEF RemoteInv

LEMMA ReplySound ==
  ASSUME RemoteInv, Reply
  PROVE  RemoteSound
<1>1. doing \in [req : Requests, id : Ids, at : Steps]
  BY DEF Reply, RemoteInv, RemoteTypeOK
<1>2. /\ Answered(doing.req)
      /\ doing' = None
      /\ UNCHANGED <<vars, bound, calls, requests, deleting, cut>>
  BY DEF Reply
<1>3. waiting' \in [Clients -> 0 .. MaxCalls]
  BY <1>1, <1>2, AnsweredTyped DEF RemoteInv
<1>4. added' \subseteq Ids \X Secrets
  <2>1. CASE doing.req.do.op = "add_entry"
    <3>1. doing.req.do \in Ops
      BY <1>1 DEF Requests
    <3>2. doing.req.do.arg \in Secrets
      BY <2>1, <3>1 DEF Ops
    <3>. QED BY <1>1, <3>2 DEF Reply, RemoteInv, RemoteTypeOK
  <2>2. CASE doing.req.do.op # "add_entry"
    BY <2>2 DEF Reply, RemoteInv, RemoteTypeOK
  <2>. QED BY <2>1, <2>2
<1>5. deleted' \subseteq deleting'
  BY <1>2 DEF Reply, RemoteInv, RemoteTypeOK, DeletesAsked
<1>6. ProtocolTypeOK'
  BY <1>2, <1>3, <1>4, <1>5 DEF RemoteInv, RemoteTypeOK, ProtocolTypeOK
<1>7. DeletesAsked' /\ SaveNotBegun'
  BY <1>2 DEF RemoteInv, DeletesAsked, SaveNotBegun
<1>. QED BY <1>2, <1>6, <1>7, SoundIfProtocol DEF RemoteInv

LEMMA HostSound ==
  ASSUME RemoteInv, Host
  PROVE  RemoteSound
<1>1. CASE bound' = TRUE
          /\ UNCHANGED <<vars, calls, requests, doing, waiting, heard, cut>>
  <2>1. ProtocolTypeOK'
    BY <1>1 DEF RemoteInv, RemoteTypeOK, ProtocolTypeOK
  <2>2. DeletesAsked' /\ SaveNotBegun'
    BY <1>1 DEF RemoteInv, DeletesAsked, SaveNotBegun, vars
  <2>. QED BY <1>1, <2>1, <2>2, SoundIfProtocol DEF RemoteInv
<1>2. CASE /\ doing = None /\ Server \notin saving
           /\ Open(Server) \/ \E p \in Passphrases : Create(Server, p)
           /\ UNCHANGED remoteVars
  <2>1. [Next]_vars
    BY <1>2, ServerCallIsStep DEF Call
  <2>2. ProtocolTypeOK' /\ DeletesAsked' /\ SaveNotBegun'
    BY <1>2 DEF remoteVars, RemoteInv, RemoteTypeOK, ProtocolTypeOK,
                DeletesAsked, SaveNotBegun
  <2>. QED BY <2>1, <2>2, SoundIfProtocol DEF RemoteInv
<1>. QED BY <1>1, <1>2 DEF Host

LEMMA HostFlushSound ==
  ASSUME RemoteInv, HostFlush
  PROVE  RemoteSound
<1>1. [Next]_vars
  BY RemoteAssumption DEF HostFlush, Next
<1>2. ProtocolTypeOK' /\ DeletesAsked' /\ SaveNotBegun'
  BY DEF HostFlush, remoteVars, RemoteInv, RemoteTypeOK, ProtocolTypeOK,
         DeletesAsked, SaveNotBegun
<1>. QED BY <1>1, <1>2, SoundIfProtocol DEF RemoteInv

LEMMA ServerDiesSound ==
  ASSUME RemoteInv, ServerDies
  PROVE  RemoteSound
<1>. MaxCalls \in Nat
  BY RemoteAssumption
<1>1. [Next]_vars
  BY RemoteAssumption DEF ServerDies, Next
<1>2. 0 \in 0 .. MaxCalls
  OBVIOUS
<1>3. waiting' \in [Clients -> 0 .. MaxCalls]
  BY <1>2 DEF ServerDies
<1>4. ProtocolTypeOK'
  BY <1>3 DEF ServerDies, RemoteInv, RemoteTypeOK, ProtocolTypeOK
<1>5. DeletesAsked' /\ SaveNotBegun'
  BY DEF ServerDies, DeletesAsked, SaveNotBegun
<1>. QED BY <1>1, <1>4, <1>5, SoundIfProtocol DEF RemoteInv

LEMMA RemoteStepSound ==
  ASSUME RemoteInv, [RemoteNext]_allVars
  PROVE  RemoteSound
<1>1. CASE UNCHANGED allVars
  <2>1. UNCHANGED vars
    BY <1>1 DEF allVars
  <2>2. ProtocolTypeOK' /\ DeletesAsked' /\ SaveNotBegun'
    BY <1>1 DEF allVars, remoteVars, vars, RemoteInv, RemoteTypeOK, ProtocolTypeOK,
                DeletesAsked, SaveNotBegun
  <2>. QED BY <2>1, <2>2, SoundIfProtocol DEF RemoteInv
<1>2. CASE RemoteNext
  BY <1>2, RequestSound, BreakSound, ServeQuicklySound, ServeAddSound,
     ServeDeleteSound, ServeSaveSound, ServeFlushSound, ReplySound, HostSound,
     HostFlushSound, ServerDiesSound DEF RemoteNext, Handle
<1>. QED BY <1>1, <1>2

LEMMA RemoteInitInv == RemoteInit => RemoteInv
<1>. MaxCalls \in Nat
  BY RemoteAssumption
<1>. SUFFICES ASSUME RemoteInit PROVE RemoteInv
  OBVIOUS
<1>1. Safe
  BY InitSafe DEF RemoteInit
<1>2. RemoteTypeOK
  <2>1. 0 \in 0 .. MaxCalls
    OBVIOUS
  <2>2. waiting \in [Clients -> 0 .. MaxCalls]
    BY <2>1 DEF RemoteInit
  <2>. QED BY <1>1, <2>1, <2>2 DEF Safe, RemoteInit, RemoteTypeOK
<1>3. DeletesAsked /\ SaveNotBegun
  BY DEF RemoteInit, DeletesAsked, SaveNotBegun
<1>. QED BY <1>1, <1>2, <1>3 DEF RemoteInv

LEMMA RemoteStepInv == RemoteInv /\ [RemoteNext]_allVars => RemoteInv' /\ [Next]_vars
<1>. SUFFICES ASSUME RemoteInv, [RemoteNext]_allVars PROVE RemoteInv' /\ [Next]_vars
  OBVIOUS
<1>1. RemoteSound
  BY RemoteStepSound
<1>2. Safe'
  BY <1>1, StepSafe DEF RemoteSound, RemoteInv
<1>. QED BY <1>1, <1>2 DEF RemoteSound, RemoteInv

-----------------------------------------------------------------------------
\* RpcServer, with any number of clients, broken connections and crashes, keeps
\* its types; in particular a delete a client is told of was asked for.
THEOREM RemoteTyped == RemoteSpec => []RemoteTypeOK
<1>1. RemoteInv => RemoteTypeOK
  BY DEF RemoteInv
<1>. QED BY <1>1, RemoteInitInv, RemoteStepInv, PTL DEF RemoteSpec

\* The handlers of RpcServer use the vault file as an object of Vault does: no
\* request, broken connection or crash adds a behaviour to the file.
THEOREM RemoteUsesVault == RemoteSpec => Spec
<1>1. RemoteInit => Init
  BY DEF RemoteInit
<1>. QED BY <1>1, RemoteInitInv, RemoteStepInv, PTL DEF RemoteSpec, Spec

\* In a calm environment clients never leave a file that cannot be read back.
THEOREM RemoteReadable ==
  ASSUME Calm
  PROVE  RemoteSpec => []FileReadable
<1>1. Spec => [](FileReadable /\ HeadersAgree)
  BY VaultReadable
<1>. QED BY <1>1, RemoteUsesVault, PTL

-----------------------------------------------------------------------------
\* What clients were told of deletes.  The device may fail and init may run over the
\* vault; a save must be able to open the file, for else the answer is given while
\* the file is as it was (remote.cpp:127-132).  A file that
\* is being saved is torn; what is deleted is not in memory, and at the answer not
\* in the file.
Forgets ==
  /\ Server \in saving => file = Torn
  /\ \A i \in deleted :
       /\ state[Server] = "UNLOCKED" => entries[Server][i] = None
       /\ Whole => file.entries[i] = None
  /\ doing # None => state[Server] = "UNLOCKED" /\ (doing.at = "flush" => Server \in saving)
  /\ doing # None /\ doing.req.do.op = "delete_entry" =>
       /\ entries[Server][doing.id] = None
       /\ doing.at = "reply" /\ Whole => file.entries[doing.id] = None

LEMMA ForgetsUnchanged ==
  ASSUME Forgets, UNCHANGED objects, UNCHANGED <<doing, deleted>>
  PROVE  Forgets'
BY DEF Forgets, Whole, objects

\* unlock() and lock() leave in memory what is in the file, or nothing.
LEMMA UnlockForgets ==
  ASSUME RemoteInv, Forgets, doing = None, NEW p \in Passphrases, Unlock(Server, p),
         UNCHANGED <<doing, deleted>>
  PROVE  Forgets'
<1>1. CASE Returns(Server, "unlock", "false")
  BY <1>1, ForgetsUnchanged DEF Returns, objects
<1>2. CASE /\ state[Server] = "LOCKED"
           /\ LoadFile(Server, header[Server].key)
           /\ UNCHANGED <<file, saving>>
  <2>1. entries[Server] = NoEntries /\ deleted \subseteq Ids
    BY <1>2, RemoteAssumption DEF RemoteInv, RemoteTypeOK, Safe, KeysIffUnlocked
  <2>2. entries'[Server] = NoEntries \/ (Whole /\ entries'[Server] = file.entries)
    BY <1>2, <2>1, RemoteAssumption DEF LoadFile, RemoteInv, Safe, TypeOK
  <2>. QED BY <1>2, <2>1, <2>2 DEF Forgets, NoEntries, Whole
<1>. QED BY <1>1, <1>2 DEF Unlock

LEMMA LockForgets ==
  ASSUME RemoteInv, Forgets, doing = None, Lock(Server), UNCHANGED <<doing, deleted>>
  PROVE  Forgets'
<1>1. CASE UNCHANGED objects
  BY <1>1, ForgetsUnchanged
<1>2. CASE /\ state' = [state EXCEPT ![Server] = "LOCKED"]
           /\ UNCHANGED <<file, saving>>
  <2>1. state'[Server] = "LOCKED"
    BY <1>2, RemoteAssumption DEF RemoteInv, Safe, TypeOK
  <2>. QED BY <1>2, <2>1 DEF Forgets, Whole
<1>. QED BY <1>1, <1>2 DEF Lock, Returns, objects

LEMMA ServeQuicklyForgets ==
  ASSUME RemoteInv, Forgets, NEW req \in requests, ServeQuickly(req)
  PROVE  Forgets'
<1>1. doing = None /\ UNCHANGED <<doing, deleted>>
  BY DEF ServeQuickly, Takes
<1>2. req.do \in Ops
  BY DEF RemoteInv, RemoteTypeOK, Requests
<1>3. CASE UNCHANGED objects
  BY <1>1, <1>3, ForgetsUnchanged
<1>4. CASE Takes(req, "unlock") /\ Unlock(Server, req.do.arg)
  <2>1. req.do.arg \in Passphrases
    BY <1>2, <1>4 DEF Takes, Ops
  <2>. QED BY <1>1, <1>4, <2>1, UnlockForgets
<1>5. CASE Lock(Server)
  BY <1>1, <1>5, LockForgets
<1>. QED BY <1>3, <1>4, <1>5
         DEF ServeQuickly, GetEntry, DeleteEntry, Edit, Throws, Returns, vars, objects

\* An id that was deleted is not drawn again; what is deleted leaves the memory.
LEMMA EditForgets ==
  ASSUME RemoteInv, Forgets, NEW req \in requests, ServeAdd(req) \/ ServeDelete(req)
  PROVE  Forgets'
<1>1. /\ state[Server] = "UNLOCKED" /\ Server \notin saving
      /\ UNCHANGED deleted
      /\ deleted \subseteq Ids
      /\ entries[Server] \in Entries
  BY RemoteAssumption DEF ServeAdd, ServeDelete, Takes, RemoteInv, RemoteTypeOK, Safe, TypeOK
<1>2. CASE ServeAdd(req)
  <2>1. PICK i \in FreshIds \ deleting :
          /\ Edit(Server, i, req.do.arg, "add")
          /\ doing' = [req |-> req, id |-> i, at |-> "save"]
    BY <1>2 DEF ServeAdd
  <2>2. /\ entries'[Server] = [entries[Server] EXCEPT ![i] = req.do.arg]
        /\ UNCHANGED <<file, state, saving>>
    BY <2>1, RemoteAssumption DEF Edit, RemoteInv, Safe, TypeOK
  <2>3. i \notin deleted /\ req.do.op = "add_entry"
    BY <1>2, <2>1 DEF RemoteInv, RemoteTypeOK, ServeAdd, Takes
  <2>. QED BY <1>1, <2>1, <2>2, <2>3 DEF Forgets, Whole, Entries
<1>3. CASE ServeDelete(req)
  <2>1. req.do \in Ops /\ req.do.op = "delete_entry"
    BY <1>3 DEF ServeDelete, Takes, RemoteInv, RemoteTypeOK, Requests
  <2>2. req.do.arg \in Ids
    BY <2>1 DEF Ops
  <2>3. Edit(Server, req.do.arg, None, "delete")
    BY <1>1, <1>3 DEF ServeDelete, DeleteEntry, Throws
  <2>4. /\ entries'[Server] = [entries[Server] EXCEPT ![req.do.arg] = None]
        /\ UNCHANGED <<file, state, saving>>
    BY <2>3, RemoteAssumption DEF Edit, RemoteInv, Safe, TypeOK
  <2>5. doing' = [req |-> req, id |-> req.do.arg, at |-> "save"]
    BY <1>3 DEF ServeDelete
  <2>. QED BY <1>1, <2>2, <2>4, <2>5 DEF Forgets, Whole, Entries
<1>. QED BY <1>2, <1>3

\* A save leaves the file torn, or with what is in memory.
LEMMA FinishForgets ==
  ASSUME RemoteInv, Forgets, FinishSave(Server), UNCHANGED deleted
  PROVE  /\ Server \notin saving' /\ UNCHANGED <<state, entries>>
         /\ file' = Torn \/ file'.entries = entries[Server]
         /\ state[Server] = "UNLOCKED"
         /\ \A i \in deleted : Whole' => file'.entries[i] = None
<1>1. state[Server] = "UNLOCKED"
  BY DEF FinishSave, RemoteInv, Safe, SavingUnlocked
<1>2. file' = Torn \/ file'.entries = entries[Server]
  BY DEF FinishSave, Forgets, Image
<1>. QED BY <1>1, <1>2 DEF FinishSave, Forgets, Whole

LEMMA SaveForgets ==
  ASSUME ~OpenFails, RemoteInv, Forgets, ServeSave \/ ServeFlush
  PROVE  Forgets'
<1>1. /\ doing \in [req : Requests, id : Ids, at : Steps] /\ doing # None
      /\ state[Server] = "UNLOCKED"
      /\ UNCHANGED deleted
  BY DEF ServeSave, ServeFlush, RemoteInv, RemoteTypeOK, Forgets
<1>2. CASE ServeSave
  <2>1. /\ file' = Torn /\ saving' = saving \cup {Server}
        /\ UNCHANGED <<state, entries>>
    BY <1>1, <1>2 DEF ServeSave, Save, Returns, StartSave
  <2>2. doing'.at = "flush" /\ doing'.req = doing.req /\ doing'.id = doing.id
    BY <1>1, <1>2, <2>1 DEF ServeSave
  <2>. QED BY <1>1, <2>1, <2>2 DEF Forgets, Whole
<1>3. CASE ServeFlush
  <2>1. doing'.at = "reply" /\ doing'.req = doing.req /\ doing'.id = doing.id
    BY <1>1, <1>3 DEF ServeFlush
  <2>2. /\ Server \notin saving' /\ UNCHANGED <<state, entries>>
        /\ file' = Torn \/ file'.entries = entries[Server]
        /\ \A i \in deleted : Whole' => file'.entries[i] = None
    BY <1>1, <1>3, FinishForgets DEF ServeFlush
  <2>. QED BY <1>1, <2>1, <2>2 DEF Forgets, Whole
<1>. QED BY <1>2, <1>3

LEMMA ReplyForgets ==
  ASSUME RemoteInv, Forgets, Reply
  PROVE  Forgets'
<1>1. /\ doing # None /\ doing.at = "reply" /\ state[Server] = "UNLOCKED"
      /\ doing' = None /\ UNCHANGED vars
  BY DEF Reply, Forgets
<1>2. \A i \in deleted' : i \in deleted \/ (i = doing.id /\ doing.req.do.op = "delete_entry")
  BY DEF Reply
<1>. QED BY <1>1, <1>2 DEF Forgets, Whole, vars

\* A new vault has no entries, whatever was at its place.
LEMMA HostForgets ==
  ASSUME ~OpenFails, RemoteInv, Forgets, Host \/ HostFlush
  PROVE  Forgets'
<1>1. CASE UNCHANGED objects /\ UNCHANGED <<doing, deleted>>
  BY <1>1, ForgetsUnchanged
<1>2. CASE /\ state[Server] = "UNINITIALIZED" /\ doing = None
           /\ state' = [state EXCEPT ![Server] = "LOCKED"]
           /\ UNCHANGED <<file, saving, remoteVars>>
  <2>1. state'[Server] = "LOCKED"
    BY <1>2, RemoteAssumption DEF RemoteInv, Safe, TypeOK
  <2>. QED BY <1>2, <2>1 DEF Forgets, Whole, remoteVars
<1>3. CASE /\ state[Server] = "UNINITIALIZED" /\ doing = None
           /\ state' = [state EXCEPT ![Server] = "UNLOCKED"]
           /\ file' = Torn
           /\ UNCHANGED <<entries, remoteVars>>
  <2>1. entries[Server] = NoEntries /\ deleted \subseteq Ids
    BY <1>3, RemoteAssumption DEF RemoteInv, RemoteTypeOK, Safe, KeysIffUnlocked
  <2>. QED BY <1>3, <2>1 DEF Forgets, Whole, NoEntries, remoteVars
<1>4. CASE HostFlush
  <2>1. doing = None /\ FinishSave(Server) /\ UNCHANGED <<doing, deleted>>
    BY <1>4 DEF HostFlush, remoteVars
  <2>2. /\ Server \notin saving' /\ UNCHANGED <<state, entries>>
        /\ \A i \in deleted : Whole' => file'.entries[i] = None
    BY <2>1, FinishForgets
  <2>. QED BY <2>1, <2>2 DEF Forgets
<1>. QED BY <1>1, <1>2, <1>3, <1>4
         DEF Host, Open, Create, StartSave, Returns, vars, objects, remoteVars

LEMMA ServerDiesForgets ==
  ASSUME RemoteInv, Forgets, ServerDies
  PROVE  Forgets'
<1>1. /\ state'[Server] = "UNINITIALIZED" /\ Server \notin saving'
      /\ doing' = None
      /\ UNCHANGED deleted
  BY RemoteAssumption DEF ServerDies, ProcessEnds, RemoteInv, Safe, TypeOK
<1>2. file' \in {file, Torn}
  BY DEF ServerDies, ProcessEnds
<1>. QED BY <1>1, <1>2 DEF Forgets, Whole

LEMMA StepForgets ==
  ASSUME ~OpenFails, RemoteInv, Forgets, [RemoteNext]_allVars
  PROVE  Forgets'
<1>1. CASE UNCHANGED <<vars, doing, deleted>>
  BY <1>1, ForgetsUnchanged DEF vars, objects
<1>2. CASE Handle
  BY <1>2, ServeQuicklyForgets, EditForgets, SaveForgets, ReplyForgets DEF Handle
<1>3. CASE Host \/ HostFlush \/ ServerDies
  BY <1>3, HostForgets, ServerDiesForgets
<1>. QED BY <1>1, <1>2, <1>3 DEF RemoteNext, Request, Break, allVars, remoteVars

\* What a client was told is deleted never comes back to the file, through locks,
\* failed and half-done saves, crashes and an init over the vault, as long as the
\* file opens for writing (remote.cpp:121-132).
THEOREM RemoteDeletedStays == ASSUME ~OpenFails PROVE RemoteSpec => []DeletedStaysDeleted
<1>1. RemoteInit => RemoteInv /\ Forgets
  BY RemoteInitInv, RemoteAssumption DEF RemoteInit, Init, Forgets
<1>2. RemoteInv /\ Forgets /\ [RemoteNext]_allVars => RemoteInv' /\ Forgets'
  BY RemoteStepInv, StepForgets
<1>3. Forgets => DeletedStaysDeleted
  BY DEF Forgets, DeletedStaysDeleted
<1>. QED BY <1>1, <1>2, <1>3, PTL DEF RemoteSpec

-----------------------------------------------------------------------------
\* What clients were told of adds.  The answer is given although the save failed
\* (remote.cpp:85), and unlock() goes on without the entries of a file it cannot
\* read, so a device that fails loses what was added; so does an init over the vault.
Alone == Vaults = {Server} /\ ~InitOver /\ ~OpenFails /\ ~DeviceFails

\* An opened vault has a file, which is torn exactly while it is being saved; any
\* torn file is being saved, or was left by a server killed in a save.
TornWhileSaving ==
  /\ state[Server] # "UNINITIALIZED" => file # Absent
  /\ Server \in saving <=> file = Torn /\ state[Server] # "UNINITIALIZED"
  /\ file = Torn => Server \in saving \/ cut

\* Between its edit and its answer a handler finds the edit in memory, and at
\* the answer the file holds what the memory does.
HandlerHolds == doing # None =>
  /\ state[Server] = "UNLOCKED"
  /\ doing.at = "flush" <=> Server \in saving
  /\ doing.at = "reply" => file.entries = entries[Server]
  /\ doing.req.do.op = "add_entry" /\ doing.id \notin deleting =>
       entries[Server][doing.id] = doing.req.do.arg

\* A set of entries honours what clients were told was added.
Honours(set) == \A a \in added : a[1] \notin deleting => set[a[1]] = a[2]

Kept ==
  /\ TornWhileSaving
  /\ HandlerHolds
  /\ added # {} => file # Absent
  /\ state[Server] = "UNLOCKED" => Honours(entries[Server])
  /\ Whole => Honours(file.entries)

LEMMA KeptAtFirst == RemoteInit => Kept
BY RemoteAssumption, NoneAssumption
   DEF RemoteInit, Init, Kept, TornWhileSaving, HandlerHolds, Honours, Whole

\* A step that leaves the vault and what clients were told alone.
LEMMA KeptUnchanged ==
  ASSUME Kept, UNCHANGED objects, UNCHANGED <<doing, added, cut>>,
         deleting \subseteq deleting'
  PROVE  Kept'
BY DEF Kept, TornWhileSaving, HandlerHolds, Honours, Whole, objects

\* The handler's save reaches the disk.
LEMMA FlushKeeps ==
  ASSUME Alone, RemoteInv, Kept, FinishSave(Server), UNCHANGED <<added, deleting>>
  PROVE  /\ file'.entries = entries'[Server] /\ Server \notin saving' /\ file' # Absent
         /\ state' = state /\ entries' = entries /\ state[Server] = "UNLOCKED"
         /\ TornWhileSaving'
         /\ state'[Server] = "UNLOCKED" => Honours(entries[Server])'
         /\ Whole' => Honours(file.entries)'
<1>1. file' = Image(Server)
  BY DEF FinishSave, Alone
<1>2. state[Server] = "UNLOCKED"
  BY DEF FinishSave, RemoteInv, Safe, SavingUnlocked
<1>3. Image(Server) \in Contents
  BY <1>2, NoneAssumption, RemoteAssumption DEF RemoteInv, Safe, TypeOK, KeysIffUnlocked,
     HeaderIfOpened, Image, Contents
<1>4. file' # Absent /\ file' # Torn
  BY <1>1, <1>3, ContentsAssumption
<1>5. file'.entries = entries[Server]
  BY <1>1 DEF Image
<1>6. /\ Server \notin saving'
      /\ UNCHANGED <<state, entries>>
  BY DEF FinishSave
<1>7. Honours(entries[Server])'
  BY <1>2, <1>6 DEF Kept, Honours
<1>8. Honours(file.entries)'
  BY <1>5, <1>6, <1>7 DEF Honours
<1>. QED BY <1>2, <1>4, <1>5, <1>6, <1>7, <1>8 DEF TornWhileSaving

LEMMA RequestKept ==
  ASSUME Kept, NEW c \in Clients, NEW do \in Ops, Request(c, do)
  PROVE  Kept'
BY KeptUnchanged DEF Request, vars, objects

LEMMA BreakKept ==
  ASSUME Kept, NEW c \in Clients, Break(c)
  PROVE  Kept'
BY KeptUnchanged DEF Break, vars, objects

\* Outside a save the file of an opened vault is whole, and its entries open with
\* the key of the header.
LEMMA UnlockKept ==
  ASSUME Alone, RemoteInv, InStep, Kept, doing = None, Server \notin saving,
         NEW p \in Passphrases, Unlock(Server, p), UNCHANGED <<doing, added, deleting, cut>>
  PROVE  Kept'
<1>1. CASE Returns(Server, "unlock", "false")
  BY <1>1, KeptUnchanged DEF Returns, objects
<1>2. CASE /\ state[Server] = "LOCKED"
           /\ state' = [state EXCEPT ![Server] = "UNLOCKED"]
           /\ LoadFile(Server, header[Server].key)
           /\ UNCHANGED <<file, saving>>
  <2>1. Whole
    BY <1>2 DEF Kept, TornWhileSaving, Whole
  <2>2. header[Server].key = file.sealedBy
    BY <1>2, <2>1, RemoteAssumption DEF InStep, HeadersAgree, FileInStep
  <2>3. header[Server].key \in DataKeys
    BY <1>2, RemoteAssumption DEF RemoteInv, Safe, TypeOK, HeaderIfOpened, Headers
  <2>4. entries'[Server] = file.entries /\ state'[Server] = "UNLOCKED"
    BY <1>2, <2>1, <2>2, <2>3, NoneAssumption, RemoteAssumption
       DEF LoadFile, RemoteInv, Safe, TypeOK
  <2>5. Honours(file.entries)
    BY <2>1 DEF Kept
  <2>. QED BY <1>2, <2>1, <2>4, <2>5 DEF Kept, TornWhileSaving, HandlerHolds, Honours, Whole
<1>. QED BY <1>1, <1>2 DEF Unlock

LEMMA LockKept ==
  ASSUME RemoteInv, Kept, doing = None, Lock(Server), UNCHANGED <<doing, added, deleting, cut>>
  PROVE  Kept'
<1>1. CASE UNCHANGED objects
  BY <1>1, KeptUnchanged
<1>2. CASE /\ state[Server] = "UNLOCKED"
           /\ state' = [state EXCEPT ![Server] = "LOCKED"]
           /\ UNCHANGED <<file, header, saving>>
  <2>1. state'[Server] = "LOCKED"
    BY <1>2, RemoteAssumption DEF RemoteInv, Safe, TypeOK
  <2>. QED BY <1>2, <2>1 DEF Kept, TornWhileSaving, HandlerHolds, Honours, Whole
<1>. QED BY <1>1, <1>2 DEF Lock, Returns, objects

LEMMA ServeQuicklyKept ==
  ASSUME Alone, RemoteInv, InStep, Kept, NEW req \in requests, ServeQuickly(req)
  PROVE  Kept'
<1>1. /\ doing = None /\ Server \notin saving
      /\ UNCHANGED <<doing, added, deleting, cut>>
  BY DEF ServeQuickly, Takes
<1>2. req.do \in Ops
  BY DEF RemoteInv, RemoteTypeOK, Requests
<1>3. CASE UNCHANGED objects
  BY <1>1, <1>3, KeptUnchanged
<1>4. CASE Takes(req, "unlock") /\ Unlock(Server, req.do.arg)
  <2>1. req.do.arg \in Passphrases
    BY <1>2, <1>4 DEF Takes, Ops
  <2>. QED BY <1>1, <1>4, <2>1, UnlockKept
<1>5. CASE Lock(Server)
  BY <1>1, <1>5, LockKept
<1>. QED BY <1>3, <1>4, <1>5
         DEF ServeQuickly, GetEntry, DeleteEntry, Edit, Throws, Returns, vars, objects

LEMMA ServeAddKept ==
  ASSUME Alone, RemoteInv, Kept, NEW req \in requests, ServeAdd(req)
  PROVE  Kept'
<1>1. PICK i \in FreshIds \ (deleting \cup {a[1] : a \in added}) :
        /\ Edit(Server, i, req.do.arg, "add")
        /\ doing' = [req |-> req, id |-> i, at |-> "save"]
  BY DEF ServeAdd
<1>2. /\ Server \notin saving /\ state[Server] = "UNLOCKED"
      /\ req.do.op = "add_entry"
      /\ UNCHANGED <<added, deleting, cut>>
  BY DEF ServeAdd, Takes
<1>3. /\ entries'[Server] = [entries[Server] EXCEPT ![i] = req.do.arg]
      /\ UNCHANGED <<file, state, saving>>
  BY <1>1, RemoteAssumption DEF Edit, RemoteInv, Safe, TypeOK
<1>4. i \in Ids /\ entries[Server] \in Entries
  BY <1>1, RemoteAssumption DEF FreshIds, RemoteInv, Safe, TypeOK
<1>5. i \notin deleting /\ \A a \in added : a[1] # i
  BY <1>1 DEF RemoteInv, RemoteTypeOK
<1>6. Honours(entries[Server])'
  BY <1>2, <1>3, <1>4, <1>5 DEF Kept, Honours, Entries
<1>7. HandlerHolds'
  BY <1>1, <1>2, <1>3, <1>4 DEF HandlerHolds, Entries
<1>. QED BY <1>2, <1>3, <1>6, <1>7 DEF Kept, TornWhileSaving, Honours, Whole

LEMMA ServeDeleteKept ==
  ASSUME Alone, RemoteInv, Kept, NEW req \in requests, ServeDelete(req)
  PROVE  Kept'
<1>1. /\ Server \notin saving /\ state[Server] = "UNLOCKED"
      /\ req.do.op = "delete_entry"
      /\ req.do \in Ops
      /\ entries[Server][req.do.arg] # None
      /\ doing' = [req |-> req, id |-> req.do.arg, at |-> "save"]
      /\ UNCHANGED <<added, deleting, cut>>
  BY DEF ServeDelete, Takes, RemoteInv, RemoteTypeOK, Requests
<1>2. req.do.arg \in Ids /\ req.do.arg \in deleting
  BY <1>1 DEF Ops, RemoteInv, DeletesAsked
<1>3. Edit(Server, req.do.arg, None, "delete")
  BY <1>1 DEF ServeDelete, DeleteEntry, Throws
<1>4. /\ entries'[Server] = [entries[Server] EXCEPT ![req.do.arg] = None]
      /\ UNCHANGED <<file, state, saving>>
  BY <1>3, RemoteAssumption DEF Edit, RemoteInv, Safe, TypeOK
<1>5. entries[Server] \in Entries
  BY RemoteAssumption DEF RemoteInv, Safe, TypeOK
<1>6. Honours(entries[Server])'
  BY <1>1, <1>2, <1>4, <1>5 DEF Kept, Honours, Entries
<1>7. HandlerHolds'
  BY <1>1, <1>2, <1>4, <1>5 DEF HandlerHolds, Entries
<1>. QED BY <1>1, <1>4, <1>6, <1>7 DEF Kept, TornWhileSaving, Honours, Whole

LEMMA ServeSaveKept ==
  ASSUME Alone, RemoteInv, Kept, ServeSave
  PROVE  Kept'
<1>1. /\ doing \in [req : Requests, id : Ids, at : Steps] /\ doing # None
      /\ state[Server] = "UNLOCKED"
      /\ UNCHANGED <<added, deleting>>
  BY DEF ServeSave, RemoteInv, RemoteTypeOK, Kept, HandlerHolds
<1>2. /\ file' = Torn /\ saving' = saving \cup {Server}
      /\ UNCHANGED <<state, entries>>
  BY <1>1 DEF ServeSave, Save, Returns, StartSave, Alone
<1>3. doing'.at = "flush" /\ doing'.req = doing.req /\ doing'.id = doing.id
  BY <1>1, <1>2 DEF ServeSave
<1>4. HandlerHolds'
  BY <1>1, <1>2, <1>3 DEF Kept, HandlerHolds
<1>. QED BY <1>1, <1>2, <1>4, NoneAssumption DEF Kept, TornWhileSaving, Honours, Whole

LEMMA ServeFlushKept ==
  ASSUME Alone, RemoteInv, Kept, ServeFlush
  PROVE  Kept'
<1>1. /\ doing \in [req : Requests, id : Ids, at : Steps] /\ doing # None
      /\ FinishSave(Server)
      /\ UNCHANGED <<added, deleting>>
  BY DEF ServeFlush, RemoteInv, RemoteTypeOK
<1>2. doing'.at = "reply" /\ doing'.req = doing.req /\ doing'.id = doing.id
  BY <1>1 DEF ServeFlush
<1>3. HandlerHolds'
  BY <1>1, <1>2, FlushKeeps DEF Kept, HandlerHolds
<1>. QED BY <1>1, <1>3, FlushKeeps DEF Kept

LEMMA ReplyKept ==
  ASSUME Alone, RemoteInv, Kept, Reply
  PROVE  Kept'
<1>1. /\ doing # None /\ doing.at = "reply"
      /\ state[Server] = "UNLOCKED"
      /\ file.entries = entries[Server]
      /\ doing' = None
      /\ UNCHANGED vars /\ UNCHANGED <<deleting, cut>>
  BY DEF Reply, Kept, HandlerHolds
<1>2. \A a \in added' :
        a \in added \/ (a = <<doing.id, doing.req.do.arg>> /\ doing.req.do.op = "add_entry")
  BY DEF Reply
<1>3. Honours(entries[Server])'
  BY <1>1, <1>2 DEF Kept, HandlerHolds, Honours, vars
<1>4. Honours(file.entries)'
  BY <1>1, <1>3 DEF Honours, vars
<1>5. file' # Absent
  BY <1>1 DEF Kept, TornWhileSaving, vars
<1>. QED BY <1>1, <1>3, <1>4, <1>5 DEF Kept, TornWhileSaving, HandlerHolds, vars

\* A vault is created only where there is none, so that no entry was promised.
LEMMA HostKept ==
  ASSUME Alone, RemoteInv, Kept, Host
  PROVE  Kept'
<1>1. CASE UNCHANGED objects /\ UNCHANGED <<doing, heard, cut>>
  BY <1>1, KeptUnchanged
<1>2. CASE /\ state[Server] = "UNINITIALIZED" /\ Whole
           /\ state' = [state EXCEPT ![Server] = "LOCKED"]
           /\ doing = None /\ Server \notin saving
           /\ UNCHANGED <<file, saving, remoteVars>>
  <2>1. state'[Server] = "LOCKED"
    BY <1>2, RemoteAssumption DEF RemoteInv, Safe, TypeOK
  <2>. QED BY <1>2, <2>1 DEF Kept, TornWhileSaving, HandlerHolds, Honours, Whole, remoteVars
<1>3. CASE /\ state[Server] = "UNINITIALIZED" /\ file = Absent
           /\ state' = [state EXCEPT ![Server] = "UNLOCKED"]
           /\ file' = Torn /\ saving' = saving \cup {Server}
           /\ doing = None
           /\ UNCHANGED <<entries, remoteVars>>
  <2>1. state'[Server] = "UNLOCKED" /\ entries[Server] = NoEntries
    BY <1>3, RemoteAssumption DEF RemoteInv, Safe, TypeOK, KeysIffUnlocked
  <2>2. added = {}
    BY <1>3 DEF Kept
  <2>3. Honours(entries[Server])'
    BY <1>3, <2>1, <2>2 DEF Honours, NoEntries, remoteVars
  <2>. QED BY <1>3, <2>1, <2>2, <2>3, NoneAssumption
       DEF Kept, TornWhileSaving, HandlerHolds, Whole, remoteVars
<1>. QED BY <1>1, <1>2, <1>3
         DEF Host, Open, Create, StartSave, Returns, Alone, vars, objects, remoteVars

LEMMA HostFlushKept ==
  ASSUME Alone, RemoteInv, Kept, HostFlush
  PROVE  Kept'
BY FlushKeeps DEF HostFlush, remoteVars, Kept, HandlerHolds

LEMMA ServerDiesKept ==
  ASSUME Alone, RemoteInv, Kept, ServerDies
  PROVE  Kept'
<1>1. /\ state'[Server] = "UNINITIALIZED" /\ Server \notin saving'
      /\ doing' = None
      /\ cut' = (cut \/ Server \in saving)
      /\ UNCHANGED <<added, deleting>>
  BY RemoteAssumption DEF ServerDies, ProcessEnds, RemoteInv, Safe, TypeOK
<1>2. /\ file' \in IF Server \in saving THEN {Torn, file} ELSE {file}
      /\ file # Absent
  BY DEF ServerDies, ProcessEnds, Kept, TornWhileSaving
<1>3. TornWhileSaving'
  BY <1>1, <1>2 DEF Kept, TornWhileSaving
<1>. QED BY <1>1, <1>2, <1>3, NoneAssumption DEF Kept, HandlerHolds, Honours, Whole

LEMMA StepKept ==
  ASSUME Alone, RemoteInv, InStep, Kept, [RemoteNext]_allVars
  PROVE  Kept'
<1>1. CASE UNCHANGED allVars
  BY <1>1, KeptUnchanged DEF allVars, vars, remoteVars, objects
<1>2. CASE RemoteNext
  BY <1>2, RequestKept, BreakKept, ServeQuicklyKept, ServeAddKept, ServeDeleteKept,
     ServeSaveKept, ServeFlushKept, ReplyKept, HostKept, HostFlushKept, ServerDiesKept
     DEF RemoteNext, Handle
<1>. QED BY <1>1, <1>2

LEMMA RemoteKept == ASSUME Alone PROVE RemoteSpec => [](RemoteInv /\ Kept)
<1>1. RemoteInit => RemoteInv /\ InStep /\ Kept
  BY RemoteInitInv, KeptAtFirst
     DEF RemoteInit, Init, InStep, FileInStep, OpenedWellFormed, OpenedAgree, HeadersAgree,
         KeysFit, Whole
<1>2. RemoteInv /\ InStep /\ Kept /\ [RemoteNext]_allVars => RemoteInv' /\ InStep' /\ Kept'
  BY RemoteStepInv, StepKept, StepInStep DEF Alone, Calm, RemoteInv
<1>. QED BY <1>1, <1>2, PTL DEF RemoteSpec

\* A client that was given an id finds its secret in every whole file until somebody
\* asks to delete it, with any number of clients and requests, whatever connection
\* breaks and wherever the server dies; and the file is whole unless the server is
\* inside a save or was killed inside one, which loses every entry
\* (remote.cpp:71-87, 121-132, vault.cpp:279).
THEOREM RemoteAddedSurvives == ASSUME Alone PROVE RemoteSpec => []AddedSurvives
<1>1. Kept => AddedSurvives
  BY DEF Kept, TornWhileSaving, Honours, Whole, AddedSurvives
<1>. QED BY <1>1, RemoteKept, PTL

\* ... and reads it wherever the vault is unlocked.
THEOREM RemoteAddedVisible == ASSUME Alone PROVE RemoteSpec => []AddedIsVisible
<1>1. Kept => AddedIsVisible
  BY DEF Kept, Honours, AddedIsVisible
<1>. QED BY <1>1, RemoteKept, PTL

=============================================================================
