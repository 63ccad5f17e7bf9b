---------------------------- MODULE RemoteVault ----------------------------
(***************************************************************************)
(* A vault served over RPC (src/src/remote.cpp): the handlers of RpcServer *)
(* run one at a time on the thread inside server_->run() and work on one   *)
(* Vault object; RpcClients call and wait.  The steps of a handler are the *)
(* actions of Vault for the object `Server`, so that a crash and a failed  *)
(* or half-done save fall between them.                                    *)
(*                                                                         *)
(* rpclib is external: a call is sent, executed at most once, and answered *)
(* unless the connection breaks; then the client's call throws and returns *)
(* "" or false while the request may still be executed.                    *)
(***************************************************************************)
EXTENDS Vault

CONSTANTS
  Server,       \* the Vault object bound to the server
  Clients,
  MaxCalls,     \* bound: calls the clients make, all together
  MayBreak,     \* may a connection break while a call is out?
  MayDie        \* may the server process end?

ASSUME RemoteAssumption ==
  /\ Server \in Vaults
  /\ MaxCalls \in Nat
  /\ {MayBreak, MayDie} \subseteq BOOLEAN

VARIABLES
  bound,      \* has bind_vault() been called?
  calls,      \* calls made so far
  requests,   \* requests the server has not taken yet
  doing,      \* the request whose handler runs, with the id it works on
  waiting,    \* the call each client waits for, 0 if none
  added,      \* <<id, secret>> of every add_entry a client was told succeeded
  deleting,   \* the ids clients asked to delete
  deleted,    \* the ids clients were told are deleted
  cut         \* was the server killed inside the last save()?

heard == <<added, deleting, deleted>>
remoteVars == <<bound, calls, requests, doing, waiting, heard, cut>>

Ops == [op : {"unlock"}, arg : Passphrases] \cup [op : {"lock", "list_entries"}, arg : {None}]
         \cup [op : {"add_entry"}, arg : Secrets]
         \cup [op : {"get_entry", "delete_entry"}, arg : Ids]
Requests == [from : Clients, call : 1 .. MaxCalls, do : Ops]
Steps == {"save", "flush", "reply"}

RemoteTypeOK ==
  /\ TypeOK
  /\ bound \in BOOLEAN
  /\ calls \in 0 .. MaxCalls
  /\ requests \subseteq Requests
  /\ doing \in [req : Requests, id : Ids, at : Steps] \cup {None}
  /\ waiting \in [Clients -> 0 .. MaxCalls]
  /\ added \subseteq Ids \X Secrets
  /\ deleting \subseteq Ids
  /\ deleted \subseteq deleting
  /\ cut \in BOOLEAN

RemoteInit ==
  /\ Init
  /\ bound = FALSE
  /\ calls = 0
  /\ requests = {}
  /\ doing = None
  /\ waiting = [c \in Clients |-> 0]
  /\ added = {}
  /\ deleting = {}
  /\ deleted = {}
  /\ cut = FALSE

-----------------------------------------------------------------------------
\* RpcClient::unlock, lock, add_entry, get_entry, delete_entry: none of them
\* looks at connected_.  A client object makes one call at a time.
Request(c, do) ==
  /\ waiting[c] = 0
  /\ calls < MaxCalls
  /\ calls' = calls + 1
  /\ requests' = requests \cup {[from |-> c, call |-> calls + 1, do |-> do]}
  /\ waiting' = [waiting EXCEPT ![c] = calls + 1]
  /\ deleting' = IF do.op = "delete_entry" THEN deleting \cup {do.arg} ELSE deleting
  /\ UNCHANGED <<vars, bound, doing, added, deleted, cut>>

\* The call throws; its request stays where it is.
Break(c) ==
  /\ MayBreak
  /\ waiting[c] # 0
  /\ waiting' = [waiting EXCEPT ![c] = 0]
  /\ UNCHANGED <<vars, bound, calls, requests, doing, heard, cut>>

\* The answer reaches the client if it still waits for it.
Answered(req) ==
  waiting' = [waiting EXCEPT ![req.from] = IF @ = req.call THEN 0 ELSE @]
Hears(req) == waiting[req.from] = req.call

-----------------------------------------------------------------------------
Takes(req, op) ==
  /\ doing = None
  /\ Server \notin saving
  /\ req \in requests
  /\ req.do.op = op
  /\ requests' = requests \ {req}
  /\ UNCHANGED <<bound, calls, deleting, cut>>

\* Handlers that answer without a save.  An unbound vault answers "" or false.
ServeQuickly(req) ==
  \/ /\ ~bound
     /\ Takes(req, req.do.op)
     /\ Answered(req)
     /\ UNCHANGED <<vars, doing, added, deleted>>
  \/ /\ bound
     /\ \/ Takes(req, "unlock") /\ Unlock(Server, req.do.arg)
        \/ Takes(req, "lock") /\ Lock(Server)
        \/ Takes(req, "get_entry") /\ GetEntry(Server, req.do.arg)
        \/ Takes(req, "list_entries") /\ UNCHANGED vars
     /\ Answered(req)
     /\ UNCHANGED <<doing, added, deleted>>
  \/ /\ bound
     /\ \/ Takes(req, "add_entry") \/ Takes(req, "delete_entry")
     /\ state[Server] # "UNLOCKED"
     /\ Answered(req)
     /\ UNCHANGED <<vars, doing, added, deleted>>
  \/ /\ bound
     /\ Takes(req, "delete_entry")
     /\ state[Server] = "UNLOCKED"
     /\ entries[Server][req.do.arg] = None
     /\ DeleteEntry(Server, req.do.arg)
     /\ Answered(req)
     /\ UNCHANGED <<doing, added, deleted>>

\* Mutant: add_entry answers without a save.
ServeAdd_NoSave(req) ==
  /\ bound
  /\ Takes(req, "add_entry")
  /\ state[Server] = "UNLOCKED"
  /\ \E i \in FreshIds \ (deleting \cup {a[1] : a \in added}) :
       /\ Edit(Server, i, req.do.arg, "add")
       /\ doing' = [req |-> req, id |-> i, at |-> "reply"]
  /\ UNCHANGED <<waiting, added, deleted>>

\* Mutant: the id of a deleted entry is given out again.
ServeAdd_ReusesIds(req) ==
  /\ bound
  /\ Takes(req, "add_entry")
  /\ state[Server] = "UNLOCKED"
  /\ \E i \in FreshIds :
       /\ Edit(Server, i, req.do.arg, "add")
       /\ doing' = [req |-> req, id |-> i, at |-> "save"]
  /\ UNCHANGED <<waiting, added, deleted>>

\* The id is fresh: 16 random bytes that nobody has seen.
ServeAdd(req) ==
  /\ bound
  /\ Takes(req, "add_entry")
  /\ state[Server] = "UNLOCKED"
  /\ \E i \in FreshIds \ (deleting \cup {a[1] : a \in added}) :
       /\ Edit(Server, i, req.do.arg, "add")
       /\ doing' = [req |-> req, id |-> i, at |-> "save"]
  /\ UNCHANGED <<waiting, added, deleted>>

ServeDelete(req) ==
  /\ bound
  /\ Takes(req, "delete_entry")
  /\ state[Server] = "UNLOCKED"
  /\ entries[Server][req.do.arg] # None
  /\ DeleteEntry(Server, req.do.arg)
  /\ doing' = [req |-> req, id |-> req.do.arg, at |-> "save"]
  /\ UNCHANGED <<waiting, added, deleted>>

\* vault_->save(), whose result the handlers ignore.
ServeSave ==
  /\ doing # None /\ doing.at = "save"
  /\ Save(Server)
  /\ doing' = [doing EXCEPT !.at = IF Server \in saving' THEN "flush" ELSE "reply"]
  /\ UNCHANGED <<bound, calls, requests, waiting, heard, cut>>

ServeFlush ==
  /\ doing # None /\ doing.at = "flush"
  /\ FinishSave(Server)
  /\ doing' = [doing EXCEPT !.at = "reply"]
  /\ cut' = FALSE
  /\ UNCHANGED <<bound, calls, requests, waiting, heard>>

\* Mutant: the answer is never sent.
Reply_Lost ==
  /\ doing # None /\ doing.at = "reply"
  /\ doing' = None
  /\ UNCHANGED <<vars, bound, calls, requests, waiting, heard, cut>>

\* Mutant: the answer of one handler is taken for the answer of another.
Reply_Mixed ==
  /\ doing # None /\ doing.at = "reply"
  /\ Answered(doing.req)
  /\ deleted' = IF Hears(doing.req) THEN deleted \cup {doing.id} ELSE deleted
  /\ doing' = None
  /\ UNCHANGED <<vars, bound, calls, requests, added, deleting, cut>>

Reply ==
  /\ doing # None /\ doing.at = "reply"
  /\ LET req == doing.req IN
       /\ Answered(req)
       /\ added' = IF Hears(req) /\ req.do.op = "add_entry"
                     THEN added \cup {<<doing.id, req.do.arg>>} ELSE added
       /\ deleted' = IF Hears(req) /\ req.do.op = "delete_entry"
                       THEN deleted \cup {doing.id} ELSE deleted
  /\ doing' = None
  /\ UNCHANGED <<vars, bound, calls, requests, deleting, cut>>

Handle ==
  \/ \E req \in requests : ServeQuickly(req) \/ ServeAdd(req) \/ ServeDelete(req)
  \/ ServeSave \/ ServeFlush \/ Reply

-----------------------------------------------------------------------------
\* The program around the server binds the vault and creates or opens it.
Host ==
  \/ ~bound /\ bound' = TRUE
     /\ UNCHANGED <<vars, calls, requests, doing, waiting, heard, cut>>
  \/ /\ doing = None
     /\ Server \notin saving
     /\ Open(Server) \/ \E p \in Passphrases : Create(Server, p)
     /\ UNCHANGED remoteVars
HostFlush ==
  /\ doing = None
  /\ FinishSave(Server)
  /\ cut' = FALSE
  /\ UNCHANGED <<bound, calls, requests, doing, waiting, heard>>

\* The server process ends: connections, requests and the handler go with it.
ServerDies ==
  /\ MayDie
  /\ ProcessEnds(Server)
  /\ bound' = FALSE
  /\ requests' = {}
  /\ doing' = None
  /\ waiting' = [c \in Clients |-> 0]
  /\ cut' = (cut \/ Server \in saving)
  /\ UNCHANGED <<calls, heard>>

RemoteNext ==
  \/ \E c \in Clients : Break(c) \/ \E do \in Ops : Request(c, do)
  \/ Handle \/ Host \/ HostFlush \/ ServerDies

allVars == <<vars, remoteVars>>

\* The thread inside server_->run() goes on with its handler and takes the next
\* request, and a create() under way ends; nothing else has to happen.
RemoteSpec ==
  RemoteInit /\ [][RemoteNext]_allVars /\ WF_allVars(Handle) /\ WF_allVars(HostFlush)

-----------------------------------------------------------------------------
\* The id add_entry returned names an entry with the secret that client sent in
\* every whole file, until somebody asks to delete it: whatever breaks, locks,
\* reopens or dies (remote.cpp:84-87).  A file that is not whole although somebody
\* was told of an entry is being saved, or the server was killed in that save
\* (vault.cpp:279), and then every entry is lost.
AddedSurvives ==
  LET lives == {a \in added : a[1] \notin deleting} IN
    /\ Whole => \A a \in lives : file.entries[a[1]] = a[2]
    /\ ~Whole => Server \in saving \/ cut \/ lives = {}

\* ... and every client of an unlocked server can read it.
AddedIsVisible ==
  \A a \in added : state[Server] = "UNLOCKED" /\ a[1] \notin deleting
                     => entries[Server][a[1]] = a[2]

\* What a client was told is deleted does not come back to the file, whichever
\* handler, unlock, save or restart comes after (remote.cpp:127-132).
DeletedStaysDeleted ==
  \A i \in deleted : Whole => file.entries[i] = None

\* While the server lives every call returns: no handler waits for a client.
CallReturns == \A c \in Clients : waiting[c] # 0 ~> waiting[c] = 0

=============================================================================
