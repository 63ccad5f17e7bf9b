------------------------------ MODULE Plugins ------------------------------
(***************************************************************************)
(* The plugin managers of one process (src/src/modules.cpp).  A manager    *)
(* lists modules by the name their descriptor gives; libltdl counts how    *)
(* often each file is open and unloads its code at zero.  Every failure on *)
(* the way of load_module must give back what it took.                     *)
(*                                                                         *)
(* libltdl is external: lt_dlinit and lt_dlexit count too, and the last    *)
(* lt_dlexit closes every file that is still open.  The flag that guards   *)
(* them, ltdl_initialized_, is static: all managers share it.              *)
(***************************************************************************)
EXTENDS Integers, FiniteSets

CONSTANTS
  Managers,
  Paths,        \* module files
  Names,
  NameOf,       \* the name in the descriptor of each file
  Broken,       \* files without an entry point, or whose entry point fails
  MayRefuse,    \* files whose init hook may fail
  None,
  Overlap,      \* may two managers live at the same time?
  MaxUsers      \* bound: lt_dlinit calls not yet undone

ASSUME PluginsAssumption ==
  /\ NameOf \in [Paths -> Names]
  /\ None \notin Paths
  /\ Broken \subseteq Paths /\ MayRefuse \subseteq Paths
  /\ Overlap \in BOOLEAN
  /\ MaxUsers \in Nat

VARIABLES
  alive,        \* the managers that exist
  loaded,       \* modules_ of each: the file behind each name, or None
  initialized,  \* ltdl_initialized_
  users,        \* lt_dlinit calls not yet undone
  refs,         \* how often libltdl holds each file open
  active,       \* init hooks minus deinit hooks run in each file
  strayCall     \* has a hook been called in a file that was not open?

vars == <<alive, loaded, initialized, users, refs, active, strayCall>>

-----------------------------------------------------------------------------
NoModules == [n \in Names |-> None]

TypeOK ==
  /\ alive \subseteq Managers
  /\ loaded \in [Managers -> [Names -> Paths \cup {None}]]
  /\ initialized \in BOOLEAN
  /\ users \in 0 .. MaxUsers
  /\ refs \in [Paths -> Nat]
  /\ active \in [Paths -> Int]
  /\ strayCall \in BOOLEAN

Init ==
  /\ alive = {}
  /\ loaded = [m \in Managers |-> NoModules]
  /\ initialized = FALSE
  /\ users = 0
  /\ refs = [p \in Paths |-> 0]
  /\ active = [p \in Paths |-> 0]
  /\ strayCall = FALSE

Listed(m) == {loaded[m][n] : n \in Names} \ {None}

\* lt_dlclose; on a file that is not open it is an error and changes nothing.
Close(r) == IF r > 0 THEN r - 1 ELSE 0

-----------------------------------------------------------------------------
\* ModuleManager(): init_ltdl.  A failing lt_dlinit counts all the same, and
\* leaves the manager without libltdl.
Construct(m) ==
  /\ m \notin alive
  /\ Overlap \/ alive = {}
  /\ alive' = alive \cup {m}
  /\ IF initialized THEN UNCHANGED <<initialized, users>>
     ELSE /\ users < MaxUsers
          /\ users' = users + 1
          /\ initialized' \in BOOLEAN
  /\ UNCHANGED <<loaded, refs, active, strayCall>>

\* Mutant: a file whose name is taken stays open.
LoadModule_LeaksTaken(m, p) ==
  /\ m \in alive
  /\ initialized
  /\ p \notin Broken
  /\ IF loaded[m][NameOf[p]] = None
       THEN /\ loaded' = [loaded EXCEPT ![m][NameOf[p]] = p]
            /\ active' = [active EXCEPT ![p] = @ + 1]
       ELSE UNCHANGED <<loaded, active>>
  /\ refs' = [refs EXCEPT ![p] = @ + 1]
  /\ UNCHANGED <<alive, initialized, users, strayCall>>

\* load_module.  The file is opened, asked for its descriptor, and closed
\* again if that fails, if its name is taken, or if its init hook refuses.
LoadModule(m, p) ==
  /\ m \in alive
  /\ \/ UNCHANGED vars                   \* no libltdl, or lt_dlopen failed
     \/ /\ initialized
        /\ LET opened == [refs EXCEPT ![p] = @ + 1]
               closed == [opened EXCEPT ![p] = Close(@)]
               name == NameOf[p]
           IN \/ /\ \/ p \in Broken
                    \/ p \notin Broken /\ loaded[m][name] # None
                    \/ p \in MayRefuse \ Broken /\ loaded[m][name] = None
                 /\ refs' = closed
                 /\ UNCHANGED <<loaded, active>>
              \/ /\ p \notin Broken
                 /\ loaded[m][name] = None
                 /\ refs' = opened
                 /\ active' = [active EXCEPT ![p] = @ + 1]
                 /\ loaded' = [loaded EXCEPT ![m][name] = p]
        /\ UNCHANGED <<alive, initialized, users, strayCall>>

\* Mutant: the handle is closed and the deinit hook not called.
Drop_WithoutDeinit(files) ==
  /\ refs' = [p \in Paths |-> IF p \in files THEN Close(refs[p]) ELSE refs[p]]
  /\ UNCHANGED <<active, strayCall>>

\* Mutant: the file is closed before its deinit hook is called.
Drop_ClosesFirst(files) ==
  /\ active' = [p \in Paths |-> IF p \in files THEN active[p] - 1 ELSE active[p]]
  /\ strayCall' = (strayCall \/ \E p \in files : Close(refs[p]) = 0)
  /\ refs' = [p \in Paths |-> IF p \in files THEN Close(refs[p]) ELSE refs[p]]

\* ~ModuleHandle of each file: deinit, which is code of the file, then close.
Drop(files) ==
  /\ active' = [p \in Paths |-> IF p \in files THEN active[p] - 1 ELSE active[p]]
  /\ strayCall' = (strayCall \/ \E p \in files : refs[p] = 0)
  /\ refs' = [p \in Paths |-> IF p \in files THEN Close(refs[p]) ELSE refs[p]]

UnloadModule(m, n) ==
  /\ m \in alive
  /\ loaded[m][n] # None
  /\ Drop({loaded[m][n]})
  /\ loaded' = [loaded EXCEPT ![m][n] = None]
  /\ UNCHANGED <<alive, initialized, users>>

UnloadAll(m) ==
  /\ m \in alive
  /\ Drop(Listed(m))
  /\ loaded' = [loaded EXCEPT ![m] = NoModules]
  /\ UNCHANGED <<alive, initialized, users>>

\* Mutant: the flag stays set after lt_dlexit.
Destroy_KeepsFlag(m) ==
  /\ m \in alive
  /\ alive' = alive \ {m}
  /\ loaded' = [loaded EXCEPT ![m] = NoModules]
  /\ Drop(Listed(m))
  /\ users' = IF initialized THEN users - 1 ELSE users
  /\ UNCHANGED initialized

\* ~ModuleManager: unload_all, then cleanup_ltdl, for all managers at once.
Destroy(m) ==
  /\ m \in alive
  /\ alive' = alive \ {m}
  /\ loaded' = [loaded EXCEPT ![m] = NoModules]
  /\ IF initialized /\ users = 1
       THEN \* the last lt_dlexit closes what the manager left open
            /\ active' = [p \in Paths |-> IF p \in Listed(m) THEN active[p] - 1 ELSE active[p]]
            /\ strayCall' = (strayCall \/ \E p \in Listed(m) : refs[p] = 0)
            /\ refs' = [p \in Paths |-> 0]
       ELSE Drop(Listed(m))
  /\ initialized' = FALSE
  /\ users' = IF initialized THEN users - 1 ELSE users

\* on_vault_unlock, on_vault_lock and on_config call every listed module and
\* ignore what it answers.
CallHooks(m) ==
  /\ m \in alive
  /\ strayCall' = (strayCall \/ \E p \in Listed(m) : refs[p] = 0)
  /\ UNCHANGED <<alive, loaded, initialized, users, refs, active>>

Next == \E m \in Managers :
  \/ Construct(m) \/ UnloadAll(m) \/ Destroy(m) \/ CallHooks(m)
  \/ \E p \in Paths : LoadModule(m, p)
  \/ \E n \in Names : UnloadModule(m, n)

Spec == Init /\ [][Next]_vars

-----------------------------------------------------------------------------
Holders(p) == {c \in Managers \X Names : loaded[c[1]][c[2]] = p}

\* libltdl holds a file open once for every manager that lists it: no way out
\* of load_module leaks a handle, no module is listed whose code is gone
\* (modules.cpp:84-126, 16-23).
OpenWhileListed == \A p \in Paths : refs[p] = Cardinality(Holders(p))

\* Every init hook that succeeded is undone by one deinit hook, when the module
\* leaves the list and not before (modules.cpp:116-126, 16-23).
DeinitMatchesInit == \A p \in Paths : active[p] = Cardinality(Holders(p))

\* No hook is called in a file that libltdl has closed (modules.cpp:166-191).
NoStrayCall == ~strayCall

=============================================================================
