--------------------------- MODULE PluginsProofs ---------------------------
(***************************************************************************)
(* Theorems about Plugins, for any number of managers and any number of    *)
(* module files that may be broken, refuse or share a name.  The hooks are *)
(* paired also when managers live side by side; the files are held open    *)
(* when they come one after the other.                                     *)
(***************************************************************************)
EXTENDS Plugins, FiniteSetTheorems, TLAPS

\* In every environment a module is listed by a manager that exists, under the
\* name of its descriptor, and its hooks are counted by the managers that list it.
Hooked ==
  /\ TypeOK
  /\ \A m \in Managers, n \in Names :
       loaded[m][n] # None => m \in alive /\ NameOf[loaded[m][n]] = n
  /\ initialized => users > 0
  /\ \A p \in Paths : IsFiniteSet(Holders(p)) /\ active[p] = Cardinality(Holders(p))

Lists(p) == \E m \in Managers, n \in Names : loaded[m][n] = p

\* One manager at a time: what it lists is open once, and nothing else is.
InStep ==
  /\ \A m, k \in alive : m = k
  /\ \A p \in Paths : refs[p] = IF Lists(p) THEN 1 ELSE 0
  /\ strayCall = FALSE

-----------------------------------------------------------------------------
LEMMA HoldersAre ==
  ASSUME NEW p \in Paths
  PROVE  /\ Holders(p) \subseteq Managers \X Names
         /\ \A m \in Managers, n \in Names : <<m, n>> \in Holders(p) <=> loaded[m][n] = p
  BY DEF Holders

\* A manager lists a file under one name, so it counts once.
LEMMA HoldsOnce ==
  ASSUME Hooked, NEW m \in Managers, NEW p \in Paths
  PROVE  p \in Listed(m) <=> <<m, NameOf[p]>> \in Holders(p)
<1>1. NameOf[p] \in Names /\ p # None
  BY PluginsAssumption
<1> QED
  BY <1>1, HoldersAre DEF Listed, Hooked

\* Hooks are counted right if the counts change as the lists do.
LEMMA HooksCounted ==
  ASSUME Hooked, NEW p \in Paths, NEW c,
         \/ Holders(p)' = Holders(p) /\ active'[p] = active[p]
         \/ /\ c \notin Holders(p) /\ Holders(p)' = Holders(p) \cup {c}
            /\ active'[p] = active[p] + 1
         \/ /\ c \in Holders(p) /\ Holders(p)' = Holders(p) \ {c}
            /\ active'[p] = active[p] - 1
  PROVE  IsFiniteSet(Holders(p))' /\ active'[p] = Cardinality(Holders(p)')
<1>1. IsFiniteSet(Holders(p)) /\ active[p] = Cardinality(Holders(p))
  BY DEF Hooked
<1>2. Cardinality(Holders(p)) \in Nat
  BY <1>1, FS_CardinalityType
<1> QED
  BY <1>1, <1>2, FS_AddElement, FS_RemoveElement

-----------------------------------------------------------------------------
LEMMA HookedInit == Init => Hooked
<1> SUFFICES ASSUME Init PROVE Hooked
  OBVIOUS
<1>1. TypeOK
  <2>1. refs \in [Paths -> Nat] /\ active \in [Paths -> Int]
    BY DEF Init
  <2>2. loaded \in [Managers -> [Names -> Paths \cup {None}]]
    BY DEF Init, NoModules
  <2>3. users \in 0 .. MaxUsers
    BY PluginsAssumption DEF Init
  <2> QED
    BY <2>1, <2>2, <2>3 DEF Init, TypeOK
<1>2. \A m \in Managers, n \in Names : loaded[m][n] = None
  BY DEF Init, NoModules
<1>3. \A p \in Paths : Holders(p) = {} /\ active[p] = 0
  BY <1>2, HoldersAre, PluginsAssumption DEF Init, Holders
<1> QED
  BY <1>1, <1>2, <1>3, FS_EmptySet DEF Init, Hooked

\* No hook that matters is called by a constructor or a call of all modules.
LEMMA HookedQuiet ==
  ASSUME Hooked, (\E m \in Managers : Construct(m) \/ CallHooks(m)) \/ UNCHANGED vars
  PROVE  Hooked'
<1>1. TypeOK'
  <2>1. CASE \E m \in Managers : Construct(m)
    BY <2>1, PluginsAssumption DEF Construct, TypeOK, Hooked
  <2>2. CASE \E m \in Managers : CallHooks(m)
    <3>1. strayCall' \in BOOLEAN
      BY <2>2 DEF CallHooks
    <3> QED
      BY <2>2, <3>1 DEF CallHooks, TypeOK, Hooked
  <2>3. CASE UNCHANGED vars
    BY <2>3 DEF vars, TypeOK, Hooked
  <2> QED
    BY <2>1, <2>2, <2>3
<1>2. UNCHANGED <<loaded, active>> /\ alive \subseteq alive' /\ (initialized' => users' > 0)
  BY DEF Construct, CallHooks, vars, Hooked, TypeOK
<1> QED
  BY <1>1, <1>2 DEF Hooked, Holders

\* The init hook of a module that is listed has run once more.
LEMMA HookedLoad ==
  ASSUME Hooked, NEW m \in Managers, NEW p \in Paths, LoadModule(m, p)
  PROVE  Hooked'
<1> DEFINE name == NameOf[p]
           opened == [refs EXCEPT ![p] = @ + 1]
<1>1. name \in Names /\ p # None
  BY PluginsAssumption
<1>2. CASE UNCHANGED vars
  BY <1>2, HookedQuiet
<1>3. CASE /\ refs' = [opened EXCEPT ![p] = Close(@)]
           /\ UNCHANGED <<alive, loaded, active, initialized, users, strayCall>>
  <2>1. refs' = refs
    BY <1>3 DEF Close, Hooked, TypeOK
  <2> QED
    BY <1>3, <2>1, HookedQuiet DEF vars
<1>4. CASE /\ loaded[m][name] = None
           /\ refs' = opened
           /\ active' = [active EXCEPT ![p] = @ + 1]
           /\ loaded' = [loaded EXCEPT ![m][name] = p]
           /\ m \in alive
           /\ UNCHANGED <<alive, initialized, users, strayCall>>
  <2>1. TypeOK'
    BY <1>1, <1>4 DEF Hooked, TypeOK
  <2>2. \A k \in Managers, n \in Names :
          loaded'[k][n] = IF k = m /\ n = name THEN p ELSE loaded[k][n]
    BY <1>1, <1>4 DEF Hooked, TypeOK
  <2>3. <<m, name>> \notin Holders(p) /\ Holders(p)' = Holders(p) \cup {<<m, name>>}
    BY <1>1, <1>4, <2>2 DEF Holders
  <2>4. \A q \in Paths \ {p} : Holders(q)' = Holders(q)
    BY <1>1, <1>4, <2>2, PluginsAssumption DEF Holders
  <2>5. /\ active'[p] = active[p] + 1
        /\ \A q \in Paths \ {p} : active'[q] = active[q]
    BY <1>4 DEF Hooked, TypeOK
  <2>6. \A q \in Paths : IsFiniteSet(Holders(q))' /\ active'[q] = Cardinality(Holders(q)')
    BY <2>3, <2>4, <2>5, HooksCounted
  <2> QED
    BY <1>4, <2>1, <2>2, <2>6 DEF Hooked
<1> QED
  BY <1>2, <1>3, <1>4 DEF LoadModule

\* A module that leaves the list has its deinit hook called.
LEMMA HookedUnload ==
  ASSUME Hooked, NEW m \in Managers, NEW n \in Names, UnloadModule(m, n)
  PROVE  Hooked'
<1>1. PICK p \in Paths : p = loaded[m][n] /\ p # None
  BY DEF UnloadModule, Hooked, TypeOK
<1>2. \A k \in Managers, o \in Names :
        loaded'[k][o] = IF k = m /\ o = n THEN None ELSE loaded[k][o]
  BY DEF UnloadModule, Hooked, TypeOK
<1>3. <<m, n>> \in Holders(p)
  BY <1>1 DEF Holders
<1>4. Holders(p)' = Holders(p) \ {<<m, n>>}
  <2>1. \A c \in Managers \X Names : c = <<m, n>> <=> c[1] = m /\ c[2] = n
    OBVIOUS
  <2>2. \A c \in Managers \X Names :
          loaded'[c[1]][c[2]] = p <=> loaded[c[1]][c[2]] = p /\ c # <<m, n>>
    BY <1>1, <1>2, <2>1
  <2> QED
    BY <2>2 DEF Holders
<1>5. /\ active'[p] = active[p] - 1
      /\ \A q \in Paths \ {p} : active'[q] = active[q]
  BY <1>1 DEF UnloadModule, Drop
<1>6. \A q \in Paths \ {p} : Holders(q)' = Holders(q)
  BY <1>1, <1>2, PluginsAssumption DEF Holders
<1>7. \A q \in Paths : IsFiniteSet(Holders(q))' /\ active'[q] = Cardinality(Holders(q)')
  <2>1. IsFiniteSet(Holders(p))' /\ active'[p] = Cardinality(Holders(p)')
    BY <1>1, <1>3, <1>4, <1>5, HooksCounted
  <2>2. \A q \in Paths \ {p} : IsFiniteSet(Holders(q))' /\ active'[q] = Cardinality(Holders(q)')
    BY <1>5, <1>6, HooksCounted, Zenon
  <2> QED
    BY <2>1, <2>2
<1>8. TypeOK'
  <2>1. refs' \in [Paths -> Nat] /\ active' \in [Paths -> Int]
    BY DEF UnloadModule, Drop, Close, Hooked, TypeOK
  <2>2. loaded' \in [Managers -> [Names -> Paths \cup {None}]]
    BY DEF UnloadModule, Hooked, TypeOK
  <2>3. strayCall' \in BOOLEAN
    BY DEF UnloadModule, Drop
  <2> QED
    BY <2>1, <2>2, <2>3 DEF UnloadModule, Hooked, TypeOK
<1>9. \A k \in Managers, o \in Names :
        loaded'[k][o] # None => k \in alive' /\ NameOf[loaded'[k][o]] = o
  BY <1>2 DEF UnloadModule, Hooked
<1> QED
  BY <1>7, <1>8, <1>9 DEF UnloadModule, Hooked

\* A manager that unloads all its modules has each deinit hook called once.
LEMMA HookedUnloadAll ==
  ASSUME Hooked, NEW m \in Managers,
         loaded' = [loaded EXCEPT ![m] = NoModules],
         active' = [p \in Paths |-> IF p \in Listed(m) THEN active[p] - 1 ELSE active[p]]
  PROVE  /\ loaded' \in [Managers -> [Names -> Paths \cup {None}]]
         /\ active' \in [Paths -> Int]
         /\ \A k \in Managers, n \in Names :
              loaded'[k][n] = IF k = m THEN None ELSE loaded[k][n]
         /\ \A p \in Paths : IsFiniteSet(Holders(p))' /\ active'[p] = Cardinality(Holders(p)')
<1>1. loaded' \in [Managers -> [Names -> Paths \cup {None}]]
  BY DEF Hooked, TypeOK, NoModules
<1>2. active' \in [Paths -> Int]
  BY DEF Hooked, TypeOK
<1>3. \A k \in Managers, n \in Names : loaded'[k][n] = IF k = m THEN None ELSE loaded[k][n]
  BY DEF Hooked, TypeOK, NoModules
<1>4. ASSUME NEW p \in Paths
      PROVE  IsFiniteSet(Holders(p))' /\ active'[p] = Cardinality(Holders(p)')
  <2> DEFINE c == <<m, NameOf[p]>>
  <2>1. NameOf[p] \in Names /\ p # None
    BY PluginsAssumption
  <2>2. Holders(p)' = Holders(p) \ {c}
    BY <1>3, <2>1 DEF Holders, Hooked
  <2>3. CASE p \in Listed(m)
    <3>1. c \in Holders(p) /\ active'[p] = active[p] - 1
      BY <2>3, HoldsOnce
    <3> QED
      BY <2>2, <3>1, HooksCounted
  <2>4. CASE p \notin Listed(m)
    <3>1. c \notin Holders(p) /\ active'[p] = active[p]
      BY <2>4, HoldsOnce
    <3>2. Holders(p)' = Holders(p)
      BY <2>2, <3>1
    <3> QED
      BY <3>1, <3>2, HooksCounted
  <2> QED
    BY <2>3, <2>4
<1> QED
  BY <1>1, <1>2, <1>3, <1>4

LEMMA HookedLeave ==
  ASSUME Hooked, NEW m \in Managers, UnloadAll(m) \/ Destroy(m)
  PROVE  Hooked'
<1>1. /\ loaded' = [loaded EXCEPT ![m] = NoModules]
      /\ active' = [p \in Paths |-> IF p \in Listed(m) THEN active[p] - 1 ELSE active[p]]
  BY DEF UnloadAll, Destroy, Drop
<1>2. /\ loaded' \in [Managers -> [Names -> Paths \cup {None}]]
      /\ active' \in [Paths -> Int]
      /\ \A k \in Managers, n \in Names :
           loaded'[k][n] = IF k = m THEN None ELSE loaded[k][n]
      /\ \A p \in Paths : IsFiniteSet(Holders(p))' /\ active'[p] = Cardinality(Holders(p)')
  BY <1>1, HookedUnloadAll
<1>3. TypeOK'
  <2>1. refs' \in [Paths -> Nat]
    BY DEF UnloadAll, Destroy, Drop, Close, Hooked, TypeOK
  <2>2. strayCall' \in BOOLEAN
    BY DEF UnloadAll, Destroy, Drop
  <2>3. users' \in 0 .. MaxUsers
    BY PluginsAssumption DEF UnloadAll, Destroy, Hooked, TypeOK
  <2>4. initialized' \in BOOLEAN /\ alive' \subseteq Managers
    BY DEF UnloadAll, Destroy, Hooked, TypeOK
  <2> QED
    BY <1>2, <2>1, <2>2, <2>3, <2>4 DEF TypeOK
<1>4. \A k \in Managers, n \in Names :
        loaded'[k][n] # None => k \in alive' /\ NameOf[loaded'[k][n]] = n
  BY <1>2 DEF UnloadAll, Destroy, Hooked
<1>5. initialized' => users' > 0
  BY DEF UnloadAll, Destroy, Hooked
<1> QED
  BY <1>2, <1>3, <1>4, <1>5 DEF Hooked

LEMMA HookedNext ==
  ASSUME Hooked, [Next]_vars
  PROVE  Hooked'
  BY HookedQuiet, HookedLoad, HookedUnload, HookedLeave DEF Next

LEMMA HooksHold == Spec => []Hooked
  BY HookedInit, HookedNext, PTL DEF Spec

-----------------------------------------------------------------------------
LEMMA HoldersCounted ==
  ASSUME Hooked, InStep, NEW p \in Paths
  PROVE  Cardinality(Holders(p)) = IF Lists(p) THEN 1 ELSE 0
<1>1. CASE ~Lists(p)
  <2>1. Holders(p) = {}
    BY <1>1 DEF Lists, Holders
  <2> QED
    BY <1>1, <2>1, FS_EmptySet
<1>2. CASE Lists(p)
  <2>1. PICK m \in Managers, n \in Names : loaded[m][n] = p
    BY <1>2 DEF Lists
  <2>2. m \in alive /\ NameOf[p] = n /\ p # None
    BY <2>1, PluginsAssumption DEF Hooked
  <2>3. ASSUME NEW k \in Managers, NEW o \in Names, loaded[k][o] = p PROVE k = m /\ o = n
    BY <2>2, <2>3 DEF Hooked, InStep
  <2>4. Holders(p) = {<<m, n>>}
    BY <2>1, <2>3 DEF Holders
  <2> QED
    BY <1>2, <2>4, FS_Singleton
<1> QED
  BY <1>1, <1>2

\* Hooks called in files that are open are no stray calls.
LEMMA OpenNotStray ==
  ASSUME strayCall = FALSE, NEW files, \A p \in files : refs[p] # 0,
         strayCall' = (strayCall \/ \E p \in files : refs[p] = 0)
  PROVE  strayCall' = FALSE
<1>1. ~(\E p \in files : refs[p] = 0)
  OBVIOUS
<1>2. (strayCall \/ \E p \in files : refs[p] = 0) = FALSE
  BY <1>1, Zenon
<1> QED
  BY <1>2, Zenon

\* The files a manager drops are the files anyone lists: nobody else lists any.
LEMMA DropAll ==
  ASSUME Hooked, InStep, NEW m \in alive, NEW p \in Paths
  PROVE  p \in Listed(m) <=> Lists(p)
<1>1. m \in Managers /\ p # None
  BY PluginsAssumption DEF Hooked, TypeOK
<1> QED
  BY <1>1 DEF Lists, Listed, Hooked, InStep

-----------------------------------------------------------------------------
LEMMA ConstructKeeps ==
  ASSUME ~Overlap, Hooked, InStep, NEW m \in Managers, Construct(m)
  PROVE  InStep'
  BY DEF Construct, InStep, Lists

\* A file that is not listed is opened; on every way that fails it is closed again.
LEMMA LoadModuleKeeps ==
  ASSUME Hooked, InStep, NEW m \in Managers, NEW p \in Paths, LoadModule(m, p)
  PROVE  InStep'
<1> DEFINE name == NameOf[p]
           opened == [refs EXCEPT ![p] = @ + 1]
<1>1. name \in Names /\ p # None
  BY PluginsAssumption
<1>2. CASE UNCHANGED vars
  BY <1>2 DEF vars, InStep, Lists
<1>3. CASE /\ refs' = [opened EXCEPT ![p] = Close(@)]
           /\ UNCHANGED <<alive, loaded, active, initialized, users, strayCall>>
  <2>1. refs' = refs
    BY <1>3 DEF Close, Hooked, TypeOK
  <2> QED
    BY <1>3, <2>1 DEF InStep, Lists
<1>4. CASE /\ loaded[m][name] = None
           /\ refs' = opened
           /\ loaded' = [loaded EXCEPT ![m][name] = p]
           /\ m \in alive
           /\ UNCHANGED <<alive, initialized, users, strayCall>>
  <2>1. \A k \in Managers, n \in Names :
          loaded'[k][n] = IF k = m /\ n = name THEN p ELSE loaded[k][n]
    BY <1>1, <1>4 DEF Hooked, TypeOK
  <2>2. ~Lists(p)
    BY <1>1, <1>4 DEF Hooked, InStep, Lists
  <2>3. \A q \in Paths : Lists(q)' <=> q = p \/ Lists(q)
    BY <1>1, <1>4, <2>1, PluginsAssumption DEF Lists
  <2>4. \A q \in Paths : refs'[q] = IF Lists(q)' THEN 1 ELSE 0
    BY <1>4, <2>2, <2>3 DEF InStep, Hooked, TypeOK
  <2> QED
    BY <1>4, <2>4 DEF InStep
<1> QED
  BY <1>2, <1>3, <1>4 DEF LoadModule

LEMMA UnloadModuleKeeps ==
  ASSUME Hooked, InStep, NEW m \in Managers, NEW n \in Names, UnloadModule(m, n)
  PROVE  InStep'
<1> DEFINE p == loaded[m][n]
<1>1. p \in Paths /\ p # None /\ Lists(p) /\ refs[p] = 1
  BY DEF UnloadModule, Hooked, TypeOK, InStep, Lists
<1>2. strayCall' = FALSE
  <2>1. strayCall = FALSE /\ strayCall' = (strayCall \/ \E q \in {p} : refs[q] = 0)
    BY DEF UnloadModule, Drop, InStep
  <2>2. \A q \in {p} : refs[q] # 0
    BY <1>1
  <2> QED
    BY <2>1, <2>2, OpenNotStray, Zenon
<1>3. refs' = [q \in Paths |-> IF q = p THEN 0 ELSE refs[q]]
  BY <1>1 DEF UnloadModule, Drop, Close
<1>4. \A k \in Managers, o \in Names :
        loaded'[k][o] = IF k = m /\ o = n THEN None ELSE loaded[k][o]
  BY DEF UnloadModule, Hooked, TypeOK
<1>5. \A q \in Paths : Lists(q)' <=> q # p /\ Lists(q)
  BY <1>1, <1>4, PluginsAssumption DEF Lists, Hooked, InStep, UnloadModule
<1>6. \A q \in Paths : refs'[q] = IF Lists(q)' THEN 1 ELSE 0
  BY <1>3, <1>5 DEF InStep
<1> QED
  BY <1>2, <1>6 DEF UnloadModule, InStep

\* unload_all and the destructor leave no module listed or open.
LEMMA NothingListed ==
  ASSUME Hooked, InStep, NEW m \in alive, loaded' = [loaded EXCEPT ![m] = NoModules]
  PROVE  \A p \in Paths : ~Lists(p)'
<1>1. m \in Managers
  BY DEF Hooked, TypeOK
<1>2. \A k \in Managers, n \in Names : loaded'[k][n] = None
  BY <1>1 DEF Hooked, TypeOK, NoModules, InStep
<1> QED
  BY <1>2, PluginsAssumption DEF Lists

LEMMA ListedOpen ==
  ASSUME Hooked, InStep, NEW m \in alive
  PROVE  /\ \A p \in Listed(m) : refs[p] # 0
         /\ \A p \in Paths : (IF p \in Listed(m) THEN Close(refs[p]) ELSE refs[p]) = 0
<1>1. \A p \in Paths : p \in Listed(m) <=> Lists(p)
  BY DropAll
<1>2. \A p \in Listed(m) : p \in Paths
  BY DEF Listed, Hooked, TypeOK
<1> QED
  BY <1>1, <1>2 DEF InStep, Close

LEMMA LeaveKeeps ==
  ASSUME Hooked, InStep, NEW m \in Managers, UnloadAll(m) \/ Destroy(m)
  PROVE  InStep'
<1>1. m \in alive /\ loaded' = [loaded EXCEPT ![m] = NoModules]
  BY DEF UnloadAll, Destroy
<1>2. refs' = [p \in Paths |-> 0]
  BY <1>1, ListedOpen DEF UnloadAll, Destroy, Drop
<1>3. strayCall' = FALSE
  <2>1. strayCall = FALSE /\ strayCall' = (strayCall \/ \E p \in Listed(m) : refs[p] = 0)
    BY DEF UnloadAll, Destroy, Drop, InStep
  <2>2. \A p \in Listed(m) : refs[p] # 0
    BY <1>1, ListedOpen
  <2> QED
    BY <2>1, <2>2, OpenNotStray, Zenon
<1>4. \A p \in Paths : ~Lists(p)'
  BY <1>1, NothingListed
<1>5. alive' \subseteq alive
  BY DEF UnloadAll, Destroy
<1> QED
  BY <1>2, <1>3, <1>4, <1>5 DEF InStep

LEMMA CallHooksKeeps ==
  ASSUME Hooked, InStep, NEW m \in Managers, CallHooks(m)
  PROVE  InStep'
<1>1. \A p \in Listed(m) : refs[p] # 0
  BY ListedOpen DEF CallHooks
<1>2. strayCall' = FALSE
  BY <1>1, OpenNotStray DEF CallHooks, InStep
<1> QED
  BY <1>2 DEF CallHooks, InStep, Lists

-----------------------------------------------------------------------------
LEMMA PluginsSafe == ASSUME ~Overlap PROVE Spec => [](Hooked /\ InStep)
<1>1. Init => Hooked /\ InStep
  <2> SUFFICES ASSUME Init PROVE Hooked /\ InStep
    OBVIOUS
  <2>1. \A p \in Paths : ~Lists(p)
    BY PluginsAssumption DEF Init, NoModules, Lists
  <2> QED
    BY <2>1, HookedInit DEF Init, InStep
<1>2. Hooked /\ InStep /\ [Next]_vars => (Hooked /\ InStep)'
  <2> SUFFICES ASSUME Hooked, InStep, [Next]_vars PROVE (Hooked /\ InStep)'
    OBVIOUS
  <2>1. CASE UNCHANGED vars
    BY <2>1, HookedNext DEF vars, InStep, Lists
  <2>2. CASE Next
    BY <2>2, HookedNext, ConstructKeeps, LoadModuleKeeps, UnloadModuleKeeps, LeaveKeeps,
       CallHooksKeeps DEF Next
  <2> QED
    BY <2>1, <2>2
<1> QED
  BY <1>1, <1>2, PTL DEF Spec

\* However many managers live at a time every variable has its type; the count of
\* initialisations never goes below zero among them.
THEOREM PluginsTyped == Spec => []TypeOK
<1>1. Hooked => TypeOK
  BY DEF Hooked
<1> QED
  BY <1>1, HooksHold, PTL

\* As long as one manager lives at a time libltdl holds a file open once while it
\* is listed and not longer, whatever fails on the way of load_module
\* (modules.cpp:16-23, 84-126).
THEOREM OpenExactlyWhileListed == ASSUME ~Overlap PROVE Spec => []OpenWhileListed
<1>1. Hooked /\ InStep => OpenWhileListed
  BY HoldersCounted DEF OpenWhileListed, InStep
<1> QED
  BY <1>1, PluginsSafe, PTL

\* Every init hook that succeeded is undone by one deinit hook when the module
\* leaves a list, also when several managers list it or one shuts libltdl down
\* under the others (modules.cpp:16-23, 116-126).
THEOREM HooksPaired == Spec => []DeinitMatchesInit
<1>1. Hooked => DeinitMatchesInit
  BY DEF DeinitMatchesInit, Hooked
<1> QED
  BY <1>1, HooksHold, PTL

\* As long as one manager lives at a time no hook is called in a file that libltdl
\* has closed, also by the destructor of the last manager (modules.cpp:16-23,
\* 166-191).
THEOREM HooksInOpenFiles == ASSUME ~Overlap PROVE Spec => []NoStrayCall
<1>1. Hooked /\ InStep => NoStrayCall
  BY DEF NoStrayCall, InStep
<1> QED
  BY <1>1, PluginsSafe, PTL
=============================================================================
