--------------------------- MODULE BuffersProofs ---------------------------
(***************************************************************************)
(* Theorems about Buffers, for any number of buffers, deliveries, blocks   *)
(* and pages.  No lock outlives its buffer, whatever fails; who owns a block *)
(* and that it is wiped needs that no allocation of a delivery throws.     *)
(***************************************************************************)
EXTENDS Buffers, TLAPS

\* What holds in every environment: only an object that exists has a block, and
\* the locks follow the SecureBuffers, wherever a delivery may point.
Locks ==
  /\ TypeOK
  /\ \A o \in Objects : cell[o] # None => o \in alive
  /\ LocksAreReturned

Inv ==
  /\ Locks
  /\ FreedIsZero
  /\ OneOwner
  /\ LockedHoldsNothing

-----------------------------------------------------------------------------
\* In the beginning there are no objects.
LEMMA LocksInit == Init => Locks
  BY DEF Init, Locks, TypeOK, Objects, LocksAreReturned

\* A new buffer may lock its page, on which it lies.
LEMMA LocksConstruct ==
  ASSUME Locks, NEW b \in Secure, Construct(b)
  PROVE  Locks'
<1> USE BuffersAssumption DEF Locks, TypeOK, Objects
<1>1. TypeOK'
  BY DEF Construct
<1>2. \A o \in Objects : cell'[o] # None => o \in alive'
  BY DEF Construct
<1>3. LocksAreReturned'
  <2> SUFFICES ASSUME NEW page \in pinned' PROVE Owners(page)' # {}
    BY DEF LocksAreReturned
  <2>1. cell[b] = None
    BY DEF Construct
  <2>2. Owners(page) \subseteq Owners(page)'
    BY <2>1 DEF Construct, Owners
  <2>3. CASE page \in pinned
    BY <2>2, <2>3 DEF LocksAreReturned
  <2>4. CASE page \notin pinned
    BY <2>4 DEF Construct, Owners
  <2> QED
    BY <2>3, <2>4
<1> QED
  BY <1>1, <1>2, <1>3

\* A block that is given back takes the lock of its page with it, so that no page is
\* locked for a buffer that is gone.
LEMMA LocksDestroy ==
  ASSUME Locks, NEW b \in Secure, Destroy(b)
  PROVE  Locks'
<1> USE BuffersAssumption DEF Locks, TypeOK, Objects
<1>1. TypeOK'
  BY DEF Destroy, Release, PagesOf, time
<1>2. \A o \in Objects : cell'[o] # None => o \in alive'
  BY DEF Destroy
<1>3. LocksAreReturned'
  BY DEF Destroy, Release, PagesOf, LocksAreReturned, Owners
<1> QED
  BY <1>1, <1>2, <1>3

\* A lock moves with its block; an assignment gives back the old block first, and
\* the new one may lie on its page.
LEMMA LocksMove ==
  ASSUME Locks, NEW to \in Secure, NEW from \in Secure,
         MoveConstruct(to, from) \/ MoveAssign(to, from)
  PROVE  Locks'
<1> USE BuffersAssumption DEF Locks, TypeOK, Objects
<1>1. CASE MoveConstruct(to, from)
  <2>1. TypeOK' /\ \A o \in Objects : cell'[o] # None => o \in alive'
    BY <1>1 DEF MoveConstruct, time
  <2>2. cell[to] = None
    BY <1>1 DEF MoveConstruct
  <2>3. LocksAreReturned'
    BY <1>1, <2>2 DEF MoveConstruct, LocksAreReturned, Owners
  <2> QED
    BY <2>1, <2>2, <2>3
<1>2. CASE MoveAssign(to, from)
  <2>1. TypeOK'
    BY <1>2 DEF MoveAssign, Release, PagesOf, time
  <2>2. \A o \in Objects : cell'[o] # None => o \in alive'
    BY <1>2 DEF MoveAssign
  <2>3. LocksAreReturned'
    BY <1>2 DEF MoveAssign, Release, PagesOf, LocksAreReturned, Owners
  <2> QED
    BY <2>1, <2>2, <2>3
<1> QED
  BY <1>1, <1>2

\* No other call of a buffer touches a block or a lock.
LEMMA LocksUse ==
  ASSUME Locks,
         \/ \E b \in Secure : Fill(b) \/ Zero(b)
         \/ \E b \in Timed : Lock(b) \/ RefreshTimeout(b) \/ Expires(b)
         \/ UNCHANGED vars
  PROVE  Locks'
<1> USE BuffersAssumption DEF Locks, TypeOK, Objects
<1>1. TypeOK'
  BY DEF Fill, Zero, Lock, RefreshTimeout, Expires, vars, time
<1>2. UNCHANGED <<alive, cell, pinned>>
  BY DEF Fill, Zero, Lock, RefreshTimeout, Expires, vars, time
<1> QED
  BY <1>1, <1>2 DEF LocksAreReturned, Owners

\* A delivery has no lock, also when it points to a block it has lost.
LEMMA LocksDelivery ==
  ASSUME Locks, NEW d \in Deliveries, NewDelivery(d) \/ Deliver(d) \/ DestroyDelivery(d)
  PROVE  Locks'
<1> USE BuffersAssumption DEF Locks, TypeOK, Objects
<1>1. CASE NewDelivery(d)
  BY <1>1 DEF NewDelivery, time, LocksAreReturned, Owners
<1>2. CASE Deliver(d)
  <2>1. TypeOK' /\ \A o \in Objects : cell'[o] # None => o \in alive'
    BY <1>2 DEF Deliver, time
  <2>2. \A b \in Secure : cell'[b] = cell[b]
    BY <1>2 DEF Deliver
  <2>3. UNCHANGED <<pinned>>
    BY <1>2 DEF Deliver
  <2> QED
    BY <2>1, <2>2, <2>3 DEF LocksAreReturned, Owners
<1>3. CASE DestroyDelivery(d)
  <2>1. TypeOK' /\ \A o \in Objects : cell'[o] # None => o \in alive'
    BY <1>3 DEF DestroyDelivery, time
  <2>2. \A b \in Secure : cell'[b] = cell[b]
    BY <1>3 DEF DestroyDelivery
  <2>3. UNCHANGED <<pinned>>
    BY <1>3 DEF DestroyDelivery
  <2> QED
    BY <2>1, <2>2, <2>3 DEF LocksAreReturned, Owners
<1> QED
  BY <1>1, <1>2, <1>3

LEMMA LocksNext ==
  ASSUME Locks, [Next]_vars
  PROVE  Locks'
  BY LocksConstruct, LocksDestroy, LocksMove, LocksUse, LocksDelivery DEF Next

LEMMA LocksHold == Spec => []Locks
  BY LocksInit, LocksNext, PTL DEF Spec

-----------------------------------------------------------------------------
\* In the beginning there are no objects.
LEMMA InvInit == Init => Inv
<1> SUFFICES ASSUME Init PROVE Inv
  OBVIOUS
<1>1. Locks
  BY LocksInit
<1>2. FreedIsZero /\ OneOwner
  BY DEF Init, FreedIsZero, OneOwner, Objects
<1>3. LockedHoldsNothing
  BY DEF Init, LockedHoldsNothing, Objects
<1> QED
  BY <1>1, <1>2, <1>3 DEF Inv

\* A new buffer takes a free block, which had no owner and held no secret.
LEMMA InvConstruct ==
  ASSUME Inv, NEW b \in Secure, Construct(b)
  PROVE  Inv'
<1> USE BuffersAssumption DEF Inv, Locks, TypeOK, Objects
<1>1. Locks'
  BY LocksConstruct
<1>2. FreedIsZero'
  BY DEF Construct, FreedIsZero
<1>3. OneOwner'
  BY DEF Construct, OneOwner
<1>4. LockedHoldsNothing'
  BY DEF Construct, LockedHoldsNothing, OneOwner
<1> QED
  BY <1>1, <1>2, <1>3, <1>4

\* A block that is given back is wiped.
LEMMA InvDestroy ==
  ASSUME Inv, NEW b \in Secure, Destroy(b)
  PROVE  Inv'
<1> USE BuffersAssumption DEF Inv, Locks, TypeOK, Objects
<1>1. Locks'
  BY LocksDestroy
<1>2. FreedIsZero'
  BY DEF Destroy, Release, FreedIsZero
<1>3. OneOwner'
  BY DEF Destroy, Release, OneOwner
<1>4. LockedHoldsNothing'
  BY DEF Destroy, Release, LockedHoldsNothing, time
<1> QED
  BY <1>1, <1>2, <1>3, <1>4

\* A move changes the owner of a block and nothing else.
LEMMA InvMoveConstruct ==
  ASSUME Inv, NEW to \in Secure, NEW from \in Secure, MoveConstruct(to, from)
  PROVE  Inv'
<1> USE BuffersAssumption DEF Inv, Locks, TypeOK, Objects
<1>1. Locks'
  BY LocksMove
<1>2. FreedIsZero'
  BY DEF MoveConstruct, FreedIsZero
<1>3. OneOwner'
  BY DEF MoveConstruct, OneOwner
<1>4. LockedHoldsNothing'
  BY DEF MoveConstruct, LockedHoldsNothing, time
<1> QED
  BY <1>1, <1>2, <1>3, <1>4

\* An assignment wipes and gives back the old block first.
LEMMA InvMoveAssign ==
  ASSUME Inv, NEW to \in Secure, NEW from \in Secure, MoveAssign(to, from)
  PROVE  Inv'
<1> USE BuffersAssumption DEF Inv, Locks, TypeOK, Objects
<1>1. Locks'
  BY LocksMove
<1>2. FreedIsZero'
  BY DEF MoveAssign, Release, FreedIsZero
<1>3. OneOwner'
  BY DEF MoveAssign, Release, OneOwner
<1>4. LockedHoldsNothing'
  BY DEF MoveAssign, Release, LockedHoldsNothing, time
<1> QED
  BY <1>1, <1>2, <1>3, <1>4

\* A secret is written only where no locked buffer lies, and wiping a block harms
\* nobody.
LEMMA InvContent ==
  ASSUME Inv, NEW b \in Secure, Fill(b) \/ Zero(b)
  PROVE  Inv'
<1> USE BuffersAssumption DEF Inv, Locks, TypeOK, Objects
<1>1. Locks'
  BY LocksUse
<1>2. FreedIsZero'
  BY DEF Fill, Zero, FreedIsZero, OneOwner
<1>3. OneOwner'
  BY DEF Fill, Zero, OneOwner
<1>4. LockedHoldsNothing'
  BY DEF Fill, Zero, LockedHoldsNothing, OneOwner, Usable, time
<1> QED
  BY <1>1, <1>2, <1>3, <1>4

\* A buffer that is locked is wiped; time passing or being set back writes nothing.
LEMMA InvTime ==
  ASSUME Inv, NEW b \in Timed, Lock(b) \/ RefreshTimeout(b) \/ Expires(b)
  PROVE  Inv'
<1> USE BuffersAssumption DEF Inv, Locks, TypeOK, Objects
<1>1. Locks'
  BY LocksUse
<1>2. FreedIsZero'
  BY DEF Lock, RefreshTimeout, Expires, FreedIsZero
<1>3. OneOwner'
  BY DEF Lock, RefreshTimeout, Expires, OneOwner
<1>4. LockedHoldsNothing'
  BY DEF Lock, RefreshTimeout, Expires, LockedHoldsNothing
<1> QED
  BY <1>1, <1>2, <1>3, <1>4

\* A delivery whose allocation succeeds owns one block, which no buffer has.
LEMMA InvDelivery ==
  ASSUME Inv, ~NewFails, NEW d \in Deliveries,
         NewDelivery(d) \/ Deliver(d) \/ DestroyDelivery(d)
  PROVE  Inv'
<1> USE BuffersAssumption DEF Inv, Locks, TypeOK, Objects
<1> Locks'
  BY LocksDelivery
<1>1. CASE NewDelivery(d)
  BY <1>1 DEF NewDelivery, time, FreedIsZero, OneOwner, LockedHoldsNothing
<1>2. CASE Deliver(d)
  <2>1. FreedIsZero'
    BY <1>2 DEF Deliver, FreedIsZero
  <2>2. OneOwner'
    BY <1>2 DEF Deliver, OneOwner
  <2>3. LockedHoldsNothing'
    BY <1>2 DEF Deliver, LockedHoldsNothing, OneOwner, time
  <2> QED
    BY <2>1, <2>2, <2>3
<1>3. CASE DestroyDelivery(d)
  <2>1. FreedIsZero'
    BY <1>3 DEF DestroyDelivery, FreedIsZero
  <2>2. OneOwner'
    BY <1>3 DEF DestroyDelivery, OneOwner
  <2>3. LockedHoldsNothing'
    BY <1>3 DEF DestroyDelivery, LockedHoldsNothing, time
  <2> QED
    BY <2>1, <2>2, <2>3
<1> QED
  BY <1>1, <1>2, <1>3

LEMMA InvNext ==
  ASSUME Inv, ~NewFails, [Next]_vars
  PROVE  Inv'
<1>1. CASE \E b \in Secure : Construct(b) \/ Destroy(b) \/ Fill(b) \/ Zero(b)
  BY <1>1, InvConstruct, InvDestroy, InvContent
<1>2. CASE \E to, from \in Secure : MoveConstruct(to, from) \/ MoveAssign(to, from)
  BY <1>2, InvMoveConstruct, InvMoveAssign
<1>3. CASE \E b \in Timed : Lock(b) \/ RefreshTimeout(b) \/ Expires(b)
  BY <1>3, InvTime
<1>4. CASE \E d \in Deliveries : NewDelivery(d) \/ Deliver(d) \/ DestroyDelivery(d)
  BY <1>4, InvDelivery
<1>5. CASE UNCHANGED vars
  <2>1. Locks'
    BY <1>5, LocksUse DEF Inv
  <2> QED
    BY <1>5, <2>1 DEF vars, time, Inv, Objects, FreedIsZero, OneOwner, LockedHoldsNothing
<1> QED
  BY <1>1, <1>2, <1>3, <1>4, <1>5 DEF Next

-----------------------------------------------------------------------------
LEMMA BuffersSafe == ASSUME ~NewFails PROVE Spec => []Inv
  BY InvInit, InvNext, PTL DEF Spec

\* Whatever fails, every variable has its type.
THEOREM BuffersTyped == Spec => []TypeOK
<1>1. Locks => TypeOK
  BY DEF Locks
<1> QED
  BY <1>1, LocksHold, PTL

\* As long as no allocation of a delivery throws, no block with a secret in it goes
\* back to the heap: destructors, moves and deliveries (memory.cpp:43-75,
\* delivery.cpp:57-82).
THEOREM BuffersWiped == ASSUME ~NewFails PROVE Spec => []FreedIsZero
<1>1. Inv => FreedIsZero
  BY DEF Inv
<1> QED
  BY <1>1, BuffersSafe, PTL

\* Under the same assumption every block in use has one object that wipes and
\* frees it, through every move (memory.cpp:56-69, delivery.cpp:66-82).
THEOREM BuffersOwned == ASSUME ~NewFails PROVE Spec => []OneOwner
<1>1. Inv => OneOwner
  BY DEF Inv
<1> QED
  BY <1>1, BuffersSafe, PTL

\* No page stays locked once no SecureBuffer lies on it (memory.cpp:49-69).
THEOREM LocksReturned == Spec => []LocksAreReturned
<1>1. Locks => LocksAreReturned
  BY DEF Locks
<1> QED
  BY <1>1, LocksHold, PTL

\* As long as no allocation of a delivery throws, a TimeLimitedBuffer that was
\* locked stays without a secret, also when it is refreshed or expires
\* (memory.cpp:89-118).
THEOREM LockedEmpty == ASSUME ~NewFails PROVE Spec => []LockedHoldsNothing
<1>1. Inv => LockedHoldsNothing
  BY DEF Inv
<1> QED
  BY <1>1, BuffersSafe, PTL
=============================================================================
