------------------------------ MODULE Buffers ------------------------------
(***************************************************************************)
(* The buffers for secrets of one process: SecureBuffer and                *)
(* TimeLimitedBuffer (src/src/memory.cpp) and MemoryDelivery               *)
(* (src/src/delivery.cpp).  A cell is a block of the heap; it keeps what   *)
(* was written to it when it is freed.  mlock and munlock work on pages,   *)
(* count nothing, and their results are ignored.                           *)
(***************************************************************************)
EXTENDS FiniteSets

CONSTANTS
  Secure,       \* SecureBuffer objects
  Timed,        \* those that are the buffer_ of a TimeLimitedBuffer
  Deliveries,   \* MemoryDelivery objects
  Cells,
  Pages,
  PageOf,       \* the page of each cell
  None,         \* no cell
  LockRefused,  \* may mlock fail?
  NewFails      \* may the allocation in MemoryDelivery::deliver throw?

ASSUME BuffersAssumption ==
  /\ Timed \subseteq Secure
  /\ Secure \cap Deliveries = {}
  /\ PageOf \in [Cells -> Pages]
  /\ None \notin Cells
  /\ {LockRefused, NewFails} \subseteq BOOLEAN

VARIABLES
  alive,      \* the objects that exist
  cell,       \* the block each object points to, or None
  free,       \* the cells the heap may hand out
  secret,     \* the cells with a secret in them
  pinned,     \* the locked pages
  locked,     \* the timed buffers with locked_ set
  expired     \* the timed buffers whose expiry_ has passed

Objects == Secure \cup Deliveries
time == <<locked, expired>>
vars == <<alive, cell, free, secret, pinned, time>>

-----------------------------------------------------------------------------
TypeOK ==
  /\ alive \subseteq Objects
  /\ cell \in [Objects -> Cells \cup {None}]
  /\ free \subseteq Cells
  /\ secret \subseteq Cells
  /\ pinned \subseteq Pages
  /\ locked \subseteq Timed
  /\ expired \subseteq Timed

Init ==
  /\ alive = {}
  /\ cell = [o \in Objects |-> None]
  /\ free = Cells
  /\ secret = {}
  /\ pinned = {}
  /\ locked = {}
  /\ expired = {}

\* The pages that munlock of a buffer unlocks, whoever else lies on them.
PagesOf(b) == IF cell[b] = None THEN {} ELSE {PageOf[cell[b]]}

Owners(page) == {b \in Secure : cell[b] # None /\ PageOf[cell[b]] = page}

-----------------------------------------------------------------------------
\* SecureBuffer(size): zeros, and a lock if the system grants it.  A buffer of
\* size 0 has no block.
Construct(b) ==
  /\ b \notin alive
  /\ alive' = alive \cup {b}
  /\ \/ UNCHANGED <<cell, free, secret, pinned>>
     \/ \E c \in free :
          /\ cell' = [cell EXCEPT ![b] = c]
          /\ free' = free \ {c}
          /\ secret' = secret \ {c}
          /\ \/ pinned' = pinned \cup {PageOf[c]}
             \/ LockRefused /\ UNCHANGED pinned
  /\ locked' = locked \ {b}
  /\ expired' = expired \ {b}

\* Mutant: the block is given back as it is.
Release_Unwiped(b) ==
  /\ free' = free \cup ({cell[b]} \ {None})
  /\ pinned' = pinned \ PagesOf(b)
  /\ UNCHANGED secret

\* Mutant: the block is wiped and stays locked.
Release_Pinned(b) ==
  /\ free' = free \cup ({cell[b]} \ {None})
  /\ secret' = secret \ {cell[b]}
  /\ UNCHANGED pinned

\* zero(), munlock, and the vector gives its block back: the locks of all the
\* buffers on the page are gone.
Release(b) ==
  /\ free' = free \cup ({cell[b]} \ {None})
  /\ secret' = secret \ {cell[b]}
  /\ pinned' = pinned \ PagesOf(b)

\* Mutant: an empty buffer gives back the block it does not have.
Destroy_Unchecked(b) ==
  /\ b \in alive
  /\ free' = free \cup {cell[b]}
  /\ secret' = secret \ {cell[b]}
  /\ alive' = alive \ {b}
  /\ cell' = [cell EXCEPT ![b] = None]
  /\ UNCHANGED <<pinned, time>>

\* ~SecureBuffer; ~TimeLimitedBuffer has called lock() before.
Destroy(b) ==
  /\ b \in alive
  /\ Release(b)
  /\ alive' = alive \ {b}
  /\ cell' = [cell EXCEPT ![b] = None]
  /\ UNCHANGED time

\* Mutant: the vector is copied, not moved.
MoveConstruct_Shares(to, from) ==
  /\ from \in alive \ Timed
  /\ to \in Secure \ (Timed \cup alive)
  /\ alive' = alive \cup {to}
  /\ cell' = [cell EXCEPT ![to] = cell[from]]
  /\ UNCHANGED <<free, secret, pinned, time>>

\* SecureBuffer(SecureBuffer&&): the block changes hands, with its lock.
MoveConstruct(to, from) ==
  /\ from \in alive \ Timed
  /\ to \in Secure \ (Timed \cup alive)
  /\ alive' = alive \cup {to}
  /\ cell' = [cell EXCEPT ![to] = cell[from], ![from] = None]
  /\ UNCHANGED <<free, secret, pinned, time>>

\* operator=: the old block is wiped and given back first.
MoveAssign(to, from) ==
  /\ {to, from} \subseteq alive \ Timed /\ to # from
  /\ Release(to)
  /\ cell' = [cell EXCEPT ![to] = cell[from], ![from] = None]
  /\ UNCHANGED <<alive, time>>

\* zero().
Zero(b) ==
  /\ b \in alive
  /\ secret' = secret \ {cell[b]}
  /\ UNCHANGED <<alive, cell, free, pinned, time>>

\* Mutant: data() forgets locked_.
Usable_UnlessExpired(b) == b \notin expired

\* data() of a TimeLimitedBuffer throws otherwise.
Usable(b) == b \notin locked \cup expired

\* The caller writes a secret through data().
Fill(b) ==
  /\ b \in alive
  /\ cell[b] # None
  /\ Usable(b)
  /\ secret' = secret \cup {cell[b]}
  /\ UNCHANGED <<alive, cell, free, pinned, time>>

\* TimeLimitedBuffer::lock, refresh_timeout, and the clock.  Nothing is wiped
\* when the time is over, and a refresh brings an expired buffer back.
Lock(b) ==
  /\ b \in alive
  /\ locked' = locked \cup {b}
  /\ secret' = secret \ {cell[b]}
  /\ UNCHANGED <<alive, cell, free, pinned, expired>>

RefreshTimeout(b) ==
  /\ b \in alive
  /\ expired' = expired \ {b}
  /\ UNCHANGED <<alive, cell, free, secret, pinned, locked>>

Expires(b) ==
  /\ b \in alive
  /\ expired' = expired \cup {b}
  /\ UNCHANGED <<alive, cell, free, secret, pinned, locked>>

-----------------------------------------------------------------------------
NewDelivery(d) ==
  /\ d \notin alive
  /\ alive' = alive \cup {d}
  /\ UNCHANGED <<cell, free, secret, pinned, time>>

\* MemoryDelivery::deliver: the old block is wiped and deleted, a new one, which
\* may be the same, gets the secret and no lock.  If there is none, data_ still
\* points to the old one.
Deliver(d) ==
  /\ d \in alive
  /\ LET given == free \cup ({cell[d]} \ {None})
         wiped == secret \ {cell[d]}
     IN \/ \E c \in given :
             /\ cell' = [cell EXCEPT ![d] = c]
             /\ free' = given \ {c}
             /\ secret' = wiped \cup {c}
        \/ /\ NewFails
           /\ free' = given
           /\ secret' = wiped
           /\ UNCHANGED cell
  /\ UNCHANGED <<alive, pinned, time>>

DestroyDelivery(d) ==
  /\ d \in alive
  /\ alive' = alive \ {d}
  /\ cell' = [cell EXCEPT ![d] = None]
  /\ free' = free \cup ({cell[d]} \ {None})
  /\ secret' = secret \ {cell[d]}
  /\ UNCHANGED <<pinned, time>>

Next ==
  \/ \E b \in Secure : Construct(b) \/ Destroy(b) \/ Fill(b) \/ Zero(b)
  \/ \E to, from \in Secure : MoveConstruct(to, from) \/ MoveAssign(to, from)
  \/ \E b \in Timed : Lock(b) \/ RefreshTimeout(b) \/ Expires(b)
  \/ \E d \in Deliveries : NewDelivery(d) \/ Deliver(d) \/ DestroyDelivery(d)

Spec == Init /\ [][Next]_vars

-----------------------------------------------------------------------------
\* README.md:14 "automatically zeroed after use": no block goes back to the heap
\* with a secret in it, whichever object had it last (memory.cpp:49-69,
\* delivery.cpp:59-82).
FreedIsZero == free \cap secret = {}

\* Every block in use has one object that will wipe and free it, and no object
\* will free a block that is not its own (memory.cpp:56-69, delivery.cpp:66-82).
OneOwner ==
  /\ \A o \in Objects : cell[o] # None => o \in alive /\ cell[o] \notin free
  /\ \A o, p \in Objects : cell[o] # None /\ cell[o] = cell[p] => o = p
  /\ \A c \in Cells \ free : \E o \in Objects : cell[o] = c

\* A page stays locked no longer than a SecureBuffer lies on it
\* (memory.cpp:49-54, 60-69).
LocksAreReturned == \A page \in pinned : Owners(page) # {}

\* A TimeLimitedBuffer that was locked holds no secret, whatever was refreshed
\* since (memory.cpp:89-118).
LockedHoldsNothing == \A b \in Timed \cap alive : b \in locked => cell[b] \notin secret

\* README.md:14 "Memory-locked buffers automatically zeroed after use": where the
\* system refuses no lock, the page of a SecureBuffer is locked as long as the
\* buffer lives (memory.cpp:43-69).
LivingIsLocked == \A b \in Secure : cell[b] # None => PageOf[cell[b]] \in pinned

=============================================================================
