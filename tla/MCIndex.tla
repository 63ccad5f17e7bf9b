------------------------------ MODULE MCIndex ------------------------------
(* Instances of SearchIndex for TLC.  A directory that was left without a   *)
(* database can be opened by nobody, but create() is always possible.       *)
EXTENDS SearchIndex, TLC

CONSTANTS i1, i2, w1, t1, t2

\* Managers are told apart by nothing but what they hold.
ManagerSymmetry == Permutations(Managers)

Spelled(w, capital) == [of |-> w, capital |-> capital]

SomeWords == {Spelled(w, c) : w \in {w1, t1, t2}, c \in BOOLEAN}

\* The first tag of one entry is a word of the other.
SomeEntries ==
  { [id |-> i1, words |-> {Spelled(w1, TRUE)}, tags |-> {Spelled(t1, FALSE)}],
    [id |-> i2, words |-> {Spelled(t1, TRUE)}, tags |-> {Spelled(t2, FALSE)}] }

=============================================================================
