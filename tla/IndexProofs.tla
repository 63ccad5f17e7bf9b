---------------------------- MODULE IndexProofs ----------------------------
(***************************************************************************)
(* Theorems about SearchIndex, for any number of managers, readers and     *)
(* entries.  What a manager would commit and what is committed agree with  *)
(* the calls that returned true, outside the ids in doubt, because at most *)
(* one manager has a database that is still in the directory.              *)
(***************************************************************************)
EXTENDS SearchIndex, TLAPS

\* The documents `set` are what the calls say, but for some ids.
Agrees(set, told, but) == \A e \in Entries : e.id \notin but => set[e] = told[e]

OneWriter ==
  /\ \A m, n \in Managers \ orphans : db[m] # None /\ db[n] # None => m = n
  /\ \A m \in Managers \ orphans : db[m] # None => dir = "database"
  /\ \A m \in orphans : db[m] # None

FillsItsOwn == \A m \in Managers : at[m] = "fill" => db[m] # None

WritersAgree == \A m \in Managers \ orphans : db[m] # None => Agrees(db[m], expected, doubt)

NoneExpected == \A e \in Entries : e.id \in doubt => expected[e] = 0

ReadersAgree ==
  \A r \in Readers : snapshot[r] # None =>
    \A e \in Entries :
      /\ e \in seen[r].confirmed => snapshot[r][e] > 0
      /\ e.id \notin seen[r].doubt /\ snapshot[r][e] > 0 => e \in seen[r].confirmed

Inv ==
  TypeOK /\ OneWriter /\ FillsItsOwn /\ WritersAgree /\ NoneExpected /\ IndexMatchesCalls /\ ReadersAgree

\* What agreed with the calls goes on to, when they become `told` and the ids
\* excepted `but`.
Follows(told, but) ==
  \A set \in Documents : Agrees(set, expected, doubt) => Agrees(set, told, but)

-----------------------------------------------------------------------------
\* The edits of a set of documents give sets of documents.
LEMMA EditTypes ==
  ASSUME NEW set \in Documents, NEW e \in Entries, NEW i, NEW added \in SUBSET Entries
  PROVE  /\ NoDocuments \in Documents
         /\ With(set, e) \in Documents
         /\ Without(set, i) \in Documents
         /\ With(Without(set, i), e) \in Documents
         /\ Filled(set, added) \in Documents
  BY DEF Documents, NoDocuments, With, Without, Filled

\* What is noted of a call has its types, and of an id in doubt nothing is expected.
LEMMA NotesTyped ==
  ASSUME expected \in Documents, doubt \in SUBSET Ids, NoneExpected,
         NEW m \in Managers, NEW ids \in SUBSET Ids, NEW added \in SUBSET Entries,
         NEW i, NEW by \in SUBSET Entries,
         Doubts(ids) \/ Adds(m, added) \/ (Replaces(m, i, by) /\ i \in Ids)
  PROVE  expected' \in Documents /\ doubt' \in SUBSET Ids /\ NoneExpected'
<1>1. ASSUME NEW these \in SUBSET Ids, Doubts(these)
      PROVE  expected' \in Documents /\ doubt' \in SUBSET Ids /\ NoneExpected'
  BY <1>1 DEF Doubts, Documents, NoneExpected
<1>2. {e.id : e \in added} \in SUBSET Ids /\ (i \in Ids => {i} \in SUBSET Ids)
  BY DEF Ids
<1>3. ASSUME Adds(m, added), m \notin orphans
      PROVE  expected' \in Documents /\ doubt' \in SUBSET Ids /\ NoneExpected'
  BY <1>3 DEF Adds, Documents, NoneExpected
<1>4. ASSUME Replaces(m, i, by), m \notin orphans
      PROVE  expected' \in Documents /\ doubt' \in SUBSET Ids /\ NoneExpected'
  BY <1>4 DEF Replaces, Documents, NoneExpected
<1> QED
  BY <1>1, <1>2, <1>3, <1>4 DEF Adds, Replaces

\* A doubt is one more exception, for what was there and for what was edited.
LEMMA DoubtsFollow ==
  ASSUME expected \in Documents, NEW ids, Doubts(ids)
  PROVE  /\ Follows(expected', doubt')
         /\ \A set, edited \in Documents :
              /\ Agrees(set, expected, doubt)
              /\ \A e \in Entries : e.id \notin ids => edited[e] = set[e]
              => Agrees(edited, expected', doubt')
  BY DEF Doubts, Follows, Agrees, Documents

\* An edit that is noted keeps the documents and the calls in agreement, and one
\* that replaces all the documents of an id settles the doubt about it.
LEMMA EditsAgree ==
  ASSUME expected \in Documents, NEW m \in Managers, m \notin orphans,
         NEW set \in Documents, Agrees(set, expected, doubt),
         NEW e \in Entries, NEW i
  PROVE  /\ Adds(m, {e}) => Agrees(With(set, e), expected', doubt')
         /\ Replaces(m, i, {}) => Agrees(Without(set, i), expected', doubt')
         /\ Replaces(m, e.id, {e}) => Agrees(With(Without(set, e.id), e), expected', doubt')
<1> USE DEF Agrees, Documents
<1>1. Adds(m, {e}) => Agrees(With(set, e), expected', doubt')
  BY DEF Adds, With
<1>2. Replaces(m, i, {}) => Agrees(Without(set, i), expected', doubt')
  BY DEF Replaces, Without
<1>3. Replaces(m, e.id, {e}) => Agrees(With(Without(set, e.id), e), expected', doubt')
  BY DEF Replaces, With, Without
<1> QED
  BY <1>1, <1>2, <1>3

LEMMA FillAgrees ==
  ASSUME expected \in Documents, NEW m \in Managers, m \notin orphans,
         NEW set \in Documents, Agrees(set, expected, doubt),
         NEW added \in SUBSET Entries, Adds(m, added)
  PROVE  Agrees(Filled(set, added), expected', doubt')
  BY DEF Agrees, Documents, Adds, Filled

-----------------------------------------------------------------------------
LEMMA InvInit == Init => Inv
<1> SUFFICES ASSUME Init PROVE Inv
  OBVIOUS
<1> USE IndexAssumption
<1>1. TypeOK
  BY DEF Init, TypeOK, Documents, NoDocuments
<1>2. OneWriter /\ FillsItsOwn /\ WritersAgree /\ NoneExpected /\ IndexMatchesCalls /\ ReadersAgree
  BY DEF Init, OneWriter, FillsItsOwn, WritersAgree, NoneExpected, IndexMatchesCalls, ReadersAgree
<1> QED
  BY <1>1, <1>2 DEF Inv

\* A call that commits, or fails to, while m has a database.
LEMMA InvCommit ==
  ASSUME Inv, NEW m \in Managers, db[m] # None, NEW working \in Documents,
         expected' \in Documents, doubt' \in SUBSET Ids, NoneExpected',
         UNCHANGED <<dir, orphans, snapshot, seen>>,
         at' \in [Managers -> {"idle", "create", "fill"}], plan' \in [Managers -> SUBSET Entries],
         \A n \in Managers : at'[n] = "fill" => at[n] = "fill",
         m \notin orphans => Agrees(working, expected', doubt'),
         \/ Commits(m, working) /\ (m \in orphans => Follows(expected', doubt'))
         \/ CommitFails(m, working) /\ Follows(expected', doubt')
  PROVE  Inv'
<1> USE IndexAssumption DEF Inv
<1>1. /\ docs \in Documents /\ db[m] \in Documents
      /\ \A n \in Managers : db'[n] = IF n = m THEN db'[m] ELSE db[n]
      /\ db'[m] \in Documents /\ db'[m] # None
      /\ docs' \in Documents
      /\ db' \in [Managers -> Documents \cup {None}]
  <2>1. docs \in Documents /\ db[m] \in Documents
    BY DEF TypeOK
  <2>2. PICK kept \in {working, docs, db[m]} : db' = [db EXCEPT ![m] = kept]
    BY DEF Commits, CommitFails
  <2>3. kept \in Documents /\ docs' \in {docs, working}
    BY <2>1, <2>2 DEF Commits, CommitFails
  <2> QED
    BY <2>1, <2>2, <2>3 DEF TypeOK
<1>2. TypeOK'
  <2>1. age' \in [Readers -> 0 .. 2]
    BY DEF TypeOK, Commits, CommitFails, Ages
  <2> QED
    BY <1>1, <2>1 DEF TypeOK
<1>3. OneWriter' /\ FillsItsOwn'
  BY <1>1 DEF TypeOK, OneWriter, FillsItsOwn
<1>4. ASSUME m \notin orphans PROVE WritersAgree' /\ IndexMatchesCalls'
  <2>1. \A n \in Managers \ orphans : n # m => db'[n] = None
    BY <1>1, <1>4 DEF OneWriter
  <2>2. dir = "database" /\ Agrees(docs, expected, doubt)
    BY <1>4 DEF OneWriter, IndexMatchesCalls, Agrees
  <2>3. Agrees(docs', expected', doubt') /\ Agrees(db'[m], expected', doubt')
    <3>1. Agrees(working, expected', doubt')
      BY <1>4
    <3>2. CASE Commits(m, working)
      BY <1>1, <1>4, <3>1, <3>2 DEF TypeOK, Commits
    <3>3. CASE CommitFails(m, working) /\ Follows(expected', doubt')
      <4>1. Agrees(docs, expected', doubt')
        BY <1>1, <2>2, <3>3 DEF Follows
      <4>2. docs' = docs /\ db'[m] \in {working, docs}
        BY <1>4, <3>3 DEF TypeOK, CommitFails
      <4> QED
        BY <3>1, <4>1, <4>2
    <3> QED
      BY <3>2, <3>3
  <2>4. \A n \in Managers \ orphans : db'[n] # None => Agrees(db'[n], expected', doubt')
    BY <2>1, <2>3
  <2> QED
    BY <2>3, <2>4 DEF WritersAgree, IndexMatchesCalls, Agrees
<1>5. ASSUME m \in orphans PROVE WritersAgree' /\ IndexMatchesCalls'
  <2>1. Follows(expected', doubt') /\ docs' = docs
    BY <1>5 DEF Commits, CommitFails
  <2>2. dir = "database" => Agrees(docs', expected', doubt')
    BY <1>1, <2>1 DEF IndexMatchesCalls, Agrees, Follows
  <2>3. ASSUME NEW n \in Managers \ orphans, db'[n] # None
        PROVE  Agrees(db'[n], expected', doubt')
    <3>1. db'[n] = db[n] /\ db[n] \in Documents /\ Agrees(db[n], expected, doubt)
      BY <1>1, <1>5, <2>3 DEF TypeOK, WritersAgree
    <3> QED
      BY <2>1, <3>1 DEF Follows
  <2> QED
    BY <2>2, <2>3 DEF WritersAgree, IndexMatchesCalls, Agrees
<1>6. ReadersAgree'
  BY DEF ReadersAgree
<1>7. WritersAgree' /\ IndexMatchesCalls'
  BY <1>4, <1>5
<1> QED
  BY <1>2, <1>3, <1>6, <1>7

LEMMA InvEntries ==
  ASSUME Inv, NEW m \in Managers, NEW e \in Entries, NEW i \in Ids,
         IndexEntry(m, e) \/ UpdateEntry(m, e) \/ RemoveEntry(m, i)
  PROVE  Inv'
<1>1. /\ db[m] # None /\ db[m] \in Documents /\ docs \in Documents
      /\ expected \in Documents /\ doubt \in SUBSET Ids /\ NoneExpected
      /\ m \notin orphans => Agrees(db[m], expected, doubt)
      /\ at' \in [Managers -> {"idle", "create", "fill"}] /\ plan' \in [Managers -> SUBSET Entries]
      /\ \A n \in Managers : at'[n] = "fill" => at[n] = "fill"
      /\ UNCHANGED <<dir, orphans, snapshot, seen>>
      /\ e.id \in Ids
  BY DEF Inv, TypeOK, OneWriter, WritersAgree, Ids, IndexEntry, UpdateEntry, RemoveEntry, Ready
\* A call that leaves doubts about the one id it edits.
<1>2. ASSUME NEW j \in Ids, NEW working \in Documents, Doubts({j}),
             \A f \in Entries : f.id # j => working[f] = db[m][f],
             CommitFails(m, working) \/ (Commits(m, working) /\ m \in orphans)
      PROVE  Inv'
  <2>1. expected' \in Documents /\ doubt' \in SUBSET Ids /\ NoneExpected'
    BY <1>1, <1>2, NotesTyped, {j} \in SUBSET Ids
  <2>2. Follows(expected', doubt') /\ (m \notin orphans => Agrees(working, expected', doubt'))
    BY <1>1, <1>2, DoubtsFollow
  <2> QED
    BY <1>1, <1>2, <2>1, <2>2, InvCommit
\* A call that is noted as what it did.
<1>3. ASSUME NEW working \in Documents, Commits(m, working), m \notin orphans,
             Agrees(working, expected', doubt'),
             expected' \in Documents, doubt' \in SUBSET Ids, NoneExpected'
      PROVE  Inv'
  BY <1>1, <1>3, InvCommit
<1>4. CASE IndexEntry(m, e)
  <2> DEFINE working == With(db[m], e)
  <2>1. working \in Documents /\ \A f \in Entries : f.id # e.id => working[f] = db[m][f]
    BY <1>1 DEF Documents, With
  <2>2. \/ Commits(m, working) /\ Adds(m, {e})
        \/ CommitFails(m, working) /\ Doubts({e.id})
    BY <1>4 DEF IndexEntry
  <2>3. /\ Adds(m, {e}) /\ m \in orphans => Doubts({e.id})
        /\ Adds(m, {e}) /\ m \notin orphans => Agrees(working, expected', doubt')
    <3>1. {f.id : f \in {e}} = {e.id}
      OBVIOUS
    <3> QED
      BY <1>1, <3>1, EditsAgree DEF Adds
  <2>4. Adds(m, {e}) => expected' \in Documents /\ doubt' \in SUBSET Ids /\ NoneExpected'
    BY <1>1, NotesTyped
  <2> HIDE DEF working
  <2> QED
    BY <1>1, <1>2, <1>3, <2>1, <2>2, <2>3, <2>4
<1>5. CASE UpdateEntry(m, e)
  <2> DEFINE working == With(Without(db[m], e.id), e)
  <2>1. working \in Documents /\ \A f \in Entries : f.id # e.id => working[f] = db[m][f]
    BY <1>1 DEF Documents, With, Without
  <2>2. \/ Commits(m, working) /\ Replaces(m, e.id, {e})
        \/ CommitFails(m, working) /\ Doubts({e.id})
    BY <1>5 DEF UpdateEntry
  <2>3. /\ Replaces(m, e.id, {e}) /\ m \in orphans => Doubts({e.id})
        /\ Replaces(m, e.id, {e}) /\ m \notin orphans => Agrees(working, expected', doubt')
    BY <1>1, EditsAgree DEF Replaces
  <2>4. Replaces(m, e.id, {e}) => expected' \in Documents /\ doubt' \in SUBSET Ids /\ NoneExpected'
    BY <1>1, NotesTyped, {} \in SUBSET Ids, {} \in SUBSET Entries, {e} \in SUBSET Entries
  <2> HIDE DEF working
  <2> QED
    BY <1>1, <1>2, <1>3, <2>1, <2>2, <2>3, <2>4
<1>6. CASE RemoveEntry(m, i)
  <2> DEFINE working == Without(db[m], i)
  <2>1. working \in Documents /\ \A f \in Entries : f.id # i => working[f] = db[m][f]
    BY <1>1 DEF Documents, Without
  <2>2. \/ Commits(m, working) /\ Replaces(m, i, {})
        \/ CommitFails(m, working) /\ Doubts({i})
    BY <1>6 DEF RemoveEntry
  <2>3. /\ Replaces(m, i, {}) /\ m \in orphans => Doubts({i})
        /\ Replaces(m, i, {}) /\ m \notin orphans => Agrees(working, expected', doubt')
    <3>1. Replaces(m, i, {}) /\ m \in orphans => Doubts({i})
      BY DEF Replaces
    <3>2. Replaces(m, i, {}) /\ m \notin orphans => Agrees(working, expected', doubt')
      BY <1>1, EditsAgree
    <3> QED
      BY <3>1, <3>2
  <2>4. Replaces(m, i, {}) => expected' \in Documents /\ doubt' \in SUBSET Ids /\ NoneExpected'
    BY <1>1, NotesTyped, {} \in SUBSET Ids, {} \in SUBSET Entries
  <2> HIDE DEF working
  <2> QED
    BY <1>1, <1>2, <1>3, <2>1, <2>2, <2>3, <2>4
<1> QED
  BY <1>4, <1>5, <1>6

\* The entries of a rebuild go into the index together.
LEMMA InvFill ==
  ASSUME Inv, NEW m \in Managers, Fill(m)
  PROVE  Inv'
<1> DEFINE full == Filled(db[m], plan[m])
           ids == {e.id : e \in plan[m]}
<1>1. /\ db[m] # None /\ db[m] \in Documents /\ docs \in Documents
      /\ expected \in Documents /\ doubt \in SUBSET Ids /\ NoneExpected
      /\ \A n \in Managers : at'[n] = "fill" => at[n] = "fill"
      /\ plan[m] \in SUBSET Entries
      /\ m \notin orphans => Agrees(db[m], expected, doubt)
      /\ at' \in [Managers -> {"idle", "create", "fill"}] /\ plan' \in [Managers -> SUBSET Entries]
      /\ UNCHANGED <<dir, orphans, snapshot, seen>>
  BY DEF Inv, TypeOK, FillsItsOwn, WritersAgree, Fill
<1>2. ids \in SUBSET Ids
  BY <1>1 DEF Ids
<1>3. ASSUME NEW added \in SUBSET plan[m]
      PROVE  /\ Filled(db[m], added) \in Documents
             /\ \A f \in Entries : f.id \notin ids => Filled(db[m], added)[f] = db[m][f]
  BY <1>1 DEF Filled, Documents
<1>4. \/ Commits(m, full) /\ Adds(m, plan[m])
      \/ (\E added \in SUBSET plan[m] : CommitFails(m, Filled(db[m], added))) /\ Doubts(ids)
  BY DEF Fill
<1>5. /\ full \in Documents
      /\ Adds(m, plan[m]) /\ m \in orphans => Doubts(ids)
      /\ Adds(m, plan[m]) /\ m \notin orphans => Agrees(full, expected', doubt')
  <2>1. full \in Documents
    BY <1>3
  <2>2. Adds(m, plan[m]) /\ m \in orphans => Doubts(ids)
    BY DEF Adds
  <2>3. ASSUME Adds(m, plan[m]), m \notin orphans PROVE Agrees(full, expected', doubt')
    <3>1. Agrees(db[m], expected, doubt)
      BY <1>1, <2>3
    <3> QED
      BY <1>1, <2>3, <3>1, FillAgrees
  <2> QED
    BY <2>1, <2>2, <2>3
<1> HIDE DEF full, ids
<1>6. expected' \in Documents /\ doubt' \in SUBSET Ids /\ NoneExpected'
  <2>1. CASE Adds(m, plan[m])
    BY <1>1, <2>1, NotesTyped
  <2>2. CASE Doubts(ids)
    BY <1>1, <1>2, <2>2, NotesTyped
  <2> QED
    BY <1>4, <2>1, <2>2
<1>7. Doubts(ids) => Follows(expected', doubt')
  BY <1>1, DoubtsFollow
<1>8. CASE Commits(m, full) /\ Adds(m, plan[m])
  BY <1>1, <1>5, <1>6, <1>7, <1>8, InvCommit
<1>9. CASE (\E added \in SUBSET plan[m] : CommitFails(m, Filled(db[m], added))) /\ Doubts(ids)
  <2>1. PICK added \in SUBSET plan[m] : CommitFails(m, Filled(db[m], added))
    BY <1>9
  <2> DEFINE part == Filled(db[m], added)
  <2>2. part \in Documents /\ CommitFails(m, part) /\ \A f \in Entries : f.id \notin ids => part[f] = db[m][f]
    BY <1>3, <2>1
  <2> HIDE DEF part
  <2>3. m \notin orphans => Agrees(part, expected', doubt')
    BY <1>1, <1>9, <2>2, DoubtsFollow
  <2> QED
    BY <1>1, <1>6, <1>7, <1>9, <2>2, <2>3, InvCommit
<1> QED
  BY <1>4, <1>8, <1>9

\* A manager gets a database only when no other has the one in the directory; a
\* new one is empty, and nothing is expected of it.
LEMMA InvMakeOrOpen ==
  ASSUME Inv, NEW m \in Managers, MakeOrOpen(m),
         at' \in [Managers -> {"idle", "create", "fill"}], plan' \in [Managers -> SUBSET Entries],
         \A n \in Managers : at'[n] = "fill" => db'[n] # None
  PROVE  Inv'
<1> USE IndexAssumption DEF Inv
<1>1. TypeOK'
  <2>1. NoDocuments \in Documents
    BY DEF NoDocuments, Documents
  <2>2. /\ docs' \in Documents /\ expected' \in Documents /\ doubt' \subseteq Ids
        /\ orphans' \subseteq Managers
    BY <2>1 DEF MakeOrOpen, TypeOK, calls
  <2>3. db' \in [Managers -> Documents \cup {None}]
    BY <2>2 DEF MakeOrOpen, TypeOK
  <2>4. dir' \in {"absent", "bare", "database"}
    BY DEF MakeOrOpen, TypeOK
  <2>5. UNCHANGED <<snapshot, age, seen>>
    BY DEF MakeOrOpen, readers
  <2> QED
    BY <2>2, <2>3, <2>4, <2>5 DEF TypeOK
<1>2. OneWriter' /\ FillsItsOwn'
  BY DEF MakeOrOpen, TypeOK, OneWriter, FillsItsOwn, Locked
<1>3. WritersAgree' /\ IndexMatchesCalls'
  <2>1. CASE dir' = "database" /\ docs' = (IF dir = "database" THEN docs ELSE NoDocuments)
             /\ db' = [db EXCEPT ![m] = docs'] /\ orphans' = orphans \ {m}
             /\ (IF dir = "database" THEN UNCHANGED calls
                 ELSE expected' = NoDocuments /\ doubt' = {})
    <3>1. Agrees(docs', expected', doubt')
      BY <2>1 DEF IndexMatchesCalls, Agrees, calls
    <3>2. \A n \in Managers \ orphans' : db'[n] # None => db'[n] = docs'
      BY <2>1 DEF MakeOrOpen, TypeOK, Locked
    <3> QED
      BY <3>1, <3>2 DEF WritersAgree, IndexMatchesCalls, Agrees
  <2>2. CASE UNCHANGED <<docs, db, orphans, calls>> /\ (dir' = "database" => dir = "database")
    BY <2>2 DEF calls, WritersAgree, IndexMatchesCalls, Agrees
  <2> QED
    BY <2>1, <2>2 DEF MakeOrOpen
<1>4. ReadersAgree' /\ NoneExpected'
  BY DEF MakeOrOpen, TypeOK, readers, calls, ReadersAgree, NoneExpected, NoDocuments
<1> QED
  BY <1>1, <1>2, <1>3, <1>4

LEMMA InvOpen ==
  ASSUME Inv, NEW m \in Managers, Create(m) \/ Open(m) \/ ClearCreates(m)
  PROVE  Inv'
<1>1. at' \in [Managers -> {"idle", "create", "fill"}] /\ plan' \in [Managers -> SUBSET Entries]
  BY DEF Inv, TypeOK, Create, Open, ClearCreates
<1>2. FillsItsOwn'
  BY DEF Inv, TypeOK, FillsItsOwn, Create, Open, ClearCreates, MakeOrOpen
<1>3. CASE MakeOrOpen(m)
  BY <1>1, <1>2, <1>3, InvMakeOrOpen DEF FillsItsOwn
<1>4. CASE /\ ~Locked /\ dir = "database"
           /\ db' = [db EXCEPT ![m] = docs]
           /\ orphans' = orphans \ {m}
           /\ UNCHANGED <<dir, docs, calls, readers>>
  <2> USE <1>1, <1>2, <1>4, IndexAssumption DEF Inv
  <2>1. TypeOK' /\ OneWriter'
    BY DEF TypeOK, readers, calls, OneWriter, Locked
  <2>2. WritersAgree' /\ IndexMatchesCalls'
    BY DEF TypeOK, readers, calls, Locked, WritersAgree, IndexMatchesCalls, Agrees
  <2>3. NoneExpected' /\ ReadersAgree'
    BY DEF readers, calls, NoneExpected, ReadersAgree
  <2> QED
    BY <2>1, <2>2, <2>3
<1>5. CASE UNCHANGED <<dir, docs, db, orphans, calls, readers>>
  BY <1>1, <1>2, <1>5 DEF Inv, TypeOK, readers, calls, OneWriter, WritersAgree, NoneExpected,
                          IndexMatchesCalls, ReadersAgree, Agrees
<1> QED
  BY <1>3, <1>4, <1>5 DEF Create, Open, ClearCreates

\* What a manager leaves uncommitted agrees with the calls too; a process that is
\* killed leaves what is committed.
LEMMA InvClose ==
  ASSUME Inv, NEW m \in Managers, Close(m) \/ Killed(m)
  PROVE  Inv'
<1> USE IndexAssumption DEF Inv
<1>1. /\ db' = [db EXCEPT ![m] = None]
      /\ docs' = docs \/ (db[m] # None /\ m \notin orphans /\ docs' = db[m])
      /\ orphans' = orphans \ {m}
      /\ UNCHANGED <<dir, snapshot, seen, calls>>
      /\ at' \in [Managers -> {"idle", "create", "fill"}] /\ plan' \in [Managers -> SUBSET Entries]
      /\ age' = age \/ Ages
  BY DEF TypeOK, Close, Closed, Killed, Ready, readers
<1>2. TypeOK'
  <2>1. age' \in [Readers -> 0 .. 2]
    BY <1>1 DEF TypeOK, Ages
  <2>2. docs' \in Documents /\ db' \in [Managers -> Documents \cup {None}]
    BY <1>1 DEF TypeOK
  <2> QED
    BY <1>1, <2>1, <2>2 DEF TypeOK, calls
<1>3. OneWriter' /\ WritersAgree' /\ NoneExpected' /\ ReadersAgree'
  BY <1>1 DEF TypeOK, calls, OneWriter, WritersAgree, NoneExpected, ReadersAgree, Agrees
<1>4. FillsItsOwn'
  BY <1>1 DEF TypeOK, FillsItsOwn, Close, Killed, Ready
<1>5. IndexMatchesCalls'
  BY <1>1 DEF WritersAgree, IndexMatchesCalls, Agrees, calls
<1> QED
  BY <1>2, <1>3, <1>4, <1>5

\* clear() removes the directory whoever has the database open; those who have it
\* go on without one that counts.
LEMMA InvClear ==
  ASSUME Inv, NEW m \in Managers, NEW entries \in SUBSET Entries, Clear(m, entries)
  PROVE  Inv'
<1> USE IndexAssumption DEF Inv
<1> DEFINE others == {n \in Managers \ {m} : db[n] # None}
<1>1. /\ db' = [db EXCEPT ![m] = None]
      /\ age' = [r \in Readers |-> 2]
      /\ UNCHANGED <<snapshot, seen>>
  BY DEF TypeOK, Clear, Closed
<1>2. \/ /\ dir' = "absent" /\ docs' = NoDocuments /\ orphans' = others
         /\ expected' = NoDocuments /\ doubt' = {}
         /\ at' = [at EXCEPT ![m] = "create"] /\ plan' = [plan EXCEPT ![m] = entries]
      \/ /\ Closed(m) /\ dir' = "bare" /\ orphans' = others /\ UNCHANGED <<at, plan, calls>>
      \/ /\ Closed(m) /\ dir' = dir /\ orphans' = orphans \ {m} /\ UNCHANGED <<at, plan, calls>>
         /\ at[m] = "idle"
  BY DEF Clear
<1>3. TypeOK'
  <2>1. docs' \in Documents /\ expected' \in Documents
    BY <1>2 DEF TypeOK, Closed, NoDocuments, Documents, calls
  <2>2. /\ dir' \in {"absent", "bare", "database"} /\ doubt' \subseteq Ids
        /\ orphans' \subseteq Managers
        /\ at' \in [Managers -> {"idle", "create", "fill"}] /\ plan' \in [Managers -> SUBSET Entries]
    BY <1>2 DEF TypeOK, calls
  <2>3. db' \in [Managers -> Documents \cup {None}] /\ age' \in [Readers -> 0 .. 2]
    BY <1>1 DEF TypeOK
  <2>4. /\ snapshot' \in [Readers -> Documents \cup {None}]
        /\ seen' \in [Readers -> [confirmed : SUBSET Entries, doubt : SUBSET Ids]]
    BY <1>1 DEF TypeOK
  <2> QED
    BY <2>1, <2>2, <2>3, <2>4 DEF TypeOK
<1>4. FillsItsOwn' /\ NoneExpected' /\ ReadersAgree'
  <2>1. at[m] = "idle"
    BY DEF Clear
  <2>2. FillsItsOwn'
    BY <1>1, <1>2, <2>1 DEF TypeOK, FillsItsOwn
  <2> QED
    BY <1>1, <1>2, <2>2 DEF calls, NoneExpected, ReadersAgree, NoDocuments
<1>5. ASSUME orphans' = others PROVE OneWriter' /\ WritersAgree'
  <2>1. \A n \in Managers \ orphans' : db'[n] = None
    BY <1>1, <1>5 DEF TypeOK
  <2>2. \A n \in orphans' : db'[n] # None
    BY <1>1, <1>5 DEF TypeOK
  <2>3. OneWriter' /\ WritersAgree'
    BY <2>1, <2>2 DEF OneWriter, WritersAgree
  <2> QED
    BY <2>3
<1>6. ASSUME Closed(m), dir' = dir, orphans' = orphans \ {m}, UNCHANGED <<at, plan, calls>>
      PROVE  OneWriter' /\ WritersAgree'
  BY <1>1, <1>6 DEF TypeOK, OneWriter, WritersAgree, Agrees, calls
<1>7. IndexMatchesCalls'
  <2>1. CASE dir' = "absent" \/ dir' = "bare"
    BY <2>1 DEF IndexMatchesCalls
  <2>2. CASE Closed(m) /\ dir' = dir /\ UNCHANGED calls
    BY <2>2 DEF IndexMatchesCalls, WritersAgree, Agrees, Closed, calls
  <2> QED
    BY <1>2, <2>1, <2>2
<1> QED
  BY <1>2, <1>3, <1>4, <1>5, <1>6, <1>7

LEMMA InvReaders ==
  ASSUME Inv, NEW r \in Readers, OpenReader(r) \/ CloseReader(r)
  PROVE  Inv'
<1> USE IndexAssumption DEF Inv
<1>1. TypeOK'
  <2>1. [confirmed |-> {e \in Entries : expected[e] > 0}, doubt |-> doubt]
           \in [confirmed : SUBSET Entries, doubt : SUBSET Ids]
    BY DEF TypeOK
  <2>2. [confirmed |-> {}, doubt |-> {}] \in [confirmed : SUBSET Entries, doubt : SUBSET Ids]
    OBVIOUS
  <2>3. seen' \in [Readers -> [confirmed : SUBSET Entries, doubt : SUBSET Ids]]
    <3> DEFINE S == [confirmed : SUBSET Entries, doubt : SUBSET Ids]
    <3>1. \E x \in S : seen' = [seen EXCEPT ![r] = x]
      BY <2>1, <2>2 DEF OpenReader, CloseReader
    <3>2. seen \in [Readers -> S]
      BY DEF TypeOK
    <3> HIDE DEF S
    <3>3. seen' \in [Readers -> S]
      BY <3>1, <3>2
    <3> QED
      BY <3>3 DEF S
  <2>4. snapshot' \in [Readers -> Documents \cup {None}]
    BY DEF TypeOK, OpenReader, CloseReader
  <2>5. age' = [age EXCEPT ![r] = 0] /\ 0 \in 0 .. 2
    BY DEF OpenReader, CloseReader
  <2>6. age' \in [Readers -> 0 .. 2]
    BY <2>5 DEF TypeOK
  <2> QED
    BY <2>3, <2>4, <2>6 DEF TypeOK, OpenReader, CloseReader, index, calls
<1>2. OneWriter' /\ FillsItsOwn' /\ WritersAgree' /\ NoneExpected' /\ IndexMatchesCalls'
  BY DEF OpenReader, CloseReader, index, calls, OneWriter, FillsItsOwn, WritersAgree, NoneExpected,
         IndexMatchesCalls, Agrees
<1>3. ASSUME NEW q \in Readers, snapshot'[q] # None, NEW e \in Entries
      PROVE  /\ e \in seen'[q].confirmed => snapshot'[q][e] > 0
             /\ e.id \notin seen'[q].doubt /\ snapshot'[q][e] > 0 => e \in seen'[q].confirmed
  <2>1. CASE q # r
    <3>1. snapshot'[q] = snapshot[q] /\ seen'[q] = seen[q]
      BY <2>1 DEF TypeOK, OpenReader, CloseReader
    <3> QED
      BY <1>3, <3>1 DEF ReadersAgree
  <2>2. CASE q = r
    <3>1. OpenReader(r)
      BY <1>3, <2>2 DEF TypeOK, CloseReader
    <3>2. /\ snapshot'[r] = docs /\ seen'[r].doubt = doubt
          /\ seen'[r].confirmed = {f \in Entries : expected[f] > 0}
      BY <3>1 DEF TypeOK, OpenReader
    <3>3. e.id \notin doubt => docs[e] = expected[e]
      BY <3>1 DEF OpenReader, IndexMatchesCalls
    <3>4. e.id \in doubt => expected[e] = 0
      BY DEF NoneExpected
    <3> QED
      BY <2>2, <3>2, <3>3, <3>4
  <2> QED
    BY <2>1, <2>2
<1>4. ReadersAgree'
  BY <1>3 DEF ReadersAgree
<1> QED
  BY <1>1, <1>2, <1>4

LEMMA InvNext ==
  ASSUME Inv, [Next]_vars
  PROVE  Inv'
<1>1. ASSUME NEW m \in Managers,
             \/ Create(m) \/ Open(m) \/ Close(m) \/ ClearCreates(m) \/ Fill(m) \/ Killed(m)
             \/ \E e \in Entries : IndexEntry(m, e) \/ UpdateEntry(m, e)
             \/ \E i \in Ids : RemoveEntry(m, i)
             \/ \E entries \in SUBSET Entries : Clear(m, entries)
      PROVE  Inv'
  <2>1. CASE Create(m) \/ Open(m) \/ ClearCreates(m)
    BY <2>1, InvOpen
  <2>2. CASE Close(m) \/ Killed(m)
    BY <2>2, InvClose
  <2>3. CASE Fill(m)
    BY <2>3, InvFill
  <2>4. ASSUME NEW e \in Entries, IndexEntry(m, e) \/ UpdateEntry(m, e) PROVE Inv'
    BY <2>4, InvEntries, e.id \in Ids DEF Ids
  <2>5. ASSUME NEW i \in Ids, RemoveEntry(m, i) PROVE Inv'
    BY <2>5, InvEntries DEF Ids
  <2>6. ASSUME NEW entries \in SUBSET Entries, Clear(m, entries) PROVE Inv'
    BY <2>6, InvClear
  <2> QED
    BY <1>1, <2>1, <2>2, <2>3, <2>4, <2>5, <2>6
<1>2. CASE \E r \in Readers : OpenReader(r) \/ CloseReader(r)
  BY <1>2, InvReaders
<1>3. CASE UNCHANGED vars
  BY <1>3 DEF vars, index, readers, calls, Inv, TypeOK, OneWriter, FillsItsOwn, WritersAgree,
              NoneExpected, IndexMatchesCalls, ReadersAgree, Agrees
<1> QED
  BY <1>1, <1>2, <1>3 DEF Next

LEMMA IndexInv == Spec => []Inv
  BY InvInit, InvNext, PTL DEF Spec

-----------------------------------------------------------------------------
\* With any number of processes, readers and entries every variable has its type.
THEOREM IndexTyped == Spec => []TypeOK
<1>1. Inv => TypeOK
  BY DEF Inv
<1> QED
  BY <1>1, IndexInv, PTL

\* However many processes write, clear, rebuild and are killed, the index holds
\* what the calls that returned true have put into it, but for the ids in doubt: a
\* call about them has failed, or was made to a manager after another one had
\* cleared the directory under it (indexing.cpp:57-142).
THEOREM IndexIsWhatCallsMade == Spec => []IndexMatchesCalls
<1>1. Inv => IndexMatchesCalls
  BY DEF Inv
<1> QED
  BY <1>1, IndexInv, PTL

\* What the queries match (search.cpp:10-28, 109-114, 147-156).
LEMMA QueriesMatch ==
  ASSUME NEW e \in Entries, NEW w \in Words, NEW q,
         q = IF w.capital THEN ParsedQuery(w) ELSE TermQuery(w)
  PROVE  /\ Matches(e, TagQuery(w)) <=> w \in e.tags
         /\ Matches(e, q) <=> Has(e, w)
<1>1. Term("tag", w) \in Terms(e) <=> w \in e.tags
  BY DEF Term, Terms
<1>2. TagQuery(w).any = {} /\ TagQuery(w).all = {Term("tag", w)}
  BY DEF TagQuery, Build
<1>3. Term("word", Lower(w)) \in Terms(e) <=> Has(e, w)
  <2>1. \A x : Term("word", Lower(w)) = Term("word", Lower(x)) <=> Lower(x) = Lower(w)
    BY DEF Term
  <2>2. Term("word", Lower(w)) \in Terms(e)
          <=> \E x \in e.words \cup e.tags : Term("word", Lower(w)) = Term("word", Lower(x))
    BY DEF Terms, Term
  <2> QED
    BY <2>1, <2>2 DEF Has
<1>4. q.any = {Term("word", Lower(w))} /\ q.all = {}
  <2>1. CASE w.capital
    BY <2>1 DEF ParsedQuery, Build
  <2>2. CASE ~w.capital
    <3>1. w = [of |-> w.of, capital |-> w.capital] /\ w.capital \in BOOLEAN
      BY IndexAssumption
    <3>2. w.capital = FALSE
      BY <2>2, <3>1
    <3>3. Lower(w) = w
      BY <3>1, <3>2 DEF Lower
    <3> QED
      BY <2>2, <3>3 DEF TermQuery, Build
  <2> QED
    BY <2>1, <2>2
<1> QED
  BY <1>1, <1>2, <1>3, <1>4 DEF Matches

\* A search gives back documents that match, and all of them if it may.
LEMMA ResultsAre ==
  ASSUME NEW r, NEW q, NEW limit, NEW found \in Results(r, q, limit)
  PROVE  /\ \A i \in found : \E c \in Matching(r, q) : i = c[1].id
         /\ age[r] # 2 /\ Cardinality(Matching(r, q)) <= limit =>
              found = {c[1].id : c \in Matching(r, q)}
<1> DEFINE all == Matching(r, q)
           best == IF Cardinality(all) <= limit THEN {all} ELSE {d \in SUBSET all : Cardinality(d) = limit}
<1>1. found \in {{c[1].id : c \in d} : d \in best} \/ (age[r] = 2 /\ found = {})
  BY DEF Results
<1>2. best \subseteq SUBSET all
  OBVIOUS
<1>3. ASSUME found \in {{c[1].id : c \in d} : d \in best}, NEW i \in found
      PROVE  \E c \in all : i = c[1].id
  BY <1>2, <1>3
<1> QED
  BY <1>1, <1>3

\* A reader opened at any moment and however old finds by tag, by a word with a
\* capital and by a term without one no entry that was not confirmed by then; it
\* finds all that were, while it is not outdated and the limit allows
\* (search.cpp:10-114, indexing.cpp:148-183).
THEOREM SearchSound == Spec => []SearchFindsConfirmed
<1>1. ASSUME Inv, NEW r \in Readers, snapshot[r] # None, NEW q, NEW limit \in Limits, NEW W,
             W \subseteq Entries, \A e \in Entries : Matches(e, q) <=> e \in W
      PROVE  Finds(r, q, limit, {e.id : e \in seen[r].confirmed \cap W})
  <2>1. /\ seen[r].confirmed \subseteq Entries
        /\ \A e \in Entries :
             /\ e \in seen[r].confirmed => snapshot[r][e] > 0
             /\ e.id \notin seen[r].doubt /\ snapshot[r][e] > 0 => e \in seen[r].confirmed
    BY <1>1 DEF Inv, TypeOK, ReadersAgree
  <2>2. /\ snapshot[r] \in Documents /\ age[r] \in 0 .. 2
    BY <1>1 DEF Inv, TypeOK
  <2>3. \A c \in Matching(r, q) : c[1] \in W /\ snapshot[r][c[1]] > 0
    <3>1. ASSUME NEW c \in Copies(snapshot[r]) PROVE c[1] \in Entries /\ snapshot[r][c[1]] > 0
      <4>1. PICK e \in Entries : c \in {e} \X (1 .. snapshot[r][e])
        BY <3>1 DEF Copies
      <4>2. c[1] = e /\ c[2] \in 1 .. snapshot[r][e] /\ snapshot[r][e] \in Nat
        BY <2>2, <4>1 DEF Documents
      <4> QED
        BY <4>2
    <3> QED
      BY <1>1, <3>1 DEF Matching
  <2>4. ASSUME NEW e \in seen[r].confirmed \cap W PROVE \E c \in Matching(r, q) : c[1] = e
    <3>1. e \in Entries /\ Matches(e, q) /\ snapshot[r][e] > 0
      BY <1>1, <2>1, <2>4
    <3>2. <<e, 1>> \in Copies(snapshot[r])
      <4>1. 1 \in 1 .. snapshot[r][e]
        BY <2>2, <3>1 DEF Documents
      <4>2. <<e, 1>> \in {e} \X (1 .. snapshot[r][e])
        BY <4>1
      <4> QED
        BY <3>1, <4>2 DEF Copies
    <3> QED
      BY <1>1, <3>1, <3>2 DEF Matching
  <2> SUFFICES ASSUME NEW found \in Results(r, q, limit)
               PROVE  /\ found \ seen[r].doubt \subseteq {e.id : e \in seen[r].confirmed \cap W}
                      /\ age[r] < 2 /\ Cardinality(Matching(r, q)) <= limit =>
                           {e.id : e \in seen[r].confirmed \cap W} \subseteq found
    BY DEF Finds
  <2>5. ASSUME NEW i \in found, i \notin seen[r].doubt
        PROVE  \E e \in seen[r].confirmed \cap W : i = e.id
    <3>1. PICK c \in Matching(r, q) : i = c[1].id
      BY ResultsAre
    <3> QED
      BY <1>1, <2>1, <2>3, <2>5, <3>1
  <2>6. ASSUME age[r] < 2, Cardinality(Matching(r, q)) <= limit, NEW e \in seen[r].confirmed \cap W
        PROVE  e.id \in found
    <3>1. found = {c[1].id : c \in Matching(r, q)}
      BY <2>2, <2>6, ResultsAre
    <3> QED
      BY <2>4, <2>6, <3>1
  <2> QED
    BY <2>5, <2>6
<1>2. ASSUME Inv PROVE SearchFindsConfirmed
  <2> SUFFICES ASSUME NEW r \in Readers, snapshot[r] # None, NEW w \in Words, NEW limit \in Limits
               PROVE  /\ Finds(r, TagQuery(w), limit, {e.id : e \in {f \in seen[r].confirmed : w \in f.tags}})
                      /\ Finds(r, IF w.capital THEN ParsedQuery(w) ELSE TermQuery(w), limit,
                               {e.id : e \in {f \in seen[r].confirmed : Has(f, w)}})
    BY DEF SearchFindsConfirmed
  <2> DEFINE T == {f \in Entries : w \in f.tags}
             H == {f \in Entries : Has(f, w)}
             q == IF w.capital THEN ParsedQuery(w) ELSE TermQuery(w)
  <2>1. /\ \A e \in Entries : Matches(e, TagQuery(w)) <=> e \in T
        /\ \A e \in Entries : Matches(e, q) <=> e \in H
    BY QueriesMatch
  <2>2. /\ seen[r].confirmed \subseteq Entries
        /\ seen[r].confirmed \cap T = {f \in seen[r].confirmed : w \in f.tags}
        /\ seen[r].confirmed \cap H = {f \in seen[r].confirmed : Has(f, w)}
    BY <1>2 DEF Inv, TypeOK
  <2>3. T \subseteq Entries /\ H \subseteq Entries
    OBVIOUS
  <2> HIDE DEF T, H, q
  <2>4. /\ Finds(r, TagQuery(w), limit, {e.id : e \in seen[r].confirmed \cap T})
        /\ Finds(r, q, limit, {e.id : e \in seen[r].confirmed \cap H})
    BY <1>1, <1>2, <2>1, <2>3
  <2> QED
    BY <2>2, <2>4 DEF q
<1> QED
  BY <1>2, IndexInv, PTL

=============================================================================
