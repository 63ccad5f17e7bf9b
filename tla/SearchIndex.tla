---------------------------- MODULE SearchIndex ----------------------------
(***************************************************************************)
(* The search index (src/src/indexing.cpp, search.cpp): the IndexManagers  *)
(* and SearchEngines of several processes over one Xapian directory.       *)
(*                                                                         *)
(* Xapian is external.  A WritableDatabase locks its directory until it is *)
(* closed or its process ends; commit() is atomic; a commit that fails may *)
(* keep or drop what was to be written; a Database reads the documents of  *)
(* the moment it was opened, and may fail once two later commits have      *)
(* reused their blocks.  A WritableDatabase whose directory is removed     *)
(* writes on to files that have no name any more, and its lock keeps       *)
(* nobody from making a new database.                                      *)
(*                                                                         *)
(* Calls on a manager without a database return false and change nothing;  *)
(* so does open() or create() while the directory is locked.               *)
(***************************************************************************)
EXTENDS Naturals, FiniteSets

CONSTANTS
  Managers,     \* the IndexManagers, one process each
  Readers,      \* the SearchEngines
  Entries,      \* records of an id, words and tags
  Words,        \* words as they are spelled: records of a word, with or without a capital
  Limits,       \* max_results of the searches, 10 unless the caller says otherwise
  None,         \* no database
  DiskFails,    \* may a write fail?
  MaxDocuments  \* bound: documents in the index

Documents == [Entries -> Nat]
NoDocuments == [e \in Entries |-> 0]
Ids == {e.id : e \in Entries}

ASSUME IndexAssumption ==
  /\ \A w \in Words : w = [of |-> w.of, capital |-> w.capital] /\ w.capital \in BOOLEAN
  /\ \A e \in Entries :
       /\ e = [id |-> e.id, words |-> e.words, tags |-> e.tags]
       /\ e.words \subseteq Words /\ e.tags \subseteq Words
  /\ Limits \subseteq Nat
  /\ None \notin Documents
  /\ DiskFails \in BOOLEAN
  /\ MaxDocuments \in Nat

VARIABLES
  dir,        \* the directory: "absent", "bare" (no database in it) or "database"
  docs,       \* the committed documents
  db,         \* db_ of each manager: the documents it would commit, or None
  orphans,    \* managers whose database was removed under them
  at,         \* where clear() or rebuild_index() of each manager is
  plan,       \* the entries rebuild_index() has still to add
  snapshot,   \* db_ of each reader: the documents it was opened on, or None
  age,        \* commits since then, up to 2
  doubt,      \* history: ids of which a call failed or was made to an orphan
  expected,   \* history: what the calls that returned true made of the other ids
  seen        \* history: expected and doubt when each reader was opened

index == <<dir, docs, db, orphans, at, plan>>
calls == <<expected, doubt>>
readers == <<snapshot, age, seen>>
vars == <<index, readers, calls>>

-----------------------------------------------------------------------------
Lower(w) == [w EXCEPT !.capital = FALSE]

\* entry_to_document: index_text takes words in lower case and, without a stemmer,
\* nothing else; a tag is also a term as it is spelled.  The words of a metadata
\* pair are words like others; the pair itself goes into a value slot, where no
\* query looks.
Term(kind, of) == [kind |-> kind, of |-> of]

\* Mutant: tags are indexed as words only.
Terms_NoTags(e) ==
  {Term("word", Lower(w)) : w \in e.words \cup e.tags} \cup {Term("id", e.id)}

Terms(e) ==
  {Term("word", Lower(w)) : w \in e.words \cup e.tags}
    \cup {Term("tag", t) : t \in e.tags}
    \cup {Term("id", e.id)}

\* QueryBuilder::build: any of the terms, all of the filters, everything if
\* there is neither.
Build(terms, filters) == [any |-> terms, all |-> filters]
Matches(e, q) ==
  /\ q.any = {} \/ q.any \cap Terms(e) # {}
  /\ q.all \subseteq Terms(e)

TagQuery(t) == Build({}, {Term("tag", t)})

\* add_term takes a word as it is spelled.
TermQuery(w) == Build({Term("word", w)}, {})

\* parse_query, with STEM_SOME: a word with a capital is looked for in lower case,
\* any other by its stem, and entry_to_document makes no stems.
ParsedQuery(w) == Build({IF w.capital THEN Term("word", Lower(w)) ELSE Term("stem", w)}, {})

Copies(set) == UNION {{e} \X (1 .. set[e]) : e \in Entries}

\* SearchEngine::search: the ids of at most `limit` of the documents that match,
\* the best of them by a rank that is left out; none, perhaps, of a reader that
\* is two commits old, and none without a database.
Matching(r, q) ==
  IF snapshot[r] = None THEN {} ELSE {c \in Copies(snapshot[r]) : Matches(c[1], q)}
Results(r, q, limit) ==
  LET all == Matching(r, q)
      best == IF Cardinality(all) <= limit THEN {all} ELSE {d \in SUBSET all : Cardinality(d) = limit}
  IN {{c[1].id : c \in d} : d \in best}
       \cup (IF age[r] = 2 THEN {{}} ELSE {})

-----------------------------------------------------------------------------
TypeOK ==
  /\ dir \in {"absent", "bare", "database"}
  /\ docs \in Documents
  /\ db \in [Managers -> Documents \cup {None}]
  /\ orphans \subseteq Managers
  /\ at \in [Managers -> {"idle", "create", "fill"}]
  /\ plan \in [Managers -> SUBSET Entries]
  /\ snapshot \in [Readers -> Documents \cup {None}]
  /\ age \in [Readers -> 0 .. 2]
  /\ expected \in Documents
  /\ doubt \subseteq Ids
  /\ seen \in [Readers -> [confirmed : SUBSET Entries, doubt : SUBSET Ids]]

Init ==
  /\ dir = "absent"
  /\ docs = NoDocuments
  /\ db = [m \in Managers |-> None]
  /\ orphans = {}
  /\ at = [m \in Managers |-> "idle"]
  /\ plan = [m \in Managers |-> {}]
  /\ snapshot = [r \in Readers |-> None]
  /\ age = [r \in Readers |-> 0]
  /\ expected = NoDocuments
  /\ doubt = {}
  /\ seen = [r \in Readers |-> [confirmed |-> {}, doubt |-> {}]]

Locked == \E m \in Managers \ orphans : db[m] # None

Ages == age' = [r \in Readers |-> IF age[r] < 2 THEN age[r] + 1 ELSE 2]

With(set, e) == [set EXCEPT ![e] = @ + 1]

\* Mutant: one document of the id is removed, there or not.
Without_One(set, i) == [e \in Entries |-> IF e.id = i THEN set[e] - 1 ELSE set[e]]

Without(set, i) == [e \in Entries |-> IF e.id = i THEN 0 ELSE set[e]]

-----------------------------------------------------------------------------
\* create() of a manager that is free to: a directory without a database gets
\* an empty one.  An orphan's database is closed for it.
MakeOrOpen(m) ==
  /\ ~Locked
  /\ \/ /\ dir' = "database"
        /\ docs' = IF dir = "database" THEN docs ELSE NoDocuments
        /\ db' = [db EXCEPT ![m] = docs']
        /\ orphans' = orphans \ {m}
        /\ IF dir = "database" THEN UNCHANGED calls
           ELSE expected' = NoDocuments /\ doubt' = {}
     \/ /\ DiskFails
        /\ dir' \in IF dir = "absent" THEN {"absent", "bare"} ELSE {dir}
        /\ UNCHANGED <<docs, db, orphans, calls>>
  /\ UNCHANGED readers

Create(m) == at[m] = "idle" /\ MakeOrOpen(m) /\ UNCHANGED <<at, plan>>

\* open() goes by the directory, so it never makes a database in a bare one.
Open(m) ==
  /\ at[m] = "idle"
  /\ ~Locked
  /\ \/ dir = "absent" /\ MakeOrOpen(m)
     \/ /\ dir = "database"
        /\ db' = [db EXCEPT ![m] = docs]
        /\ orphans' = orphans \ {m}
        /\ UNCHANGED <<dir, docs, calls, readers>>
  /\ UNCHANGED <<at, plan>>

\* close(), which commits what a failed call left behind; an orphan commits it
\* to no database.
Closed(m) ==
  /\ db' = [db EXCEPT ![m] = None]
  /\ \/ db[m] # None /\ m \notin orphans /\ docs' = db[m]
     \/ (db[m] = None \/ m \in orphans \/ DiskFails) /\ docs' = docs

Ready(m) == at[m] = "idle" /\ db[m] # None

\* commit() succeeds, or throws: the call returns true or false.
Commits(m, working) ==
  /\ db' = [db EXCEPT ![m] = working]
  /\ IF m \in orphans THEN UNCHANGED <<docs, age>> ELSE docs' = working /\ Ages
CommitFails(m, working) ==
  /\ DiskFails
  /\ \E kept \in {working, IF m \in orphans THEN db[m] ELSE docs} : db' = [db EXCEPT ![m] = kept]
  /\ UNCHANGED <<docs, age>>

\* What is noted of a call about some ids: no more is known of them ...
Doubts(ids) ==
  /\ doubt' = doubt \cup ids
  /\ expected' = [e \in Entries |-> IF e.id \in ids THEN 0 ELSE expected[e]]

\* ... or a document was added, or all of an id replaced.
Adds(m, added) ==
  IF m \in orphans THEN Doubts({e.id : e \in added})
  ELSE /\ expected' = [e \in Entries |->
            IF e \in added /\ e.id \notin doubt THEN expected[e] + 1 ELSE expected[e]]
       /\ UNCHANGED doubt
Replaces(m, i, by) ==
  IF m \in orphans THEN Doubts({i})
  ELSE /\ expected' = [e \in Entries |->
            IF e.id # i THEN expected[e] ELSE IF e \in by THEN 1 ELSE 0]
       /\ doubt' = doubt \ {i}

Fits(set) == Cardinality(Copies(set)) <= MaxDocuments

\* add_document: an id that is there already is there twice.
IndexEntry(m, e) ==
  /\ Ready(m)
  /\ Fits(With(db[m], e))
  /\ \/ /\ Commits(m, With(db[m], e))
        /\ Adds(m, {e})
     \/ /\ CommitFails(m, With(db[m], e))
        /\ Doubts({e.id})
  /\ UNCHANGED <<dir, orphans, at, plan, snapshot, seen>>

\* Mutant: the document is added beside the old ones.
UpdateEntry_Adds(m, e) ==
  /\ Ready(m)
  /\ Fits(With(db[m], e))
  /\ Commits(m, With(db[m], e))
  /\ Replaces(m, e.id, {e})
  /\ UNCHANGED <<dir, orphans, at, plan, snapshot, seen>>

\* replace_document replaces every document with the id.
UpdateEntry(m, e) ==
  /\ Ready(m)
  /\ Fits(With(Without(db[m], e.id), e))
  /\ LET working == With(Without(db[m], e.id), e) IN
     \/ /\ Commits(m, working)
        /\ Replaces(m, e.id, {e})
     \/ /\ CommitFails(m, working)
        /\ Doubts({e.id})
  /\ UNCHANGED <<dir, orphans, at, plan, snapshot, seen>>

RemoveEntry(m, i) ==
  /\ Ready(m)
  /\ \/ /\ Commits(m, Without(db[m], i))
        /\ Replaces(m, i, {})
     \/ /\ CommitFails(m, Without(db[m], i))
        /\ Doubts({i})
  /\ UNCHANGED <<dir, orphans, at, plan, snapshot, seen>>

Close(m) ==
  /\ Ready(m)
  /\ Closed(m)
  /\ orphans' = orphans \ {m}
  /\ IF docs' = docs THEN UNCHANGED age ELSE Ages
  /\ UNCHANGED <<dir, at, plan, snapshot, seen, calls>>

-----------------------------------------------------------------------------
\* clear() of a manager, or the one at the start of rebuild_index: close, remove
\* the directory, and create() later on.  Nobody asks whether another manager has
\* the database open.  Removing may stop half way.
Clear(m, entries) ==
  LET others == {n \in Managers \ {m} : db[n] # None} IN
  /\ at[m] = "idle"
  /\ \/ /\ dir' = "absent"
        /\ db' = [db EXCEPT ![m] = None]
        /\ docs' = NoDocuments
        /\ orphans' = others
        /\ at' = [at EXCEPT ![m] = "create"]
        /\ plan' = [plan EXCEPT ![m] = entries]
        /\ expected' = NoDocuments /\ doubt' = {}
     \/ /\ DiskFails
        /\ Closed(m)
        /\ \/ dir' = dir /\ orphans' = orphans \ {m}
           \/ dir' = "bare" /\ orphans' = others
        /\ UNCHANGED <<at, plan, calls>>
  /\ age' = [r \in Readers |-> 2]
  /\ UNCHANGED <<snapshot, seen>>

\* create() at the end of clear(); another process may have come first, with a
\* database of its own or its lock.
ClearCreates(m) ==
  /\ at[m] = "create"
  /\ \/ MakeOrOpen(m)
     \/ Locked /\ UNCHANGED <<dir, docs, db, orphans, calls, readers>>
  /\ IF db'[m] # None /\ plan[m] # {} THEN at' = [at EXCEPT ![m] = "fill"] /\ UNCHANGED plan
     ELSE at' = [at EXCEPT ![m] = "idle"] /\ plan' = [plan EXCEPT ![m] = {}]

\* The rest of rebuild_index: all the entries, one commit.  An exception may come
\* before all of them are added.
Filled(set, added) == [e \in Entries |-> IF e \in added THEN set[e] + 1 ELSE set[e]]

Fill(m) ==
  /\ at[m] = "fill"
  /\ Fits(Filled(db[m], plan[m]))
  /\ \/ /\ Commits(m, Filled(db[m], plan[m]))
        /\ Adds(m, plan[m])
     \/ /\ \E added \in SUBSET plan[m] : CommitFails(m, Filled(db[m], added))
        /\ Doubts({e.id : e \in plan[m]})
  /\ at' = [at EXCEPT ![m] = "idle"]
  /\ plan' = [plan EXCEPT ![m] = {}]
  /\ UNCHANGED <<dir, orphans, snapshot, seen>>

\* The process is killed; Xapian's lock goes with it.
Killed(m) ==
  /\ db[m] # None \/ at[m] # "idle"
  /\ db' = [db EXCEPT ![m] = None]
  /\ at' = [at EXCEPT ![m] = "idle"]
  /\ plan' = [plan EXCEPT ![m] = {}]
  /\ orphans' = orphans \ {m}
  /\ UNCHANGED <<dir, docs, readers, calls>>

-----------------------------------------------------------------------------
\* SearchEngine::open, which keeps the old database if it fails.
OpenReader(r) ==
  /\ dir = "database"
  /\ snapshot' = [snapshot EXCEPT ![r] = docs]
  /\ age' = [age EXCEPT ![r] = 0]
  /\ seen' = [seen EXCEPT ![r] = [confirmed |-> {e \in Entries : expected[e] > 0}, doubt |-> doubt]]
  /\ UNCHANGED <<index, calls>>

CloseReader(r) ==
  /\ snapshot[r] # None
  /\ snapshot' = [snapshot EXCEPT ![r] = None]
  /\ age' = [age EXCEPT ![r] = 0]
  /\ seen' = [seen EXCEPT ![r] = [confirmed |-> {}, doubt |-> {}]]
  /\ UNCHANGED <<index, calls>>

Next ==
  \/ \E m \in Managers :
       \/ Create(m) \/ Open(m) \/ Close(m) \/ ClearCreates(m) \/ Fill(m) \/ Killed(m)
       \/ \E e \in Entries : IndexEntry(m, e) \/ UpdateEntry(m, e)
       \/ \E i \in Ids : RemoveEntry(m, i)
       \/ \E entries \in SUBSET Entries : Clear(m, entries)
  \/ \E r \in Readers : OpenReader(r) \/ CloseReader(r)

Spec == Init /\ [][Next]_vars

-----------------------------------------------------------------------------
\* A database holds what the calls that returned true have put into it, each
\* entry as often as it was added since it was last updated or removed: across
\* locks, clears, rebuilds, closes and processes that are killed
\* (indexing.cpp:57-142).  Ids of two kinds are excepted until they are updated or
\* removed or the database is made anew: those of which a call has failed, and those
\* of which a manager has reported a change although another one had cleared its
\* database away under it (indexing.cpp:135).
IndexMatchesCalls ==
  dir = "database" => \A e \in Entries : e.id \notin doubt => docs[e] = expected[e]

\* A search for a tag, for a word with a capital or, by add_term, for a word
\* without one finds nothing that was removed or replaced before the reader was
\* opened, and every entry confirmed by then if the reader is not outdated and
\* the limit leaves room for all that match (search.cpp:10-114,
\* indexing.cpp:148-183).  The ids that IndexMatchesCalls excepts are excepted.
Has(e, w) == \E x \in e.words \cup e.tags : Lower(x) = Lower(w)

Finds(r, q, limit, wanted) ==
  \A found \in Results(r, q, limit) :
    /\ found \ seen[r].doubt \subseteq wanted
    /\ age[r] < 2 /\ Cardinality(Matching(r, q)) <= limit => wanted \subseteq found

SearchFindsConfirmed ==
  \A r \in Readers : snapshot[r] # None =>
    \A w \in Words, limit \in Limits :
      /\ Finds(r, TagQuery(w), limit, {e.id : e \in {f \in seen[r].confirmed : w \in f.tags}})
      /\ Finds(r, IF w.capital THEN ParsedQuery(w) ELSE TermQuery(w), limit,
               {e.id : e \in {f \in seen[r].confirmed : Has(f, w)}})

=============================================================================
