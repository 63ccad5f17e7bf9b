---------------------------- MODULE ConfigProofs ----------------------------
(***************************************************************************)
(* Theorems about Config, for any files, keys and lines, any number of     *)
(* loads and includes nested to any depth: the types, that the last        *)
(* assignment that stores something counts, that every default is tried,   *)
(* that load() answers by the grammar, that includes are put in their      *)
(* place, and that no call goes on for ever.                               *)
(***************************************************************************)
EXTENDS Config, FiniteSetTheorems, SequenceTheorems, WellFoundedInduction, TLAPS

FrameTo(n) == [open : 1 .. n, line : Nat \ {0}]

\* Frames and lines of the text point into files that were opened, a call of
\* preprocess() is on the stack while one runs, and no string is left over.
Placed ==
  /\ \A o \in DOMAIN loaded : Exists(loaded[o])
  /\ phase = "preprocess" => frames # <<>>
  /\ \A i \in DOMAIN text :
       text[i].open \in DOMAIN loaded /\ text[i].line \in DOMAIN Content(text[i].open)
  /\ phase = "parse" => next > 0
  /\ string = None

-----------------------------------------------------------------------------
\* What the rule ws stops at: it stops, at the first line with ink or past the end.
LEMMA LeastNatural ==
  ASSUME NEW T, T \subseteq Nat, T # {}
  PROVE  \E m \in T : \A k \in T : m <= k
<1>1. PICK m \in T : \A k \in T : ~(<<k, m>> \in OpToRel(<, Nat))
  BY WFMin, NatLessThanWellFounded
<1>2. \A k \in T : ~(k < m)
  BY <1>1 DEF OpToRel
<1> QED
  BY <1>2

LEMMA PastIsPlace ==
  ASSUME NEW i \in Nat, Len(text) \in Nat, i <= Len(text) + 1
  PROVE  /\ Past(i) \in i .. Len(text) + 1
         /\ Past(i) = Len(text) + 1 \/ Ink(Past(i))
         /\ \A k \in i .. Past(i) - 1 : ~Ink(k)
<1> DEFINE T == {j \in i .. Len(text) + 1 : j = Len(text) + 1 \/ Ink(j)}
<1>1. Len(text) + 1 \in T /\ T \subseteq Nat
  OBVIOUS
<1>2. PICK j \in T : \A k \in T : j <= k
  BY <1>1, LeastNatural
<1>3. \A k \in i .. j - 1 : ~Ink(k)
  <2> SUFFICES ASSUME NEW k \in i .. j - 1, Ink(k) PROVE FALSE
    OBVIOUS
  <2>1. k \in T
    BY <1>2
  <2> QED
    BY <1>2, <2>1
<1>4. \E q \in i .. Len(text) + 1 :
        /\ q = Len(text) + 1 \/ Ink(q)
        /\ \A k \in i .. q - 1 : ~Ink(k)
  BY <1>2, <1>3
<1> QED
  BY <1>4 DEF Past

-----------------------------------------------------------------------------
LEMMA DiskTyped ==
  ASSUME TypeOK, Placed, NEW o \in DOMAIN loaded
  PROVE  /\ loaded[o] \in Paths
         /\ Content(o) \in Seq(Lines)
         /\ DOMAIN Content(o) = 1 .. Len(Content(o))
         /\ \A l \in DOMAIN Content(o) : Content(o)[l] \in Lines
<1>1. loaded[o] \in Paths
  BY DEF TypeOK
<1>2. disk \in [Files -> Seq(Lines) \cup {Missing}]
  BY ConfigAssumption DEF TypeOK
<1>3. loaded[o].file \in Files
  BY <1>1 DEF Paths
<1>4. Content(o) \in Seq(Lines)
  BY <1>2, <1>3 DEF Content, Placed, Exists
<1> QED
  BY <1>1, <1>4

\* A path that can be read is one, and opening it keeps everything in place.
LEMMA OpenKeeps ==
  ASSUME TypeOK, Placed, NEW p \in Paths, ~CannotRead(p), loaded' = Append(loaded, p), UNCHANGED disk
  PROVE  /\ loaded' \in Seq(Paths)
         /\ DOMAIN loaded' = 1 .. Len(loaded) + 1 /\ Len(loaded) \in Nat
         /\ DOMAIN loaded = 1 .. Len(loaded)
         /\ \A o \in DOMAIN loaded : loaded'[o] = loaded[o] /\ Content(o)' = Content(o)
         /\ \A o \in DOMAIN loaded' : Exists(loaded[o])'
<1>1. loaded \in Seq(Paths) /\ Len(loaded) \in Nat /\ DOMAIN loaded = 1 .. Len(loaded)
  BY DEF TypeOK
<1>2. /\ loaded' \in Seq(Paths) /\ DOMAIN loaded' = 1 .. Len(loaded) + 1
      /\ loaded'[Len(loaded) + 1] = p
      /\ \A o \in 1 .. Len(loaded) : loaded'[o] = loaded[o]
  BY <1>1
<1>3. \A o \in DOMAIN loaded : Content(o)' = Content(o)
  BY <1>1, <1>2 DEF Content
<1>4. \A o \in DOMAIN loaded' : Exists(loaded[o])'
  BY <1>1, <1>2 DEF Exists, Placed, CannotRead, Opens
<1> QED
  BY <1>1, <1>2, <1>3, <1>4

\* The sites of the files grow with them.
LEMMA SitesGrow ==
  ASSUME TypeOK, NEW s \in Seq(Nat), sites' = Append(sites, s)
  PROVE  /\ sites' \in Seq(Seq(Nat)) /\ Len(sites') = Len(loaded) + 1
         /\ DOMAIN sites = 1 .. Len(loaded) /\ DOMAIN sites' = 1 .. Len(loaded) + 1
         /\ Len(loaded) \in Nat
         /\ sites'[Len(loaded) + 1] = s
         /\ \A o \in 1 .. Len(loaded) : sites'[o] = sites[o] /\ sites[o] \in Seq(Nat)
BY DEF TypeOK

LEMMA FramesGrow ==
  ASSUME NEW n \in Nat, NEW s \in Seq(FrameTo(n))
  PROVE  s \in Seq(FrameTo(n + 1))
<1>1. FrameTo(n) \subseteq FrameTo(n + 1)
  BY DEF FrameTo
<1> QED
  BY <1>1, SeqMonotonic

\* load() and load_defaults() build paths.
LEMMA PathsTyped ==
  /\ \A f \in Files : PathOf(f) \in Paths
  /\ DefaultPaths \in Seq(Paths)
<1>1. \A f \in Files : PathOf(f) \in Paths
  BY ConfigAssumption DEF PathOf, Paths
<1>2. \A f \in Files : <<PathOf(f)>> \in Seq(Paths)
  <2>1. ASSUME NEW p \in Paths PROVE <<p>> \in Seq(Paths)
    OBVIOUS
  <2> QED
    BY <1>1, <2>1
<1>3. <<>> \in Seq(Paths)
  OBVIOUS
<1> QED
  BY <1>1, <1>2, <1>3, ConfigAssumption, ConcatProperties DEF DefaultPaths

LEMMA LoadKeeps ==
  ASSUME TypeOK, Placed, phase = "idle", NEW p \in Paths, Load(p),
         defaults' \in Seq(Paths), trying' \in BOOLEAN
  PROVE  TypeOK' /\ Placed'
<1>1. CASE CannotRead(p)
  <2>1. /\ text' = <<>> /\ next' = 0 /\ answer' = "false"
        /\ UNCHANGED <<disk, env, values, loaded, sites, phase, frames, string, applied>>
    BY <1>1 DEF Load
  <2>2. frames' \in Seq([open : 1 .. Len(loaded'), line : Nat \ {0}]) /\ text' \in Seq(Tags)
    BY <2>1 DEF TypeOK
  <2>3. TypeOK'
    BY <2>1, <2>2 DEF TypeOK
  <2> QED
    BY <2>1, <2>3 DEF Placed, Exists
<1>2. CASE ~CannotRead(p)
  <2> DEFINE n == Len(loaded)
             frame == [open |-> n + 1, line |-> 1]
  <2>1. /\ text' = <<>> /\ next' = 0 /\ answer' = "none"
        /\ loaded' = Append(loaded, p) /\ frames' = <<frame>> /\ phase' = "preprocess"
        /\ sites' = Append(sites, <<>>)
        /\ UNCHANGED <<disk, env, values, string, applied>>
    BY <1>2 DEF Load
  <2>2. /\ loaded' \in Seq(Paths) /\ Len(loaded') = n + 1 /\ n \in Nat
        /\ \A o \in DOMAIN loaded' : Exists(loaded[o])'
    BY <1>2, <2>1, OpenKeeps DEF TypeOK
  <2>3. frame \in FrameTo(n + 1)
    BY <2>2 DEF FrameTo
  <2>4. frames' \in Seq(FrameTo(n + 1))
    BY <2>1, <2>3
  <2>5. TypeOK'
    <3>1. <<>> \in Seq(Nat)
      OBVIOUS
    <3> QED
      BY <2>1, <2>2, <2>4, <3>1, SitesGrow DEF TypeOK, FrameTo
  <2> QED
    BY <2>1, <2>2, <2>5 DEF Placed
<1> QED
  BY <1>1, <1>2

\* The line preprocess() has reached is a line of a file.
LEMMA CurrentIsLine ==
  ASSUME TypeOK, Placed, phase = "preprocess", ~AtEnd
  PROVE  /\ Inner \in FrameTo(Len(loaded))
         /\ Inner.open \in DOMAIN loaded /\ Inner.line \in DOMAIN Content(Inner.open)
         /\ Current \in Lines
         /\ Inner \in Tags
         /\ Advanced \in Seq(FrameTo(Len(loaded))) /\ Advanced # <<>>
<1>1. frames \in Seq(FrameTo(Len(loaded))) /\ frames # <<>> /\ Len(loaded) \in Nat
  BY DEF TypeOK, Placed, FrameTo
<1>2. Inner \in FrameTo(Len(loaded)) /\ Tail(frames) \in Seq(FrameTo(Len(loaded)))
  BY <1>1, HeadTailProperties DEF Inner
<1>3. Inner.open \in DOMAIN loaded /\ Inner.line \in Nat \ {0} /\ Inner \in Tags
  BY <1>1, <1>2 DEF FrameTo, TypeOK, Tags
<1>4. Inner.line \in DOMAIN Content(Inner.open)
  BY <1>3, DiskTyped DEF AtEnd
<1>5. Current \in Lines
  BY <1>3, <1>4, DiskTyped DEF Current
<1>6. [Inner EXCEPT !.line = @ + 1] \in FrameTo(Len(loaded))
  BY <1>2 DEF FrameTo
<1>7. Advanced \in Seq(FrameTo(Len(loaded))) /\ Advanced # <<>>
  <2>1. ASSUME NEW e \in FrameTo(Len(loaded)), NEW s \in Seq(FrameTo(Len(loaded)))
        PROVE  <<e>> \o s \in Seq(FrameTo(Len(loaded))) /\ <<e>> \o s # <<>>
    OBVIOUS
  <2> QED
    BY <1>2, <1>6, <2>1 DEF Advanced
<1> QED
  BY <1>2, <1>3, <1>4, <1>5, <1>7

LEMMA PlaceTyped ==
  ASSUME TypeOK, NEW tag, tag.open \in DOMAIN loaded, tag.line \in Nat
  PROVE  Place(tag) \in Seq(Nat)
<1>1. sites[tag.open] \in Seq(Nat)
  BY DEF TypeOK
<1> QED
  BY <1>1 DEF Place

LEMMA CopyLineKeeps ==
  ASSUME TypeOK, Placed, CopyLine
  PROVE  TypeOK' /\ Placed'
<1>1. /\ Inner \in Tags
      /\ Inner.open \in DOMAIN loaded /\ Inner.line \in DOMAIN Content(Inner.open)
      /\ Advanced \in Seq(FrameTo(Len(loaded))) /\ Advanced # <<>>
  BY CurrentIsLine DEF CopyLine
<1>2. /\ text' = Append(text, Inner) /\ frames' = Advanced /\ phase = "preprocess"
      /\ UNCHANGED <<disk, env, values, loaded, sites, phase, next, string, answer, applied, defaults, trying>>
  BY DEF CopyLine
<1>3. /\ text' \in Seq(Tags)
      /\ \A i \in DOMAIN text' : text'[i] = Inner \/ (i \in DOMAIN text /\ text'[i] = text[i])
  <2>1. text \in Seq(Tags)
    BY DEF TypeOK
  <2> QED
    BY <1>1, <1>2, <2>1
<1>4. frames' \in Seq([open : 1 .. Len(loaded'), line : Nat \ {0}])
  BY <1>1, <1>2 DEF FrameTo
<1>5. TypeOK'
  BY <1>2, <1>3, <1>4 DEF TypeOK
<1>6. \A o : Content(o)' = Content(o) /\ (Exists(loaded[o])' <=> Exists(loaded[o]))
  BY <1>2 DEF Content, Exists
<1> QED
  BY <1>1, <1>2, <1>3, <1>5, <1>6 DEF Placed

LEMMA TargetIsPath ==
  ASSUME NEW from \in Paths, NEW line \in Lines, line.kind = "include", line.file # None,
         Opens(Target(from, line))
  PROVE  Target(from, line) \in Paths
<1>1. line.file \in Files /\ line.how \in {"plain", "detour", "absolute"}
  BY DEF Lines
<1>2. from.detours \in Nat
  BY ConfigAssumption DEF Paths
<1> QED
  BY <1>1, <1>2, ConfigAssumption DEF Target, Paths, Opens

LEMMA IncludeKeeps ==
  ASSUME TypeOK, Placed, Include
  PROVE  TypeOK' /\ Placed'
<1> DEFINE p == Target(loaded[Inner.open], Current)
           n == Len(loaded)
<1>1. /\ Inner.open \in DOMAIN loaded
      /\ Current \in Lines
      /\ Advanced \in Seq(FrameTo(n)) /\ Advanced # <<>>
      /\ n \in Nat
  BY CurrentIsLine DEF Include, TypeOK
<1>2. /\ phase = "preprocess"
      /\ UNCHANGED <<disk, env, values, phase, text, next, string, answer, applied, defaults, trying>>
  BY DEF Include
<1>3. CASE Current.file = None \/ CannotRead(p)
  <2>1. frames' = Advanced /\ UNCHANGED <<loaded, sites>>
    BY <1>3 DEF Include
  <2>2. frames' \in Seq([open : 1 .. Len(loaded'), line : Nat \ {0}])
    BY <1>1, <2>1 DEF FrameTo
  <2>3. TypeOK'
    BY <1>2, <2>1, <2>2 DEF TypeOK
  <2>4. \A o : Content(o)' = Content(o) /\ (Exists(loaded[o])' <=> Exists(loaded[o]))
    BY <1>2, <2>1 DEF Content, Exists
  <2>5. Placed'
    BY <1>1, <1>2, <2>1, <2>4 DEF Placed
  <2> QED
    BY <2>3, <2>5
<1>4. CASE ~(Current.file = None \/ CannotRead(p))
  <2> DEFINE frame == [open |-> n + 1, line |-> 1]
  <2>1. /\ loaded' = Append(loaded, p) /\ frames' = <<frame>> \o Advanced
        /\ sites' = Append(sites, Place(Inner))
    BY <1>4 DEF Include
  <2>2. p \in Paths
    BY <1>1, <1>4, TargetIsPath, DiskTyped DEF Include, CannotRead
  <2>3. /\ loaded' \in Seq(Paths) /\ Len(loaded') = n + 1
        /\ DOMAIN loaded' = 1 .. n + 1 /\ DOMAIN loaded = 1 .. n
        /\ \A o \in DOMAIN loaded : Content(o)' = Content(o)
        /\ \A o \in DOMAIN loaded' : Exists(loaded[o])'
    BY <1>2, <1>4, <2>1, <2>2, OpenKeeps DEF TypeOK
  <2>4. frame \in FrameTo(n + 1) /\ Advanced \in Seq(FrameTo(n + 1))
    <3>1. frame \in FrameTo(n + 1)
      BY <1>1 DEF FrameTo
    <3> QED
      BY <1>1, <3>1, FramesGrow
  <2>5. frames' \in Seq(FrameTo(n + 1)) /\ frames' # <<>>
    <3>1. ASSUME NEW e \in FrameTo(n + 1), NEW s \in Seq(FrameTo(n + 1))
          PROVE  <<e>> \o s \in Seq(FrameTo(n + 1)) /\ <<e>> \o s # <<>>
      OBVIOUS
    <3> QED
      BY <2>1, <2>4, <3>1
  <2>6. TypeOK'
    <3>1. Place(Inner) \in Seq(Nat)
      BY CurrentIsLine, PlaceTyped DEF Include, Tags
    <3> QED
      BY <1>2, <2>1, <2>3, <2>5, <3>1, SitesGrow DEF TypeOK, FrameTo
  <2>7. Placed'
    BY <1>1, <1>2, <2>3, <2>5 DEF Placed
  <2> QED
    BY <2>3, <2>6, <2>7
<1> QED
  BY <1>3, <1>4

\* A file opened before keeps its lines when another is opened.
LEMMA IncludeContents ==
  ASSUME TypeOK, Placed, Include
  PROVE  \A o \in DOMAIN loaded : Content(o)' = Content(o)
<1> DEFINE p == Target(loaded[Inner.open], Current)
<1>1. UNCHANGED disk /\ Current \in Lines /\ Inner.open \in DOMAIN loaded
  BY CurrentIsLine DEF Include
<1>2. CASE Current.file = None \/ CannotRead(p)
  BY <1>1, <1>2 DEF Include, Content
<1>3. CASE ~(Current.file = None \/ CannotRead(p))
  <2>1. loaded' = Append(loaded, p)
    BY <1>3 DEF Include
  <2>2. p \in Paths
    BY <1>1, <1>3, TargetIsPath, DiskTyped DEF Include, CannotRead
  <2> QED
    BY <1>1, <1>3, <2>1, <2>2, OpenKeeps
<1> QED
  BY <1>2, <1>3

LEMMA ReturnKeeps ==
  ASSUME TypeOK, Placed, Return
  PROVE  TypeOK' /\ Placed'
<1>1. frames \in Seq(FrameTo(Len(loaded))) /\ frames # <<>>
  BY DEF TypeOK, Placed, FrameTo, Return
<1>2. frames' \in Seq([open : 1 .. Len(loaded), line : Nat \ {0}])
  BY <1>1 DEF Return, FrameTo
<1>3. UNCHANGED <<disk, env, values, loaded, sites, text, answer, applied, defaults, trying>>
  BY DEF Return
<1>4. \/ phase' = "parse" /\ next' = 1 /\ string' = None
      \/ frames' # <<>> /\ UNCHANGED <<phase, next, string>>
  BY DEF Return
<1>5. TypeOK'
  BY <1>2, <1>3, <1>4 DEF TypeOK
<1>6. \A o : Content(o)' = Content(o) /\ (Exists(loaded[o])' <=> Exists(loaded[o]))
  BY <1>3 DEF Content, Exists
<1> QED
  BY <1>3, <1>4, <1>5, <1>6 DEF Placed, Return

-----------------------------------------------------------------------------
\* The parser is at a line of the text, and goes on to one or to the end.
LEMMA StatementPlaces ==
  ASSUME TypeOK, Placed, phase = "parse", next <= Len(text)
  PROVE  /\ CommentAt \in Nat
         /\ Assigns => First \in DOMAIN text /\ Subject \in Lines /\ text[First] \in Tags
<1>1. next \in Nat \ {0} /\ Len(text) \in Nat /\ DOMAIN text = 1 .. Len(text)
  BY DEF TypeOK, Placed
<1>2. First \in next .. Len(text) + 1
  BY <1>1, PastIsPlace DEF First
<1>3. Assigns => First \in DOMAIN text
  BY <1>1, <1>2 DEF Assigns
<1>4. ASSUME Assigns PROVE Subject \in Lines /\ text[First] \in Tags
  <2>1. /\ text[First] \in Tags /\ text[First].open \in DOMAIN loaded
        /\ text[First].line \in DOMAIN Content(text[First].open)
    BY <1>3, <1>4 DEF TypeOK, Placed
  <2> QED
    BY <2>1, DiskTyped DEF Subject, Line
<1>5. CommentAt \in Nat
  <2>1. CASE Assigns /\ ~Subject.comment
    <3>1. First + 1 \in Nat /\ First + 1 <= Len(text) + 1
      BY <1>1, <1>3, <2>1
    <3> QED
      BY <1>1, <2>1, <3>1, PastIsPlace DEF CommentAt
  <2>2. CASE ~(Assigns /\ ~Subject.comment)
    BY <1>1, <1>2, <2>2 DEF CommentAt
  <2> QED
    BY <2>1, <2>2
<1> QED
  BY <1>3, <1>4, <1>5

\* What an assignment stores is what is noted of it, and nothing is stored of a
\* spelling that means nothing.
LEMMA AssignmentNoted ==
  ASSUME TypeOK, Placed, Statement
  PROVE  /\ string' = None
         /\ \/ UNCHANGED <<values, applied>>
            \/ \E k \in Keys, type \in Types, by \in Tags :
                 /\ values' = Stored(k, type, by)
                 /\ applied' = Append(applied, [key |-> k, type |-> type, by |-> by])
<1> DEFINE shape == Subject.shape
<1>1. Assigns => Subject \in Lines /\ text[First] \in Tags
  BY StatementPlaces DEF Statement
<1>2. CASE ~Assigns
  BY <1>2 DEF Statement, Placed
<1>3. CASE Assigns
  <2>1. Subject.key \in Keys /\ shape \in Shapes /\ text[First] \in Tags /\ text[First] # None
    BY <1>1, <1>3, NoneAssumption DEF Lines, Assigns
  <2>2. string = None /\ "STRING" \in Types /\ "STRING" # None
    BY NoneAssumption DEF Placed, Types
  <2>3. RuleStores(shape) = None \/ (RuleStores(shape) \in Types /\ RuleStores(shape) # None)
    BY NoneAssumption DEF RuleStores, Types
  <2>4. CASE shape = "overflow"
    <3>1. StoredType(shape) = None
      BY <2>4 DEF StoredType, LeaveString, RuleStores
    <3> QED
      BY <1>3, <2>2, <2>4, <3>1 DEF Statement
  <2>5. CASE shape \in LeaveString
    <3>1. shape # "overflow" /\ StoredType(shape) = "STRING"
      BY <2>5 DEF LeaveString, StoredType
    <3>2. string' = None /\ values' = Stored(Subject.key, "STRING", text[First])
      <4>1. Assign
        BY <1>3, <3>1 DEF Statement
      <4> QED
        BY <2>1, <2>5, <4>1 DEF Assign, LeaveString
    <3>3. applied' = Append(applied, [key |-> Subject.key, type |-> "STRING", by |-> text[First]])
      BY <1>3, <2>2, <3>1 DEF Statement
    <3> QED
      BY <2>1, <2>2, <3>2, <3>3
  <2>6. CASE shape \notin LeaveString /\ shape # "overflow"
    <3>1. StoredType(shape) = RuleStores(shape)
      BY <2>6 DEF StoredType
    <3>2. /\ string' = None
          /\ values' = IF RuleStores(shape) # None THEN Stored(Subject.key, RuleStores(shape), text[First])
                       ELSE values
      BY <1>3, <2>2, <2>6 DEF Statement, Assign
    <3>3. applied' = IF RuleStores(shape) # None
                       THEN Append(applied, [key |-> Subject.key, type |-> RuleStores(shape),
                                             by |-> text[First]])
                       ELSE applied
      BY <1>3, <3>1 DEF Statement
    <3> QED
      BY <2>1, <2>3, <3>2, <3>3
  <2> QED
    BY <2>4, <2>5, <2>6
<1> QED
  BY <1>2, <1>3

\* The property follows the history: an assignment that is carried out becomes
\* the last one to its key and leaves the other keys alone.
LEMMA AssignmentCounts ==
  ASSUME TypeOK, LastStoredWins, NEW k \in Keys, NEW type \in Types, NEW by \in Tags \cup {Program},
         values' = Stored(k, type, by),
         applied' = Append(applied, [key |-> k, type |-> type, by |-> by])
  PROVE  /\ values' \in [Keys -> Values \cup {None}]
         /\ applied' \in Seq([key : Keys, type : Types, by : Tags \cup {Program}])
         /\ LastStoredWins'
<1> DEFINE new == [type |-> type, by |-> by]
           note == [key |-> k, type |-> type, by |-> by]
           n == Len(applied)
<1>1. new \in Values /\ new # None /\ new.type = type /\ new.by = by
  BY NoneAssumption DEF Values
<1>2. /\ values' \in [Keys -> Values \cup {None}]
      /\ values'[k] = new
      /\ \A j \in Keys \ {k} : values'[j] = values[j]
  BY <1>1 DEF TypeOK, Stored
<1>3. /\ applied' \in Seq([key : Keys, type : Types, by : Tags \cup {Program}])
      /\ n \in Nat /\ DOMAIN applied = 1 .. n /\ DOMAIN applied' = 1 .. n + 1
      /\ applied'[n + 1] = note
      /\ \A i \in 1 .. n : applied'[i] = applied[i]
  BY DEF TypeOK
<1> HIDE DEF new
<1>4. ASSUME NEW j \in Keys, {i \in DOMAIN applied' : applied'[i].key = j} = {}
      PROVE  values'[j] = None
  <2>1. j # k
    BY <1>3, <1>4
  <2>2. {i \in DOMAIN applied : applied[i].key = j} = {}
    BY <1>3, <1>4
  <2> QED
    BY <1>2, <2>1, <2>2 DEF LastStoredWins
<1>5. ASSUME NEW j \in Keys, {i \in DOMAIN applied' : applied'[i].key = j} # {}
      PROVE  \E i \in {q \in DOMAIN applied' : applied'[q].key = j} :
               /\ \A q \in {r \in DOMAIN applied' : applied'[r].key = j} : q <= i
               /\ values'[j] = [type |-> applied'[i].type, by |-> applied'[i].by]
               /\ Get(j, applied[i].type)' = applied'[i].by
  <2>1. CASE j = k
    <3>1. PICK m \in DOMAIN applied' : m = n + 1
      BY <1>3
    <3>2. applied'[m].key = j /\ applied'[m].type = type /\ applied'[m].by = by
      BY <1>3, <2>1, <3>1
    <3>3. values'[j] = new
      BY <1>2, <2>1
    <3>4. values'[j] = [type |-> applied'[m].type, by |-> applied'[m].by]
      BY <3>2, <3>3 DEF new
    <3>5. Get(j, applied[m].type)' = applied'[m].by
      <4>1. values'[j] # None /\ values'[j].type = type /\ values'[j].by = by
        BY <1>1, <3>3
      <4> QED
        BY <3>2, <4>1 DEF Get
    <3>6. \A q \in DOMAIN applied' : q <= m
      BY <1>3, <3>1
    <3> QED
      BY <3>1, <3>2, <3>4, <3>5, <3>6
  <2>2. CASE j # k
    <3>1. {q \in DOMAIN applied' : applied'[q].key = j} = {q \in DOMAIN applied : applied[q].key = j}
      BY <1>3, <2>2
    <3>2. PICK i \in {q \in DOMAIN applied : applied[q].key = j} :
            /\ \A q \in {r \in DOMAIN applied : applied[r].key = j} : q <= i
            /\ values[j] = [type |-> applied[i].type, by |-> applied[i].by]
            /\ Get(j, applied[i].type) = applied[i].by
      BY <1>5, <3>1 DEF LastStoredWins
    <3>3. applied'[i] = applied[i] /\ values'[j] = values[j]
      BY <1>2, <1>3, <2>2, <3>2
    <3>4. Get(j, applied[i].type)' = Get(j, applied[i].type)
      BY <3>3 DEF Get
    <3> QED
      BY <3>1, <3>2, <3>3, <3>4
  <2> QED
    BY <2>1, <2>2
<1>6. LastStoredWins'
  BY <1>4, <1>5 DEF LastStoredWins
<1> QED
  BY <1>2, <1>3, <1>6

LEMMA StatementKeeps ==
  ASSUME TypeOK, Placed, LastStoredWins, Statement
  PROVE  TypeOK' /\ Placed' /\ LastStoredWins'
<1>1. /\ string' = None
      /\ values' \in [Keys -> Values \cup {None}]
      /\ applied' \in Seq([key : Keys, type : Types, by : Tags \cup {Program}])
      /\ LastStoredWins'
  <2>1. CASE UNCHANGED <<values, applied>>
    <3>1. /\ values \in [Keys -> Values \cup {None}]
          /\ applied \in Seq([key : Keys, type : Types, by : Tags \cup {Program}])
      BY DEF TypeOK
    <3>2. LastStoredWins'
      BY <2>1 DEF LastStoredWins, Get
    <3> QED
      BY <2>1, <3>1, <3>2, AssignmentNoted
  <2>2. CASE \E k \in Keys, type \in Types, by \in Tags :
               /\ values' = Stored(k, type, by)
               /\ applied' = Append(applied, [key |-> k, type |-> type, by |-> by])
    BY <2>2, AssignmentNoted, AssignmentCounts
  <2> QED
    BY <2>1, <2>2, AssignmentNoted
<1>2. CommentAt \in Nat
  BY StatementPlaces DEF Statement
<1>3. UNCHANGED <<disk, env, loaded, sites, frames, text, defaults, trying>> /\ phase = "parse"
  BY DEF Statement
<1>4. \/ next' = CommentAt + 2 /\ UNCHANGED <<phase, answer>>
      \/ phase' = "idle" /\ answer' = "false" /\ UNCHANGED next
  BY DEF Statement
<1>5. TypeOK'
  BY <1>1, <1>2, <1>3, <1>4 DEF TypeOK
<1>6. \A o : Content(o)' = Content(o) /\ (Exists(loaded[o])' <=> Exists(loaded[o]))
  BY <1>3 DEF Content, Exists
<1>7. Placed'
  BY <1>1, <1>2, <1>3, <1>4, <1>6 DEF Placed
<1> QED
  BY <1>1, <1>5, <1>7

LEMMA ReturningKeeps ==
  ASSUME TypeOK, Placed, ParseEnds \/ LoadDefaults \/ DefaultsReturn
  PROVE  TypeOK' /\ Placed'
<1>1. UNCHANGED <<disk, env, values, loaded, sites, frames, string, applied>>
  BY DEF ParseEnds, LoadDefaults, DefaultsReturn
<1>2. \A o : Content(o)' = Content(o) /\ (Exists(loaded[o])' <=> Exists(loaded[o]))
  BY <1>1 DEF Content, Exists
<1>3. CASE ParseEnds
  BY <1>1, <1>2, <1>3 DEF ParseEnds, TypeOK, Placed
<1>4. CASE LoadDefaults
  <2>1. defaults' \in Seq(Paths) /\ text' \in Seq(Tags)
    BY <1>4, PathsTyped DEF LoadDefaults
  <2> QED
    BY <1>1, <1>2, <1>4, <2>1 DEF LoadDefaults, TypeOK, Placed
<1>5. CASE DefaultsReturn
  <2>1. defaults' \in Seq(Paths) /\ text' \in Seq(Tags) /\ UNCHANGED <<disk, env>>
    BY <1>5 DEF DefaultsReturn
  <2> QED
    <3>1. phase = "idle" /\ next' = 0 /\ trying' = FALSE /\ answer' \in {"true", "false"} /\ text' = <<>>
      BY <1>5 DEF DefaultsReturn
    <3>2. phase' = "idle"
      BY <1>5, <3>1 DEF DefaultsReturn
    <3>3. TypeOK'
      BY <1>1, <2>1, <3>1, <3>2 DEF TypeOK
    <3> QED
      BY <1>1, <1>2, <3>1, <3>2, <3>3 DEF Placed
<1> QED
  BY <1>3, <1>4, <1>5

LEMMA TryDefaultKeeps ==
  ASSUME TypeOK, Placed, TryDefault
  PROVE  TypeOK' /\ Placed' /\ UNCHANGED <<values, applied>>
<1>1. /\ defaults \in Seq(Paths) /\ defaults # <<>> /\ Head(defaults) \in Paths
      /\ defaults' \in Seq(Paths) /\ trying' \in BOOLEAN /\ phase = "idle"
  BY DEF TypeOK, TryDefault
<1>2. CASE Exists(Head(defaults))
  <2>1. Load(Head(defaults))
    BY <1>2 DEF TryDefault
  <2> QED
    BY <1>1, <2>1, LoadKeeps DEF Load
<1>3. CASE ~Exists(Head(defaults))
  <2>1. UNCHANGED <<disk, env, values, loaded, sites, phase, frames, text, next, string, answer, applied, trying>>
    BY <1>3 DEF TryDefault, loading
  <2>2. TypeOK'
    BY <1>1, <2>1 DEF TypeOK
  <2>3. \A o : Content(o)' = Content(o) /\ (Exists(loaded[o])' <=> Exists(loaded[o]))
    BY <2>1 DEF Content, Exists
  <2> QED
    BY <2>1, <2>2, <2>3 DEF Placed
<1> QED
  BY <1>2, <1>3

LEMMA SetKeeps ==
  ASSUME TypeOK, Placed, LastStoredWins, NEW k \in Keys, NEW type \in SetTypes, Set(k, type)
  PROVE  TypeOK' /\ Placed' /\ LastStoredWins'
<1>1. /\ values' \in [Keys -> Values \cup {None}]
      /\ applied' \in Seq([key : Keys, type : Types, by : Tags \cup {Program}])
      /\ LastStoredWins'
  BY ConfigAssumption, AssignmentCounts DEF Set
<1>2. UNCHANGED <<disk, env, loaded, sites, phase, frames, text, next, string, answer, defaults, trying>>
  BY DEF Set
<1>3. \A o : Content(o)' = Content(o) /\ (Exists(loaded[o])' <=> Exists(loaded[o]))
  BY <1>2 DEF Content, Exists
<1> QED
  BY <1>1, <1>2, <1>3 DEF TypeOK, Placed

-----------------------------------------------------------------------------
Safe == TypeOK /\ Placed /\ LastStoredWins

LEMMA SafeInitially == Init => Safe
<1> SUFFICES ASSUME Init PROVE Safe
  OBVIOUS
<1>1. TypeOK
  <2>1. /\ loaded \in Seq(Paths) /\ text \in Seq(Tags) /\ defaults \in Seq(Paths)
        /\ frames \in Seq([open : 1 .. Len(loaded), line : Nat \ {0}])
        /\ applied \in Seq([key : Keys, type : Types, by : Tags \cup {Program}])
    BY DEF Init
  <2>2. values \in [Keys -> Values \cup {None}]
    BY DEF Init
  <2>3. sites \in Seq(Seq(Nat)) /\ Len(sites) = Len(loaded)
    BY DEF Init
  <2> QED
    BY <2>1, <2>2, <2>3 DEF Init, TypeOK
<1>2. Placed
  BY DEF Init, Placed
<1>3. LastStoredWins
  BY DEF Init, LastStoredWins
<1> QED
  BY <1>1, <1>2, <1>3 DEF Safe

LEMMA SafeKept == Safe /\ [Next]_vars => Safe'
<1> SUFFICES ASSUME Safe, [Next]_vars PROVE Safe'
  OBVIOUS
<1> USE DEF Safe
<1>1. CASE UNCHANGED vars
  <2>1. UNCHANGED <<disk, env, values, loaded, sites, phase, frames, text, next, string, answer, applied,
                    defaults, trying>>
    BY <1>1 DEF vars, loading
  <2>2. \A o : Content(o)' = Content(o) /\ (Exists(loaded[o])' <=> Exists(loaded[o]))
    BY <2>1 DEF Content, Exists
  <2>3. TypeOK'
    BY <2>1 DEF TypeOK
  <2>4. Placed'
    BY <2>1, <2>2 DEF Placed
  <2> QED
    BY <2>1, <2>3, <2>4 DEF LastStoredWins, Get
<1>2. CASE CopyLine \/ Return \/ ParseEnds \/ LoadDefaults \/ DefaultsReturn
  <2>1. TypeOK' /\ Placed'
    BY <1>2, CopyLineKeeps, ReturnKeeps, ReturningKeeps
  <2>2. UNCHANGED <<loaded, sites, values, applied>>
    BY <1>2 DEF CopyLine, Return, ParseEnds, LoadDefaults, DefaultsReturn
  <2> QED
    BY <2>1, <2>2 DEF LastStoredWins, Get
<1>3. CASE Include
  BY <1>3, IncludeKeeps DEF Include, LastStoredWins, Get
<1>4. CASE Statement
  BY <1>4, StatementKeeps
<1>5. CASE TryDefault
  BY <1>5, TryDefaultKeeps DEF LastStoredWins, Get
<1>6. CASE \E f \in Files : CallLoad(f)
  <2>1. PICK f \in Files : CallLoad(f)
    BY <1>6
  <2>2. /\ Load(PathOf(f)) /\ PathOf(f) \in Paths /\ phase = "idle"
        /\ defaults' \in Seq(Paths) /\ trying' \in BOOLEAN
    BY <2>1, PathsTyped DEF CallLoad, TypeOK
  <2>3. UNCHANGED <<values, applied>>
    BY <2>2 DEF Load
  <2> QED
    BY <2>2, <2>3, LoadKeeps DEF LastStoredWins, Get
<1>7. CASE \E k \in Keys, type \in SetTypes : Set(k, type)
  BY <1>7, SetKeeps
<1> QED
  BY <1>2, <1>3, <1>4, <1>5, <1>6, <1>7, <1>1 DEF Next

LEMMA ConfigSafe == Spec => []Safe
  BY SafeInitially, SafeKept, PTL DEF Spec

\* Whatever the files hold and however they include one another, every variable
\* has its type: frames and text never point outside the files read.
THEOREM ConfigTyped == Spec => []TypeOK
<1>1. Safe => TypeOK
  BY DEF Safe
<1> QED
  BY <1>1, ConfigSafe, PTL

\* Of the assignments to a key that store something the last is the one a reader
\* finds, also after parses that failed half way (runcom.cpp:58-126, 249-267); an
\* assignment of an empty string is none of them (runcom.cpp:120).
THEOREM LastStoredCounts == Spec => []LastStoredWins
<1>1. Safe => LastStoredWins
  BY DEF Safe
<1> QED
  BY <1>1, ConfigSafe, PTL
-----------------------------------------------------------------------------
\* The default paths carry no detour, so that they open where the file exists.
Direct == {p \in Paths : p.detours = 0}

\* A default file that exists has been read or is still to be tried.
Tried ==
  /\ defaults \in Seq(Direct)
  /\ trying => \A i \in DOMAIN DefaultPaths :
       \/ ~Exists(DefaultPaths[i])
       \/ IsRead(DefaultPaths[i])
       \/ \E j \in DOMAIN defaults : defaults[j] = DefaultPaths[i]

LEMMA DefaultsDirect == DefaultPaths \in Seq(Direct)
<1>1. \A f \in Files : PathOf(f) \in Direct
  BY ConfigAssumption DEF PathOf, Paths, Direct
<1>2. \A f \in Files : <<PathOf(f)>> \in Seq(Direct)
  <2>1. ASSUME NEW p \in Direct PROVE <<p>> \in Seq(Direct)
    OBVIOUS
  <2> QED
    BY <1>1, <2>1
<1>3. <<>> \in Seq(Direct)
  OBVIOUS
<1> QED
  BY <1>2, <1>3, ConfigAssumption, ConcatProperties DEF DefaultPaths

\* What was read stays read, and the files and the variables stay as they are.
LEMMA ReadStays ==
  ASSUME Safe, [Next]_vars
  PROVE  /\ UNCHANGED <<disk, env>>
         /\ \A p : IsRead(p) => IsRead(p)'
<1>1. UNCHANGED <<disk, env>>
  BY DEF Next, vars, loading, CopyLine, Include, Return, Statement, ParseEnds, LoadDefaults, TryDefault,
     DefaultsReturn, CallLoad, Load, Set
<1>2. loaded' = loaded \/ \E p : loaded' = Append(loaded, p)
  BY DEF Next, vars, loading, CopyLine, Include, Return, Statement, ParseEnds, LoadDefaults, TryDefault,
     DefaultsReturn, CallLoad, Load, Set
<1>3. ASSUME NEW p, loaded' = Append(loaded, p)
      PROVE  \A i \in DOMAIN loaded : i \in DOMAIN loaded' /\ loaded'[i] = loaded[i]
  <2>1. loaded \in Seq(Paths \cup {p})
    BY SeqMonotonic DEF Safe, TypeOK
  <2> QED
    BY <1>3, <2>1
<1>4. \A i \in DOMAIN loaded : i \in DOMAIN loaded' /\ loaded'[i] = loaded[i]
  BY <1>2, <1>3
<1> QED
  BY <1>1, <1>4 DEF IsRead

\* A default that is taken from the list does not exist, was read before or is
\* read now.
LEMMA TryDefaultTries ==
  ASSUME Safe, Tried, TryDefault
  PROVE  Tried'
<1>. PICK p : p = Head(defaults)
  OBVIOUS
<1>1. /\ p \in Direct /\ defaults' = Tail(defaults) /\ defaults' \in Seq(Direct)
      /\ \A j \in DOMAIN defaults :
           defaults[j] = p \/ \E k \in DOMAIN defaults' : defaults'[k] = defaults[j]
  <2>1. /\ defaults \in Seq(Direct) /\ defaults # <<>> /\ defaults' = Tail(defaults)
        /\ Len(defaults) \in Nat
    BY DEF TryDefault, Tried
  <2>2. p \in Direct /\ Tail(defaults) \in Seq(Direct)
    BY <2>1
  <2>3. /\ DOMAIN Tail(defaults) = 1 .. Len(defaults) - 1
        /\ \A k \in 1 .. Len(defaults) - 1 : Tail(defaults)[k] = defaults[k + 1]
        /\ p = defaults[1]
    BY <2>1
  <2>4. ASSUME NEW j \in DOMAIN defaults, j # 1
        PROVE  j - 1 \in 1 .. Len(defaults) - 1 /\ (j - 1) + 1 = j
    BY <2>1, <2>4
  <2> QED
    BY <2>1, <2>2, <2>3, <2>4
<1>2. /\ UNCHANGED <<disk, env, trying>>
      /\ \A q : IsRead(q) => IsRead(q)'
  BY ReadStays DEF Next, TryDefault
<1>3. Exists(p) => IsRead(p)'
  <2> SUFFICES ASSUME Exists(p) PROVE IsRead(p)'
    OBVIOUS
  <2>1. Load(p) /\ Opens(p)
    BY <1>1, ConfigAssumption DEF TryDefault, Opens, Direct
  <2>2. CASE IsRead(p)
    BY <1>2, <2>2
  <2>3. CASE ~IsRead(p)
    <3>1. loaded' = Append(loaded, p) /\ loaded \in Seq(Paths)
      BY <2>1, <2>3 DEF Load, CannotRead, Safe, TypeOK
    <3>2. Len(loaded) + 1 \in DOMAIN loaded' /\ loaded'[Len(loaded) + 1] = p
      BY <3>1, <1>1 DEF Direct
    <3> QED
      BY <3>2 DEF IsRead
  <2> QED
    BY <2>2, <2>3
<1>4. DefaultPaths' = DefaultPaths /\ \A q : Exists(q)' <=> Exists(q)
  BY <1>2 DEF DefaultPaths, Exists
<1> QED
  BY <1>1, <1>2, <1>3, <1>4 DEF Tried

LEMMA TriedKept == Safe /\ Tried /\ [Next]_vars => Tried'
<1> SUFFICES ASSUME Safe, Tried, [Next]_vars PROVE Tried'
  OBVIOUS
<1>1. /\ DefaultPaths' = DefaultPaths /\ (\A q : Exists(q)' <=> Exists(q))
      /\ \A q : IsRead(q) => IsRead(q)'
  BY ReadStays DEF DefaultPaths, Exists
<1>2. CASE TryDefault
  BY <1>2, TryDefaultTries
<1>3. CASE UNCHANGED <<defaults, trying>>
  BY <1>1, <1>3 DEF Tried
<1>4. CASE LoadDefaults
  BY <1>1, <1>4, DefaultsDirect DEF LoadDefaults, Tried
<1>5. CASE DefaultsReturn
  BY <1>5 DEF DefaultsReturn, Tried
<1> QED
  BY <1>2, <1>3, <1>4, <1>5
     DEF Next, vars, loading, CopyLine, Include, Return, Statement, ParseEnds, CallLoad, Set

\* load_defaults() says false only after every default file that exists was read,
\* whichever of them failed to parse (runcom.cpp:183-195).
THEOREM ConfigDefaultsTried == Spec => DefaultsTried
<1> DEFINE Giving == trying /\ ~trying' /\ answer' = "false" =>
             \A i \in DOMAIN DefaultPaths : Exists(DefaultPaths[i]) => IsRead(DefaultPaths[i])
<1>1. Init => Tried
  BY DEF Init, Tried
<1>2. Safe /\ Tried /\ [Next]_vars => [Giving]_vars
  <2> SUFFICES ASSUME Safe, Tried, Next, trying, ~trying', answer' = "false"
               PROVE  \A i \in DOMAIN DefaultPaths : Exists(DefaultPaths[i]) => IsRead(DefaultPaths[i])
    OBVIOUS
  <2>1. DefaultsReturn
    BY DEF Next, CopyLine, Include, Return, Statement, ParseEnds, LoadDefaults, TryDefault, CallLoad, Set
  <2>2. defaults = <<>>
    BY <2>1 DEF DefaultsReturn
  <2> QED
    BY <2>2 DEF Tried
<1> QED
  BY <1>1, <1>2, TriedKept, SafeInitially, SafeKept, PTL DEF Spec, DefaultsTried
-----------------------------------------------------------------------------
\* The text holds no #include.
NoIncludes == \A i \in DOMAIN text : Line(text[i]).kind # "include"

\* The lines before n of the text are whole statements that the grammar takes:
\* the last one ends with the comment at n - 2 and the empty line at n - 1.
Parsed(n) ==
  /\ n <= Len(text) + 1
  /\ n = 1 \/ (n > 2 /\ CarriesComment(text[n - 2]))
  /\ \A i \in 1 .. n - 1 :
       /\ CarriesComment(text[i]) => i + 1 < n /\ ~Ink(i + 1)
       /\ Line(text[i]).kind = "assign" =>
            /\ Line(text[i]).shape \notin CutShort
            /\ \/ Line(text[i]).comment
               \/ \E j \in i + 1 .. n - 1 :
                    Line(text[j]).kind = "comment" /\ \A k \in i + 1 .. j - 1 : ~Ink(k)

\* The parser answers for the statements it has read.
Judged ==
  /\ NoIncludes
  /\ phase = "parse" => Parsed(next)
  /\ AcceptsExactly


\* The line the rule ws stops at, from where it is known.
LEMMA PastIs ==
  ASSUME NEW i \in Nat, Len(text) \in Nat, NEW j \in i .. Len(text), Ink(j),
         \A k \in i .. j - 1 : ~Ink(k)
  PROVE  Past(i) = j
<1> DEFINE q == Past(i)
<1>1. /\ q \in i .. Len(text) + 1
      /\ q = Len(text) + 1 \/ Ink(q)
      /\ \A k \in i .. q - 1 : ~Ink(k)
  BY PastIsPlace
<1> HIDE DEF q
<1>2. ~(j < q) /\ ~(q < j)
  BY <1>1
<1> QED
  BY <1>1, <1>2 DEF q

\* What a line of the text can be.
LEMMA KindsOfLines ==
  ASSUME TypeOK, Placed, NoIncludes, NEW i \in DOMAIN text
  PROVE  /\ Line(text[i]).kind \in {"blank", "comment", "assign"}
         /\ Ink(i) <=> Line(text[i]).kind # "blank"
<1>1. Line(text[i]) \in Lines
  BY DiskTyped DEF Line, Placed
<1>2. Line(text[i]).kind \in {"blank", "comment", "include", "assign"}
  BY <1>1 DEF Lines
<1>3. i <= Len(text)
  BY DEF TypeOK
<1> QED
  BY <1>2, <1>3 DEF NoIncludes, Ink

\* Where the statement at next and its comment are, when the text has one there.
LEMMA StatementIs ==
  ASSUME TypeOK, Placed, NoIncludes, phase = "parse", First <= Len(text), next <= Len(text)
  PROVE  /\ next \in Nat \ {0} /\ Len(text) \in Nat /\ DOMAIN text = 1 .. Len(text)
         /\ First \in next .. Len(text) /\ Ink(First)
         /\ \A k \in next .. First - 1 : ~Ink(k)
         /\ Assigns <=> Line(text[First]).kind = "assign"
         /\ ~Assigns => Line(text[First]).kind = "comment" /\ CommentAt = First
         /\ Assigns /\ Subject.comment => CommentAt = First
         /\ Assigns /\ ~Subject.comment =>
              /\ CommentAt = Past(First + 1)
              /\ CommentAt \in First + 1 .. Len(text) + 1
              /\ \A k \in First + 1 .. CommentAt - 1 : ~Ink(k)
<1>1. next \in Nat \ {0} /\ Len(text) \in Nat /\ DOMAIN text = 1 .. Len(text)
  BY DEF TypeOK, Placed
<1>2. /\ First \in next .. Len(text) /\ Ink(First)
      /\ \A k \in next .. First - 1 : ~Ink(k)
  BY <1>1, PastIsPlace DEF First
<1>3. Assigns <=> Line(text[First]).kind = "assign"
  BY DEF Assigns, Subject
<1>4. ~Assigns => Line(text[First]).kind = "comment" /\ CommentAt = First
  BY <1>1, <1>2, <1>3, KindsOfLines DEF CommentAt
<1>5. ASSUME Assigns, ~Subject.comment
      PROVE  /\ CommentAt = Past(First + 1)
             /\ CommentAt \in First + 1 .. Len(text) + 1
             /\ \A k \in First + 1 .. CommentAt - 1 : ~Ink(k)
  <2>1. CommentAt = Past(First + 1)
    BY <1>5 DEF CommentAt
  <2>2. First + 1 \in Nat /\ First + 1 <= Len(text) + 1
    BY <1>1, <1>2
  <2> QED
    BY <1>1, <2>1, <2>2, PastIsPlace
<1>6. Assigns /\ Subject.comment => CommentAt = First
  BY DEF CommentAt
<1> QED
  BY <1>1, <1>2, <1>3, <1>4, <1>5, <1>6

\* A statement that is complete moves the parser past it.
LEMMA CompletesParses ==
  ASSUME TypeOK, Placed, NoIncludes, phase = "parse", next <= Len(text), Parsed(next), Completes
  PROVE  Parsed(CommentAt + 2)
<1>1. First <= Len(text)
  <2>1. CommentAt + 1 <= Len(text) /\ CommentAt \in Nat
    BY StatementPlaces DEF Completes
  <2>2. CASE Assigns
    BY <2>2 DEF Assigns
  <2>3. CASE ~Assigns
    BY <2>1, <2>3 DEF CommentAt, TypeOK
  <2> QED
    BY <2>2, <2>3
<1> DEFINE n == CommentAt + 2
           c == CommentAt
           f == First
<1>2. /\ next \in Nat \ {0} /\ Len(text) \in Nat /\ DOMAIN text = 1 .. Len(text)
      /\ f \in next .. Len(text)
      /\ \A k \in next .. f - 1 : ~Ink(k)
      /\ c \in f .. Len(text) - 1
      /\ \A k \in f + 1 .. c - 1 : ~Ink(k)
      /\ ~Ink(c + 1)
  BY <1>1, StatementIs DEF Completes
<1>3. /\ CarriesComment(text[c])
      /\ c # f => Line(text[c]).kind = "comment" /\ ~CarriesComment(text[f])
      /\ c = f => Line(text[f]).kind = "comment" \/ Line(text[f]).comment
      /\ Line(text[f]).kind = "assign" => Line(text[f]).shape \notin CutShort
  BY <1>1, <1>2, StatementIs DEF Completes, Commented, CarriesComment, Subject
<1>4. \A k \in DOMAIN text : ~Ink(k) => ~CarriesComment(text[k]) /\ Line(text[k]).kind # "assign"
  BY KindsOfLines DEF CarriesComment
<1> HIDE DEF f, c
<1>5. ASSUME NEW i \in 1 .. n - 1
      PROVE  /\ CarriesComment(text[i]) => i + 1 < n /\ ~Ink(i + 1)
             /\ Line(text[i]).kind = "assign" =>
                  /\ Line(text[i]).shape \notin CutShort
                  /\ \/ Line(text[i]).comment
                     \/ \E j \in i + 1 .. n - 1 :
                          Line(text[j]).kind = "comment" /\ \A k \in i + 1 .. j - 1 : ~Ink(k)
  <2>0. n = c + 2 /\ i \in DOMAIN text
    BY <1>2 DEF c
  <2>1. CASE i < next
    <3>1. i \in 1 .. next - 1 /\ next < n
      BY <1>2, <2>0, <2>1
    <3>2. /\ CarriesComment(text[i]) => i + 1 < next /\ ~Ink(i + 1)
          /\ Line(text[i]).kind = "assign" =>
               /\ Line(text[i]).shape \notin CutShort
               /\ \/ Line(text[i]).comment
                  \/ \E j \in i + 1 .. next - 1 :
                       Line(text[j]).kind = "comment" /\ \A k \in i + 1 .. j - 1 : ~Ink(k)
      BY <3>1 DEF Parsed
    <3>3. i + 1 .. next - 1 \subseteq i + 1 .. n - 1
      BY <1>2, <2>0, <3>1
    <3> QED
      BY <1>2, <2>0, <3>1, <3>2, <3>3
  <2>2. CASE i = f
    <3>1. CASE c = f
      BY <1>2, <1>3, <2>0, <2>2, <3>1
    <3>2. CASE c # f
      <4>1. c \in i + 1 .. n - 1 /\ \A k \in i + 1 .. c - 1 : ~Ink(k)
        BY <1>2, <2>0, <2>2, <3>2
      <4> QED
        BY <1>3, <2>2, <3>2, <4>1
    <3> QED
      BY <3>1, <3>2
  <2>3. CASE i = c /\ c # f
    BY <1>2, <1>3, <2>0, <2>3
  <2>4. CASE ~(i < next) /\ i # f /\ i # c
    <3>1. ~Ink(i)
      <4>1. i \in next .. f - 1 \/ i \in f + 1 .. c - 1 \/ i = c + 1
        BY <1>2, <2>0, <2>4
      <4> QED
        BY <1>2, <4>1
    <3> QED
      BY <1>4, <2>0, <3>1
  <2> QED
    BY <2>1, <2>2, <2>3, <2>4
<1>6. n <= Len(text) + 1 /\ n > 2 /\ text[n - 2] = text[c]
  <2>1. c \in Nat /\ n - 2 = c /\ c > 0
    BY <1>2 DEF c
  <2> QED
    BY <1>2, <2>1 DEF c
<1> QED
  BY <1>3, <1>5, <1>6 DEF Parsed

\* In a text that the grammar accepts, the statement the parser stands at is complete.
LEMMA AcceptedCompletes ==
  ASSUME TypeOK, Placed, NoIncludes, phase = "parse", next <= Len(text), Parsed(next), Accepted
  PROVE  Completes
<1> DEFINE n == Len(text)
<1>1. next \in Nat \ {0} /\ n \in Nat /\ DOMAIN text = 1 .. n
  BY DEF TypeOK, Placed
<1>2. n >= 2 /\ CarriesComment(text[n - 1])
  BY <1>1 DEF Accepted
<1>3. \A i \in DOMAIN text :
        /\ CarriesComment(text[i]) => i < n /\ ~Ink(i + 1)
        /\ Line(text[i]).kind = "assign" =>
             /\ Line(text[i]).shape \notin CutShort
             /\ \/ Line(text[i]).comment
                \/ \E j \in i + 1 .. n :
                     Line(text[j]).kind = "comment" /\ \A k \in i + 1 .. j - 1 : ~Ink(k)
  BY <1>1 DEF Accepted
<1>4. n - 1 >= next /\ n - 1 \in DOMAIN text /\ Ink(n - 1)
  <2>1. n - 1 \in DOMAIN text
    BY <1>1, <1>2
  <2>2. Ink(n - 1)
    BY <1>1, <1>2, <2>1 DEF Ink, CarriesComment
  <2>3. ~(n - 1 < next)
    BY <1>1, <1>2 DEF Parsed
  <2> QED
    BY <1>1, <2>1, <2>2, <2>3
<1>5. First <= n
  <2>1. /\ First \in next .. n + 1
        /\ \A k \in next .. First - 1 : ~Ink(k)
    BY <1>1, PastIsPlace DEF First
  <2> QED
    BY <1>1, <1>4, <2>1
<1>6. /\ First \in DOMAIN text
      /\ Assigns <=> Line(text[First]).kind = "assign"
      /\ ~Assigns => Line(text[First]).kind = "comment" /\ CommentAt = First
      /\ Assigns /\ Subject.comment => CommentAt = First
      /\ Assigns /\ ~Subject.comment => CommentAt = Past(First + 1)
  BY <1>1, <1>5, StatementIs
<1>7. CommentAt \in DOMAIN text /\ CarriesComment(text[CommentAt]) /\ Commented
  <2>1. CASE ~Assigns \/ Subject.comment
    BY <1>1, <1>6, <2>1 DEF CarriesComment, Commented, Subject
  <2>2. CASE Assigns /\ ~Subject.comment
    <3>1. PICK j \in First + 1 .. n :
            Line(text[j]).kind = "comment" /\ \A k \in First + 1 .. j - 1 : ~Ink(k)
      BY <1>3, <1>6, <2>2 DEF Subject
    <3>2. Ink(j) /\ j \in DOMAIN text
      BY <1>1, <1>6, <3>1 DEF Ink
    <3>3. First + 1 \in Nat
      BY <1>1, <1>6
    <3>4. CommentAt = j
      BY <1>1, <1>6, <2>2, <3>1, <3>2, <3>3, PastIs
    <3> QED
      BY <1>1, <3>1, <3>2, <3>4 DEF CarriesComment, Commented
  <2> QED
    BY <2>1, <2>2
<1>8. CommentAt + 1 <= n /\ ~Ink(CommentAt + 1)
  BY <1>1, <1>3, <1>7
<1>9. Assigns => Subject.shape \notin CutShort
  BY <1>3, <1>6 DEF Subject
<1> QED
  BY <1>7, <1>8, <1>9 DEF Completes

\* A text read to its end is accepted.
LEMMA ParsedIsAccepted ==
  ASSUME TypeOK, next \in Nat, next > Len(text), Parsed(next)
  PROVE  Accepted
<1>1. next = Len(text) + 1 /\ Len(text) \in Nat /\ DOMAIN text = 1 .. Len(text)
  BY DEF Parsed, TypeOK
<1>2. CASE Len(text) = 0
  BY <1>2 DEF Accepted, TypeOK
<1>3. CASE Len(text) # 0
  <2>1. Len(text) >= 2 /\ CarriesComment(text[Len(text) - 1])
    <3>1. next > 2 /\ CarriesComment(text[next - 2])
      BY <1>1, <1>3 DEF Parsed
    <3>2. next - 2 = Len(text) - 1
      BY <1>1
    <3> QED
      BY <1>1, <3>1, <3>2
  <2>2. \A i \in DOMAIN text :
          /\ CarriesComment(text[i]) => i < Len(text) /\ ~Ink(i + 1)
          /\ Line(text[i]).kind = "assign" =>
               /\ Line(text[i]).shape \notin CutShort
               /\ \/ Line(text[i]).comment
                  \/ \E j \in i + 1 .. Len(text) :
                       Line(text[j]).kind = "comment" /\ \A k \in i + 1 .. j - 1 : ~Ink(k)
    <3>1. next - 1 = Len(text) /\ \A i \in DOMAIN text : i + 1 < next => i < Len(text)
      BY <1>1
    <3> QED
      BY <1>1, <3>1 DEF Parsed
  <2> QED
    BY <2>1, <2>2 DEF Accepted
<1> QED
  BY <1>2, <1>3

\* Judged speaks of the files and of the text only.
LEMMA TextStays ==
  ASSUME UNCHANGED <<disk, loaded, sites, text>>
  PROVE  /\ NoIncludes' <=> NoIncludes
         /\ Accepted' <=> Accepted
         /\ \A n : Parsed(n)' <=> Parsed(n)
BY DEF NoIncludes, Accepted, Parsed, CarriesComment, Ink, Line, Content

LEMMA JudgedKept == Safe /\ Judged /\ [Next]_vars => Judged'
<1> SUFFICES ASSUME Safe, Judged, [Next]_vars PROVE Judged'
  OBVIOUS
<1> USE DEF Safe
<1>1. CASE UNCHANGED <<disk, loaded, sites, text, phase, next, answer>>
  BY <1>1, TextStays DEF Judged, AcceptsExactly
<1>2. CASE text' = <<>> /\ next' = 0 /\ phase' # "parse"
  BY <1>2 DEF Judged, NoIncludes, AcceptsExactly
<1>3. CASE CopyLine
  <2>1. /\ Inner \in Tags /\ text' = Append(text, Inner) /\ UNCHANGED <<disk, loaded, sites, phase>>
        /\ Line(Inner).kind # "include" /\ phase = "preprocess" /\ text \in Seq(Tags)
    BY <1>3, CurrentIsLine DEF CopyLine, Current, Line, TypeOK
  <2>2. \A i \in DOMAIN text' : text'[i] = Inner \/ (i \in DOMAIN text /\ text'[i] = text[i])
    BY <2>1
  <2>3. \A t : Line(t)' = disk[loaded[t.open].file][t.line] /\ Line(t) = disk[loaded[t.open].file][t.line]
    BY <2>1 DEF Line, Content
  <2>4. NoIncludes'
    BY <2>1, <2>2, <2>3 DEF Judged, NoIncludes, Line, Content
  <2> QED
    BY <2>1, <2>4 DEF Judged, AcceptsExactly
<1>4. CASE Include
  <2>1. UNCHANGED <<disk, text, phase>> /\ phase = "preprocess"
    BY <1>4 DEF Include
  <2>2. \A o \in DOMAIN loaded : Content(o)' = Content(o)
    BY <1>4, IncludeContents
  <2>3. \A i \in DOMAIN text : Line(text[i])' = Line(text[i])
    BY <2>1, <2>2 DEF Line, Placed
  <2> QED
    BY <2>1, <2>3 DEF Judged, NoIncludes, AcceptsExactly
<1>5. CASE Return
  <2>1. UNCHANGED <<disk, loaded, sites, text>>
    BY <1>5 DEF Return
  <2>2. (phase' = "parse" /\ next' = 1) \/ phase' = "preprocess"
    BY <1>5 DEF Return
  <2>3. Parsed(1)'
    BY DEF Parsed, TypeOK
  <2> QED
    BY <2>1, <2>2, <2>3, TextStays DEF Judged, AcceptsExactly
<1>6. CASE Statement
  <2>1. UNCHANGED <<disk, loaded, sites, text>> /\ phase = "parse" /\ next <= Len(text)
    BY <1>6 DEF Statement
  <2>2. CASE Completes
    <3>1. next' = CommentAt + 2 /\ phase' = "parse"
      BY <1>6, <2>1, <2>2 DEF Statement
    <3>2. Parsed(CommentAt + 2)
      BY <2>1, <2>2, CompletesParses DEF Judged
    <3> QED
      BY <2>1, <3>1, <3>2, TextStays DEF Judged, AcceptsExactly
  <2>3. CASE ~Completes
    <3>1. next' = next /\ phase' = "idle" /\ answer' = "false"
      BY <1>6, <2>3 DEF Statement
    <3>2. ~Accepted
      BY <2>1, <2>3, AcceptedCompletes DEF Judged
    <3> QED
      BY <2>1, <3>1, <3>2, TextStays DEF Judged, AcceptsExactly
  <2> QED
    BY <2>2, <2>3
<1>7. CASE ParseEnds
  <2>1. /\ UNCHANGED <<disk, loaded, sites, text>> /\ phase' = "idle" /\ answer' = "true"
        /\ phase = "parse" /\ next > Len(text) /\ next \in Nat
    BY <1>7 DEF ParseEnds, TypeOK
  <2>2. Accepted
    BY <2>1, ParsedIsAccepted DEF Judged
  <2> QED
    BY <2>1, <2>2, TextStays DEF Judged, AcceptsExactly
<1>8. CASE LoadDefaults \/ TryDefault \/ DefaultsReturn \/ \E f \in Files : CallLoad(f)
  <2>1. \/ text' = <<>> /\ next' = 0 /\ phase' # "parse"
        \/ UNCHANGED <<disk, loaded, sites, text, phase, next, answer>>
    BY <1>8 DEF LoadDefaults, TryDefault, DefaultsReturn, CallLoad, Load, loading
  <2> QED
    BY <1>1, <1>2, <2>1
<1>9. CASE \E k \in Keys, type \in SetTypes : Set(k, type)
  BY <1>1, <1>9 DEF Set
<1>10. CASE UNCHANGED vars
  BY <1>1, <1>10 DEF vars, loading
<1> QED
  BY <1>3, <1>4, <1>5, <1>6, <1>7, <1>8, <1>9, <1>10 DEF Next

\* load() says true of exactly the texts that the grammar accepts as a whole,
\* however the statements before and after the one it stops at look
\* (runcom.cpp:15-44, 278-291).
THEOREM ConfigAcceptsExactly == Spec => []AcceptsExactly
<1>1. Init => Judged
  BY DEF Init, Judged, NoIncludes, AcceptsExactly
<1>2. Judged => AcceptsExactly
  BY DEF Judged
<1> QED
  BY <1>1, <1>2, JudgedKept, SafeInitially, SafeKept, PTL DEF Spec

-----------------------------------------------------------------------------
\* A place that begins with another one.
Extends(s, t) == Len(t) <= Len(s) /\ \A m \in 1 .. Len(t) : s[m] = t[m]

\* A call f of preprocess() inside a call g: its file was opened later, at or below
\* the #include that g has just passed.
Inside(f, g) ==
  /\ g.open < f.open
  /\ Extends(sites[f.open], Append(sites[g.open], g.line - 1))
Nested ==
  /\ phase # "preprocess" => frames = <<>>
  /\ phase = "preprocess" => next = 0
  /\ \A d \in DOMAIN frames : frames[d].open \in OpenedNow
  /\ \A d, e \in DOMAIN frames : d < e => Inside(frames[d], frames[e])

\* The lines of a file that the calls on a stack s have passed, and the lines that
\* a text t holds.
Passed(s, o, n) == \A d \in DOMAIN s : s[d].open = o => n < s[d].line
Copied(t, o, n) == \E j \in DOMAIN t : t[j] = [open |-> o, line |-> n]

\* The lines passed are in the text, in the order of their places, all of which lie
\* before the place that each call on the stack has reached.
InPlace ==
  /\ \A i \in DOMAIN text : text[i].open \in OpenedNow
  /\ phase # "idle" \/ next > 0 =>
       \A o \in OpenedNow : \A n \in DOMAIN Content(o) :
         Content(o)[n].kind # "include" /\ Passed(frames, o, n) => Copied(text, o, n)
  /\ \A i, j \in DOMAIN text : i < j => Before(Place(text[i]), Place(text[j]))
  /\ \A i \in DOMAIN text, d \in DOMAIN frames : Before(Place(text[i]), Place(frames[d]))

-----------------------------------------------------------------------------
\* The order of places.
LEMMA AppendIs ==
  ASSUME NEW s \in Seq(Nat), NEW x \in Int
  PROVE  /\ Len(s) \in Nat /\ DOMAIN s = 1 .. Len(s)
         /\ Len(Append(s, x)) = Len(s) + 1 /\ DOMAIN Append(s, x) = 1 .. Len(s) + 1
         /\ Append(s, x)[Len(s) + 1] = x
         /\ \A m \in 1 .. Len(s) : Append(s, x)[m] = s[m]
         /\ \A m \in 1 .. Len(s) : s[m] \in Nat
<1>1. s \in Seq(Int)
  BY SeqMonotonic
<1> QED
  BY <1>1

LEMMA BeforeLater ==
  ASSUME NEW s \in Seq(Nat), NEW n \in Nat, NEW p \in Seq(Nat), Before(p, Append(s, n))
  PROVE  Before(p, Append(s, n + 1))
<1> DEFINE q == Append(s, n)
           r == Append(s, n + 1)
<1>1. PICK k \in DOMAIN p \cap DOMAIN q : p[k] < q[k] /\ \A m \in 1 .. k - 1 : p[m] = q[m]
  BY DEF Before
<1>2. /\ Len(s) \in Nat /\ DOMAIN q = 1 .. Len(s) + 1 /\ DOMAIN r = 1 .. Len(s) + 1
      /\ q[Len(s) + 1] = n /\ r[Len(s) + 1] = n + 1
      /\ \A m \in 1 .. Len(s) : q[m] = r[m]
  BY AppendIs
<1>3. p[k] \in Nat
  BY <1>1
<1> HIDE DEF q, r
<1>4. p[k] < r[k]
  <2>1. CASE k = Len(s) + 1
    BY <1>1, <1>2, <1>3, <2>1
  <2>2. CASE k \in 1 .. Len(s)
    BY <1>1, <1>2, <2>2
  <2> QED
    BY <1>1, <1>2, <2>1, <2>2
<1>5. \A m \in 1 .. k - 1 : p[m] = r[m]
  BY <1>1, <1>2
<1>6. Before(p, r)
  BY <1>1, <1>2, <1>4, <1>5 DEF Before
<1> QED
  BY <1>6 DEF r

LEMMA BeforeInto ==
  ASSUME NEW q \in Seq(Nat), NEW x \in Nat, NEW p, Before(p, q)
  PROVE  Before(p, Append(q, x))
<1> DEFINE r == Append(q, x)
<1>1. PICK k \in DOMAIN p \cap DOMAIN q : p[k] < q[k] /\ \A m \in 1 .. k - 1 : p[m] = q[m]
  BY DEF Before
<1>2. /\ Len(q) \in Nat /\ DOMAIN q = 1 .. Len(q) /\ DOMAIN r = 1 .. Len(q) + 1
      /\ \A m \in 1 .. Len(q) : r[m] = q[m]
  BY AppendIs
<1> HIDE DEF r
<1>3. k \in DOMAIN p \cap DOMAIN r /\ p[k] < r[k] /\ \A m \in 1 .. k - 1 : p[m] = r[m]
  BY <1>1, <1>2
<1>4. Before(p, r)
  BY <1>3 DEF Before
<1> QED
  BY <1>4 DEF r

\* What lies at or below an #include comes before the line after it.
LEMMA BeforeOuter ==
  ASSUME NEW t \in Seq(Nat), NEW s \in Seq(Nat), NEW k \in Nat, Extends(t, Append(s, k - 1))
  PROVE  Before(t, Append(s, k))
<1> DEFINE n == Len(s) + 1
           q == Append(s, k - 1)
           r == Append(s, k)
<1>1. /\ n \in Nat \ {0} /\ Len(q) = n /\ DOMAIN r = 1 .. n
      /\ q[n] = k - 1 /\ r[n] = k
      /\ \A m \in 1 .. n - 1 : q[m] = r[m]
  BY AppendIs
<1>2. Len(t) \in Nat /\ DOMAIN t = 1 .. Len(t)
  OBVIOUS
<1> HIDE DEF q, r, n
<1>3. n <= Len(t) /\ \A m \in 1 .. n : t[m] = q[m]
  BY <1>1 DEF Extends, q
<1>4. n \in DOMAIN t \cap DOMAIN r /\ t[n] < r[n] /\ \A m \in 1 .. n - 1 : t[m] = r[m]
  BY <1>1, <1>2, <1>3
<1>5. Before(t, r)
  BY <1>4 DEF Before
<1> QED
  BY <1>5 DEF r

LEMMA ExtendsInto ==
  ASSUME NEW t \in Seq(Nat), NEW x \in Nat, NEW u, Len(u) \in Nat, Extends(t, u)
  PROVE  Extends(Append(t, x), u)
<1>1. /\ Len(t) \in Nat /\ Len(Append(t, x)) = Len(t) + 1
      /\ \A m \in 1 .. Len(t) : Append(t, x)[m] = t[m]
  BY AppendIs
<1> QED
  BY <1>1 DEF Extends

\* What the steps of preprocess() make of the stack: a line passed, a call more,
\* a call less.
LEMMA PoppedIs ==
  ASSUME NEW S, NEW s \in Seq(S), s # <<>>
  PROVE  /\ Len(s) \in Nat \ {0} /\ DOMAIN s = 1 .. Len(s) /\ Head(s) = s[1]
         /\ Tail(s) \in Seq(S) /\ Len(Tail(s)) = Len(s) - 1
         /\ DOMAIN Tail(s) = 1 .. Len(s) - 1 /\ (Tail(s) = <<>> <=> Len(s) = 1)
         /\ \A d \in 1 .. Len(s) - 1 : d + 1 \in DOMAIN s /\ Tail(s)[d] = s[d + 1]
<1>1. Len(s) \in Nat \ {0} /\ DOMAIN s = 1 .. Len(s) /\ Head(s) = s[1]
  OBVIOUS
<1>2. Tail(s) \in Seq(S) /\ Len(Tail(s)) = Len(s) - 1
  OBVIOUS
<1>3. DOMAIN Tail(s) = 1 .. Len(s) - 1
  BY <1>2
<1>4. Tail(s) = <<>> <=> Len(s) = 1
  <2>1. ASSUME NEW t \in Seq(S), Len(t) = 0 PROVE t = <<>>
    BY <2>1
  <2>2. ASSUME NEW t, t = <<>> PROVE Len(t) = 0
    BY <2>2
  <2>3. Len(Tail(s)) = 0 <=> Len(s) = 1
    BY <1>1, <1>2
  <2>4. Tail(s) = <<>> <=> Len(Tail(s)) = 0
    BY <1>2, <2>1, <2>2
  <2> QED
    BY <2>3, <2>4
<1>5. \A d \in 1 .. Len(s) - 1 : d + 1 \in DOMAIN s /\ Tail(s)[d] = s[d + 1]
  BY <1>1
<1> QED
  BY <1>1, <1>2, <1>3, <1>4, <1>5

LEMMA AdvancedIs ==
  ASSUME TypeOK, Placed, phase = "preprocess", ~AtEnd
  PROVE  /\ Len(frames) \in Nat \ {0} /\ DOMAIN frames = 1 .. Len(frames) /\ frames[1] = Inner
         /\ Advanced \in Seq(FrameTo(Len(loaded))) /\ Len(Advanced) = Len(frames)
         /\ DOMAIN Advanced = DOMAIN frames
         /\ Advanced[1] = [open |-> Inner.open, line |-> Inner.line + 1]
         /\ \A d \in DOMAIN frames : d > 1 => Advanced[d] = frames[d]
<1>1. frames \in Seq(FrameTo(Len(loaded))) /\ frames # <<>> /\ Inner \in FrameTo(Len(loaded))
  BY CurrentIsLine DEF TypeOK, Placed, FrameTo
<1>2. /\ Len(frames) \in Nat \ {0} /\ DOMAIN frames = 1 .. Len(frames) /\ frames[1] = Inner
      /\ Tail(frames) \in Seq(FrameTo(Len(loaded))) /\ Len(Tail(frames)) = Len(frames) - 1
      /\ \A d \in 1 .. Len(frames) - 1 : Tail(frames)[d] = frames[d + 1]
  BY <1>1, PoppedIs DEF Inner
<1>3. [Inner EXCEPT !.line = @ + 1] = [open |-> Inner.open, line |-> Inner.line + 1]
  <2>1. ASSUME NEW n, NEW f \in FrameTo(n)
        PROVE  [f EXCEPT !.line = @ + 1] = [open |-> f.open, line |-> f.line + 1]
    BY <2>1 DEF FrameTo
  <2> QED
    BY <1>1, <2>1
<1>4. [open |-> Inner.open, line |-> Inner.line + 1] \in FrameTo(Len(loaded))
  BY <1>1 DEF FrameTo
<1>5. ASSUME NEW S, NEW e \in S, NEW s \in Seq(S)
      PROVE  /\ <<e>> \o s \in Seq(S) /\ Len(<<e>> \o s) = Len(s) + 1
             /\ (<<e>> \o s)[1] = e
             /\ \A d \in 2 .. Len(s) + 1 : (<<e>> \o s)[d] = s[d - 1]
  OBVIOUS
<1>6. /\ Advanced \in Seq(FrameTo(Len(loaded))) /\ Len(Advanced) = Len(Tail(frames)) + 1
      /\ Advanced[1] = [open |-> Inner.open, line |-> Inner.line + 1]
      /\ \A d \in 2 .. Len(Tail(frames)) + 1 : Advanced[d] = Tail(frames)[d - 1]
  BY <1>2, <1>3, <1>4, <1>5 DEF Advanced
<1>7. \A d \in DOMAIN frames : d > 1 => d \in 2 .. Len(frames) /\ d - 1 \in 1 .. Len(frames) - 1 /\ (d - 1) + 1 = d
  BY <1>2
<1> QED
  BY <1>2, <1>6, <1>7

LEMMA PushedIs ==
  ASSUME NEW S, NEW e \in S, NEW s \in Seq(S)
  PROVE  /\ DOMAIN (<<e>> \o s) = 1 .. Len(s) + 1 /\ Len(s) \in Nat
         /\ (<<e>> \o s)[1] = e
         /\ \A d \in 2 .. Len(s) + 1 : d - 1 \in DOMAIN s /\ (<<e>> \o s)[d] = s[d - 1]
OBVIOUS

\* Every call on the stack is of a file that was opened.
LEMMA FramesPlaced ==
  ASSUME TypeOK
  PROVE  /\ Len(loaded) \in Nat /\ DOMAIN loaded = 1 .. Len(loaded)
         /\ Len(frames) \in Nat /\ DOMAIN frames = 1 .. Len(frames)
         /\ frames # <<>> => 1 \in DOMAIN frames /\ Inner = frames[1]
         /\ \A d \in DOMAIN frames : frames[d].open \in DOMAIN loaded /\ frames[d].line \in Nat \ {0}
         /\ Len(text) \in Nat /\ DOMAIN text = 1 .. Len(text)
         /\ \A i \in DOMAIN text : text[i] \in Tags /\ text[i].line \in Nat
<1>1. frames \in Seq(FrameTo(Len(loaded))) /\ loaded \in Seq(Paths) /\ text \in Seq(Tags)
  BY DEF TypeOK, FrameTo
<1>2. \A d \in DOMAIN frames : frames[d] \in FrameTo(Len(loaded))
  BY <1>1
<1>3. \A i \in DOMAIN text : text[i] \in Tags
  BY <1>1
<1> QED
  BY <1>1, <1>2, <1>3 DEF FrameTo, Tags, Inner

\* Where the calls on the stack stand when the innermost has passed a line.
LEMMA StackAdvanced ==
  ASSUME TypeOK, Placed, Nested, phase = "preprocess", ~AtEnd
  PROVE  /\ Place(Inner) \in Seq(Nat) /\ Inner.open \in OpenedNow
         /\ \A d \in DOMAIN Advanced :
              /\ Advanced[d].open \in OpenedNow
              /\ Extends(Place(Inner), Append(sites[Advanced[d].open], Advanced[d].line - 1))
              /\ Before(Place(Inner), Place(Advanced[d]))
         /\ \A d, e \in DOMAIN Advanced : d < e => Inside(Advanced[d], Advanced[e])
         /\ \A p \in Seq(Nat) : (\A d \in DOMAIN frames : Before(p, Place(frames[d]))) =>
              \A d \in DOMAIN Advanced : Before(p, Place(Advanced[d]))
         /\ \A o : \A n \in Nat : Passed(Advanced, o, n) =>
              Passed(frames, o, n) \/ (o = Inner.open /\ n = Inner.line)
<1> DEFINE o1 == Inner.open
           l == Inner.line
<1>1. /\ DOMAIN Advanced = DOMAIN frames /\ 1 \in DOMAIN frames
      /\ DOMAIN frames = 1 .. Len(frames) /\ Len(frames) \in Nat
      /\ frames[1] = Inner /\ Advanced[1] = [open |-> o1, line |-> l + 1]
      /\ \A d \in DOMAIN frames : d > 1 => Advanced[d] = frames[d]
  BY AdvancedIs DEF Placed
<1>2. /\ o1 \in DOMAIN loaded /\ l \in Nat \ {0}
      /\ \A d \in DOMAIN frames : frames[d].open \in DOMAIN loaded /\ frames[d].line \in Nat \ {0}
      /\ \A o \in DOMAIN loaded : o \in Nat /\ sites[o] \in Seq(Nat)
  <2>1. \A o \in DOMAIN loaded : o \in Nat /\ sites[o] \in Seq(Nat)
    BY DEF TypeOK
  <2> QED
    BY <2>1, CurrentIsLine, FramesPlaced DEF Tags
<1>3. Place(Inner) \in Seq(Nat) /\ Place(Inner) = Append(sites[o1], l)
  BY <1>2, PlaceTyped DEF Place
<1>4. \A d \in DOMAIN frames : d = 1 \/ d > 1
  BY <1>1
<1> HIDE DEF o1, l
<1>5. o1 = Inner.open /\ l = Inner.line /\ Advanced[1].open = o1 /\ Advanced[1].line = l + 1
  BY <1>1 DEF o1, l
<1>6. ASSUME NEW d \in DOMAIN Advanced
      PROVE  /\ Advanced[d].open \in OpenedNow
             /\ Extends(Place(Inner), Append(sites[Advanced[d].open], Advanced[d].line - 1))
             /\ Before(Place(Inner), Place(Advanced[d]))
  <2>1. Advanced[d].open \in OpenedNow /\ Advanced[d].line \in Nat /\ sites[Advanced[d].open] \in Seq(Nat)
    BY <1>1, <1>2, <1>4, <1>5 DEF Nested
  <2>2. Extends(Place(Inner), Append(sites[Advanced[d].open], Advanced[d].line - 1))
    <3>1. CASE d = 1
      <4>1. Append(sites[Advanced[d].open], Advanced[d].line - 1) = Place(Inner)
        <5>1. (l + 1) - 1 = l
          BY <1>2
        <5> QED
          BY <1>3, <1>5, <3>1, <5>1
      <4>2. Len(Place(Inner)) \in Nat
        BY <1>3
      <4> QED
        BY <4>1, <4>2 DEF Extends
    <3>2. CASE d > 1
      <4>1. Extends(sites[o1], Append(sites[Advanced[d].open], Advanced[d].line - 1))
        BY <1>1, <1>5, <3>2 DEF Nested, Inside
      <4>2. Len(Append(sites[Advanced[d].open], Advanced[d].line - 1)) \in Nat
        <5>1. Advanced[d].line - 1 \in Int
          BY <2>1
        <5> QED
          BY <2>1, <5>1, AppendIs
      <4> QED
        BY <1>2, <1>3, <4>1, <4>2, ExtendsInto
    <3> QED
      BY <1>1, <1>4, <3>1, <3>2
  <2> QED
    BY <1>3, <2>1, <2>2, BeforeOuter DEF Place
<1>7. \A d, e \in DOMAIN Advanced : d < e => Inside(Advanced[d], Advanced[e])
  <2> SUFFICES ASSUME NEW d \in DOMAIN Advanced, NEW e \in DOMAIN Advanced, d < e
               PROVE  Inside(Advanced[d], Advanced[e])
    OBVIOUS
  <2>1. Advanced[e] = frames[e] /\ Advanced[d].open = frames[d].open
    BY <1>1, <1>4, <1>5
  <2> QED
    BY <1>1, <2>1 DEF Nested, Inside
<1>8. ASSUME NEW p \in Seq(Nat), \A d \in DOMAIN frames : Before(p, Place(frames[d])),
             NEW d \in DOMAIN Advanced
      PROVE  Before(p, Place(Advanced[d]))
  <2>1. CASE d = 1
    <3>1. Before(p, Append(sites[o1], l))
      BY <1>1, <1>3, <1>8
    <3>2. Before(p, Append(sites[o1], l + 1))
      BY <1>2, <3>1, BeforeLater
    <3> QED
      BY <1>5, <2>1, <3>2 DEF Place
  <2>2. CASE d > 1
    BY <1>1, <1>8, <2>2
  <2> QED
    BY <1>1, <1>4, <2>1, <2>2
<1>9. ASSUME NEW o, NEW n \in Nat, Passed(Advanced, o, n), ~(o = o1 /\ n = l)
      PROVE  Passed(frames, o, n)
  <2> SUFFICES ASSUME NEW d \in DOMAIN frames, frames[d].open = o PROVE n < frames[d].line
    BY DEF Passed
  <2>1. CASE d = 1
    <3>1. o = o1 /\ n < l + 1
      BY <1>1, <1>5, <1>9, <2>1 DEF Passed
    <3>2. n < l
      BY <1>2, <1>9, <3>1
    <3> QED
      BY <1>1, <1>5, <2>1, <3>2
  <2>2. CASE d > 1
    BY <1>1, <1>9, <2>2 DEF Passed
  <2> QED
    BY <1>4, <2>1, <2>2
<1>10. o1 \in OpenedNow
  BY <1>1, <1>5 DEF Nested
<1> QED
  BY <1>3, <1>5, <1>6, <1>7, <1>8, <1>9, <1>10

\* What is opened now was opened, and its lines are numbered.
LEMMA OpenedTyped ==
  ASSUME TypeOK, Placed
  PROVE  /\ OpenedNow \subseteq DOMAIN loaded
         /\ \A o \in DOMAIN loaded : o \in Nat /\ \A n \in DOMAIN Content(o) : n \in Nat \ {0}
         /\ \A i \in DOMAIN text : Place(text[i]) \in Seq(Nat)
<1>1. OpenedNow \subseteq DOMAIN loaded /\ \A o \in DOMAIN loaded : o \in Nat
  BY DEF TypeOK, OpenedNow
<1>2. \A o \in DOMAIN loaded : \A n \in DOMAIN Content(o) : n \in Nat \ {0}
  BY DiskTyped
<1>3. \A i \in DOMAIN text : Place(text[i]) \in Seq(Nat)
  BY FramesPlaced, PlaceTyped DEF Placed
<1> QED
  BY <1>1, <1>2, <1>3

LEMMA CopyLineInPlace ==
  ASSUME TypeOK, Placed, Nested, InPlace, CopyLine
  PROVE  Nested' /\ InPlace'
<1> DEFINE n == Len(text)
<1>1. /\ phase = "preprocess" /\ ~AtEnd
      /\ text' = Append(text, Inner) /\ frames' = Advanced
      /\ UNCHANGED <<disk, loaded, sites, phase, next>>
  BY DEF CopyLine
<1>2. /\ n \in Nat /\ DOMAIN text = 1 .. n /\ DOMAIN text' = 1 .. n + 1
      /\ text'[n + 1] = Inner /\ \A i \in 1 .. n : text'[i] = text[i]
  <2>1. text \in Seq(Tags) /\ Inner \in Tags
    BY <1>1, CurrentIsLine DEF TypeOK
  <2> QED
    BY <1>1, <2>1
<1>3. /\ OpenedNow' = OpenedNow
      /\ \A o : Content(o)' = Content(o)
      /\ \A f, g : Inside(f, g)' <=> Inside(f, g)
  BY <1>1 DEF OpenedNow, Content, Inside
<1>4. Inner = [open |-> Inner.open, line |-> Inner.line] /\ 1 \in DOMAIN frames /\ frames[1] = Inner
  BY <1>1, CurrentIsLine, AdvancedIs DEF Tags
<1> HIDE DEF n
<1>5. Nested'
  <2>1. ASSUME NEW f, NEW g, Inside(f, g) PROVE Inside(f, g)'
    BY <1>3, <2>1
  <2>2. ASSUME NEW d \in DOMAIN frames', NEW e \in DOMAIN frames', d < e
        PROVE  Inside(frames[d], frames[e])'
    <3>1. Inside(Advanced[d], Advanced[e])
      BY <1>1, <2>2, StackAdvanced
    <3> QED
      BY <1>1, <3>1 DEF Inside
  <2>3. \A d \in DOMAIN frames' : frames'[d].open \in OpenedNow'
    BY <1>1, <1>3, StackAdvanced
  <2> QED
    BY <1>1, <2>2, <2>3 DEF Nested
<1>6. \A i \in DOMAIN text' : text'[i].open \in OpenedNow
  BY <1>1, <1>2, StackAdvanced DEF InPlace
<1>7. ASSUME NEW o \in OpenedNow, NEW m \in DOMAIN Content(o), Content(o)[m].kind # "include",
             Passed(frames', o, m)
      PROVE  Copied(text', o, m)
  <2>1. m \in Nat
    BY OpenedTyped
  <2>2. CASE Passed(frames, o, m)
    <3>1. Copied(text, o, m)
      BY <1>1, <1>7, <2>2 DEF InPlace
    <3> QED
      BY <1>2, <3>1 DEF Copied
  <2>3. CASE o = Inner.open /\ m = Inner.line
    BY <1>2, <1>4, <2>3 DEF Copied
  <2> QED
    BY <1>1, <1>7, <2>1, <2>2, <2>3, StackAdvanced
<1>8. ASSUME NEW i \in DOMAIN text', NEW j \in DOMAIN text', i < j
      PROVE  Before(Place(text'[i]), Place(text'[j]))
  <2>1. CASE j = n + 1
    BY <1>2, <1>4, <1>8, <2>1 DEF InPlace
  <2>2. CASE j # n + 1
    BY <1>2, <1>8, <2>2 DEF InPlace
  <2> QED
    BY <2>1, <2>2
<1>9. ASSUME NEW i \in DOMAIN text', NEW d \in DOMAIN frames'
      PROVE  Before(Place(text'[i]), Place(frames'[d]))
  <2>1. CASE i = n + 1
    BY <1>1, <1>2, <2>1, StackAdvanced
  <2>2. CASE i # n + 1
    <3>1. i \in DOMAIN text /\ text'[i] = text[i]
      BY <1>2, <2>2
    <3>2. Place(text[i]) \in Seq(Nat) /\ \A e \in DOMAIN frames : Before(Place(text[i]), Place(frames[e]))
      BY <3>1, OpenedTyped DEF InPlace
    <3> QED
      BY <1>1, <3>1, <3>2, StackAdvanced
  <2> QED
    BY <2>1, <2>2
<1>10. InPlace'
  BY <1>1, <1>3, <1>6, <1>7, <1>8, <1>9 DEF InPlace, Place
<1> QED
  BY <1>5, <1>10

\* An #include that is passed is none of the lines to be copied.
LEMMA PassedOver ==
  ASSUME TypeOK, Placed, Nested, InPlace, phase = "preprocess", ~AtEnd, Current.kind = "include"
  PROVE  /\ \A o \in OpenedNow : \A n \in DOMAIN Content(o) :
              Content(o)[n].kind # "include" /\ Passed(Advanced, o, n) => Copied(text, o, n)
         /\ \A i \in DOMAIN text, d \in DOMAIN Advanced : Before(Place(text[i]), Place(Advanced[d]))
<1>1. ASSUME NEW o \in OpenedNow, NEW n \in DOMAIN Content(o), Content(o)[n].kind # "include",
             Passed(Advanced, o, n)
      PROVE  Copied(text, o, n)
  <2>1. n \in Nat
    BY OpenedTyped
  <2>2. ~(o = Inner.open /\ n = Inner.line)
    BY <1>1 DEF Current
  <2>3. Passed(frames, o, n)
    BY <1>1, <2>1, <2>2, StackAdvanced
  <2> QED
    BY <1>1, <2>3 DEF InPlace
<1>2. ASSUME NEW i \in DOMAIN text, NEW d \in DOMAIN Advanced
      PROVE  Before(Place(text[i]), Place(Advanced[d]))
  <2>1. Place(text[i]) \in Seq(Nat) /\ \A e \in DOMAIN frames : Before(Place(text[i]), Place(frames[e]))
    BY OpenedTyped DEF InPlace
  <2> QED
    BY <2>1, StackAdvanced
<1> QED
  BY <1>1, <1>2

LEMMA IncludeInPlace ==
  ASSUME TypeOK, Placed, Nested, InPlace, Include
  PROVE  Nested' /\ InPlace'
<1> DEFINE p == Target(loaded[Inner.open], Current)
           n == Len(loaded)
           s == Advanced
<1>1. /\ phase = "preprocess" /\ ~AtEnd /\ Current.kind = "include"
      /\ UNCHANGED <<disk, text, phase, next>>
  BY DEF Include
<1>2. /\ s \in Seq(FrameTo(n)) /\ n \in Nat /\ DOMAIN loaded = 1 .. n
      /\ DOMAIN s = 1 .. Len(s) /\ Len(s) \in Nat
      /\ \A d \in DOMAIN s : s[d].open \in DOMAIN loaded /\ s[d].line \in Nat \ {0}
  <2>1. s \in Seq(FrameTo(n))
    BY <1>1, CurrentIsLine
  <2>2. \A d \in DOMAIN s : s[d] \in FrameTo(n)
    BY <2>1
  <2> QED
    BY <2>1, <2>2, FramesPlaced DEF FrameTo
<1>3. \A o \in DOMAIN loaded : Content(o)' = Content(o)
  BY IncludeContents
<1> HIDE DEF s, n
<1>4. CASE Current.file = None \/ CannotRead(p)
  <2>1. frames' = Advanced /\ UNCHANGED <<loaded, sites>>
    BY <1>4 DEF Include
  <2>2. OpenedNow' = OpenedNow
    BY <2>1 DEF OpenedNow
  <2>3. Nested'
    <3>1. ASSUME NEW d \in DOMAIN frames', NEW e \in DOMAIN frames', d < e
          PROVE  Inside(frames[d], frames[e])'
      <4>1. Inside(Advanced[d], Advanced[e])
        BY <1>1, <2>1, <3>1, StackAdvanced
      <4> QED
        BY <2>1, <4>1 DEF Inside
    <3> QED
      BY <1>1, <2>1, <2>2, <3>1, StackAdvanced DEF Nested
  <2>4. /\ \A o \in OpenedNow : \A m \in DOMAIN Content(o) :
             Content(o)[m].kind # "include" /\ Passed(frames', o, m) => Copied(text, o, m)
        /\ \A i \in DOMAIN text, d \in DOMAIN frames' : Before(Place(text[i]), Place(frames'[d]))
    BY <1>1, <2>1, PassedOver
  <2> QED
    BY <1>1, <1>3, <2>1, <2>2, <2>3, <2>4, OpenedTyped DEF InPlace, Place
<1>5. CASE ~(Current.file = None \/ CannotRead(p))
  <2> DEFINE frame == [open |-> n + 1, line |-> 1]
             place == Place(Inner)
  <2>1. /\ loaded' = Append(loaded, p) /\ frames' = <<frame>> \o s
        /\ sites' = Append(sites, place)
    BY <1>5 DEF Include, s, n
  <2>2. p \in Paths
    BY <1>1, <1>5, CurrentIsLine, TargetIsPath, DiskTyped DEF CannotRead
  <2>3. /\ DOMAIN frames' = 1 .. Len(s) + 1 /\ frames'[1] = frame
        /\ \A d \in 2 .. Len(s) + 1 : d - 1 \in DOMAIN s /\ frames'[d] = s[d - 1]
    <3>1. frame \in FrameTo(n + 1) /\ s \in Seq(FrameTo(n + 1))
      <4>1. frame \in FrameTo(n + 1)
        BY <1>2 DEF FrameTo
      <4> QED
        BY <1>2, <4>1, FramesGrow
    <3> QED
      BY <2>1, <3>1, PushedIs
  <2>4. /\ DOMAIN sites = 1 .. n /\ DOMAIN sites' = 1 .. n + 1
        /\ sites'[n + 1] = place /\ place \in Seq(Nat) /\ place # <<>>
        /\ \A o \in 1 .. n : sites'[o] = sites[o]
    <3>1. place \in Seq(Nat)
      BY <1>1, StackAdvanced
    <3>2. place # <<>>
      <4>1. sites[Inner.open] \in Seq(Nat) /\ Inner.line \in Nat
        BY <1>1, CurrentIsLine DEF TypeOK, Tags
      <4> QED
        BY <4>1 DEF Place
    <3> QED
      BY <2>1, <3>1, <3>2, SitesGrow DEF n
  <2>5. OpenedNow' = OpenedNow \cup {n + 1}
    <3>1. \A r \in DOMAIN sites' : sites'[r] = <<>> => r \in DOMAIN sites /\ sites[r] = <<>> /\ r <= n + 1
      BY <1>2, <2>4
    <3>2. n + 1 \in OpenedNow'
      BY <1>2, <2>4, <3>1 DEF OpenedNow
    <3>3. \A o \in 1 .. n : o \in OpenedNow' <=> o \in OpenedNow
      BY <1>2, <2>4, <3>1 DEF OpenedNow
    <3>4. OpenedNow \subseteq 1 .. n /\ OpenedNow' \subseteq 1 .. n + 1
      BY <2>4 DEF OpenedNow
    <3>5. \A o \in 1 .. n + 1 : o \in 1 .. n \/ o = n + 1
      BY <1>2
    <3>6. \A o \in OpenedNow' : o \in OpenedNow \/ o = n + 1
      BY <3>3, <3>4, <3>5
    <3>7. \A o \in OpenedNow : o \in OpenedNow'
      BY <3>3, <3>4
    <3> QED
      BY <3>2, <3>6, <3>7
  <2>6. \A d \in DOMAIN s :
          /\ s[d].open \in OpenedNow /\ s[d].open \in 1 .. n
          /\ Extends(place, Append(sites[s[d].open], s[d].line - 1))
    BY <1>1, <1>2, StackAdvanced DEF s
  <2>7. \A d, e \in DOMAIN s : d < e => Inside(s[d], s[e])
    BY <1>1, StackAdvanced DEF s
  <2>8. \A i \in DOMAIN text : text[i].open \in 1 .. n /\ Place(text[i]) \in Seq(Nat)
    BY <1>2, OpenedTyped DEF Placed
  <2> HIDE DEF place
  <2>9. Nested'
    <3>1. ASSUME NEW d \in DOMAIN frames' PROVE frames'[d].open \in OpenedNow'
      <4>1. d = 1 \/ d \in 2 .. Len(s) + 1
        BY <1>2, <2>3
      <4> QED
        BY <2>3, <2>5, <2>6, <4>1
    <3>2. ASSUME NEW d \in DOMAIN frames', NEW e \in DOMAIN frames', d < e
          PROVE  /\ frames'[e].open < frames'[d].open
                 /\ Extends(sites'[frames'[d].open], Append(sites'[frames'[e].open], frames'[e].line - 1))
      <4>1. e \in 2 .. Len(s) + 1 /\ e - 1 \in DOMAIN s /\ frames'[e] = s[e - 1]
            /\ sites'[frames'[e].open] = sites[s[e - 1].open]
        <5>1. e \in 2 .. Len(s) + 1
          BY <1>2, <2>3, <3>2
        <5> QED
          BY <2>3, <2>4, <2>6, <5>1
      <4>2. CASE d = 1
        <5>1. frames'[d].open = n + 1 /\ sites'[n + 1] = place
          BY <2>3, <2>4, <4>2
        <5>2. s[e - 1].open < n + 1
          BY <1>2, <2>6, <4>1
        <5> QED
          BY <2>6, <4>1, <5>1, <5>2
      <4>3. CASE d # 1
        <5>1. d - 1 \in DOMAIN s /\ frames'[d] = s[d - 1] /\ d - 1 < e - 1
          <6>1. d \in 2 .. Len(s) + 1
            BY <1>2, <2>3, <4>3
          <6> QED
            BY <1>2, <2>3, <3>2, <4>1, <6>1
        <5>2. sites'[frames'[d].open] = sites[s[d - 1].open]
          BY <2>4, <2>6, <5>1
        <5> QED
          BY <2>7, <4>1, <5>1, <5>2 DEF Inside
      <4> QED
        BY <4>2, <4>3
    <3> QED
      BY <1>1, <3>1, <3>2 DEF Nested, Inside
  <2>10. ASSUME NEW o \in OpenedNow', NEW m \in DOMAIN Content(o)', Content(o)'[m].kind # "include",
                Passed(frames', o, m)
         PROVE  Copied(text, o, m)
    <3>1. CASE o = n + 1
      <4>1. m < 1
        BY <1>2, <2>3, <2>10, <3>1 DEF Passed
      <4>2. m \in Nat \ {0}
        <5>1. loaded'[o] = p
          BY <2>1, <2>2, <3>1 DEF n, TypeOK
        <5>2. disk[p.file] \in Seq(Lines) \cup {Missing} /\ disk[p.file] # Missing
          BY <1>5, <2>2, ConfigAssumption DEF Paths, TypeOK, CannotRead, Opens, Exists
        <5> QED
          BY <1>1, <2>10, <5>1, <5>2 DEF Content
      <4> QED
        BY <4>1, <4>2
    <3>2. CASE o # n + 1
      <4>1. o \in OpenedNow /\ o \in DOMAIN loaded
        BY <2>5, <2>10, <3>2, OpenedTyped
      <4>2. Passed(s, o, m)
        <5> SUFFICES ASSUME NEW d \in DOMAIN s, s[d].open = o PROVE m < s[d].line
          BY DEF Passed
        <5>1. d + 1 \in 2 .. Len(s) + 1 /\ (d + 1) - 1 = d
          BY <1>2
        <5>2. d + 1 \in DOMAIN frames' /\ frames'[d + 1] = s[d]
          BY <1>2, <2>3, <5>1
        <5> QED
          BY <2>10, <5>2 DEF Passed
      <4> QED
        BY <1>1, <1>3, <2>10, <4>1, <4>2, PassedOver DEF s
    <3> QED
      BY <3>1, <3>2
  <2>11. ASSUME NEW i \in DOMAIN text, NEW d \in DOMAIN frames'
         PROVE  Before(Append(sites[text[i].open], text[i].line),
                       Append(sites'[frames'[d].open], frames'[d].line))
    <3>1. CASE d = 1
      <4>1. Before(Place(text[i]), place)
        <5>1. 1 \in DOMAIN frames /\ frames[1] = Inner
          BY <1>1, AdvancedIs
        <5> QED
          BY <5>1 DEF InPlace, place
      <4>2. Before(Place(text[i]), Append(place, 1))
        BY <2>4, <4>1, BeforeInto
      <4> QED
        BY <2>3, <2>4, <3>1, <4>2 DEF Place
    <3>2. CASE d # 1
      <4>1. d - 1 \in DOMAIN s /\ frames'[d] = s[d - 1]
        <5>1. d \in 2 .. Len(s) + 1
          BY <1>2, <2>3, <3>2
        <5> QED
          BY <2>3, <5>1
      <4>2. Before(Place(text[i]), Place(s[d - 1]))
        BY <1>1, <4>1, PassedOver DEF s
      <4>3. sites'[frames'[d].open] = sites[s[d - 1].open]
        BY <2>4, <2>6, <4>1
      <4> QED
        BY <4>1, <4>2, <4>3 DEF Place
    <3> QED
      BY <3>1, <3>2
  <2>12. \A i \in DOMAIN text : sites'[text[i].open] = sites[text[i].open]
    BY <2>4, <2>8
  <2>13. InPlace'
    <3>1. \A i \in DOMAIN text : text[i].open \in OpenedNow'
      BY <2>5 DEF InPlace
    <3>2. \A i, j \in DOMAIN text : i < j =>
            Before(Append(sites'[text[i].open], text[i].line), Append(sites'[text[j].open], text[j].line))
      BY <2>12 DEF InPlace, Place
    <3>3. \A i \in DOMAIN text, d \in DOMAIN frames' :
            Before(Append(sites'[text[i].open], text[i].line),
                   Append(sites'[frames'[d].open], frames'[d].line))
      BY <2>11, <2>12
    <3> QED
      BY <1>1, <2>10, <3>1, <3>2, <3>3 DEF InPlace, Place
  <2> QED
    BY <2>9, <2>13
<1> QED
  BY <1>4, <1>5

LEMMA ReturnInPlace ==
  ASSUME TypeOK, Placed, Nested, InPlace, Return
  PROVE  Nested' /\ InPlace'
<1>1. /\ phase = "preprocess" /\ AtEnd /\ frames' = Tail(frames) /\ frames # <<>>
      /\ UNCHANGED <<disk, loaded, sites, text>>
      /\ IF Tail(frames) = <<>> THEN phase' = "parse" ELSE UNCHANGED <<phase, next>>
  BY DEF Return, Placed
<1>2. /\ Len(frames) \in Nat \ {0} /\ DOMAIN frames = 1 .. Len(frames) /\ frames[1] = Inner
      /\ DOMAIN frames' = 1 .. Len(frames) - 1
      /\ \A d \in DOMAIN frames' : d + 1 \in DOMAIN frames /\ frames'[d] = frames[d + 1]
      /\ \A d \in DOMAIN frames : d # 1 => d - 1 \in DOMAIN frames' /\ frames'[d - 1] = frames[d]
  <2>1. frames \in Seq(FrameTo(Len(loaded)))
    BY DEF TypeOK, FrameTo
  <2>2. /\ Len(frames) \in Nat \ {0} /\ DOMAIN frames = 1 .. Len(frames) /\ frames[1] = Inner
        /\ DOMAIN frames' = 1 .. Len(frames) - 1
        /\ \A d \in DOMAIN frames' : d + 1 \in DOMAIN frames /\ frames'[d] = frames[d + 1]
    BY <1>1, <2>1, PoppedIs DEF Inner
  <2>3. ASSUME NEW d \in DOMAIN frames, d # 1
        PROVE  d - 1 \in DOMAIN frames' /\ (d - 1) + 1 = d
    BY <2>2, <2>3
  <2> QED
    BY <2>2, <2>3
<1>3. OpenedNow' = OpenedNow /\ \A o : Content(o)' = Content(o)
  BY <1>1 DEF OpenedNow, Content
<1>4. Nested'
  <2>1. \A d \in DOMAIN frames' : frames'[d].open \in OpenedNow
    BY <1>2 DEF Nested
  <2>2. ASSUME NEW d \in DOMAIN frames', NEW e \in DOMAIN frames', d < e
        PROVE  Inside(frames[d], frames[e])'
    <3>1. /\ d + 1 \in DOMAIN frames /\ e + 1 \in DOMAIN frames /\ d + 1 < e + 1
          /\ frames'[d] = frames[d + 1] /\ frames'[e] = frames[e + 1]
      BY <1>2, <2>2
    <3>2. Inside(frames[d + 1], frames[e + 1])
      BY <3>1 DEF Nested
    <3> QED
      BY <1>1, <3>1, <3>2 DEF Inside
  <2> QED
    BY <1>1, <1>3, <2>1, <2>2 DEF Nested
<1>5. ASSUME NEW o \in OpenedNow, NEW m \in DOMAIN Content(o), Content(o)[m].kind # "include",
             Passed(frames', o, m)
      PROVE  Copied(text, o, m)
  <2>1. o \in DOMAIN loaded
    BY OpenedTyped
  <2>2. ASSUME NEW d \in DOMAIN frames, frames[d].open = o
        PROVE  m < frames[d].line
    <3>1. CASE d = 1
      <4>1. Len(Content(o)) < frames[d].line /\ frames[d].line \in Nat
        <5>1. Inner.line > Len(Content(Inner.open)) /\ Inner.line \in Nat
          BY <1>1, <1>2, FramesPlaced DEF AtEnd
        <5> QED
          BY <1>2, <2>1, <2>2, <3>1, <5>1, DiskTyped
      <4>2. m \in 1 .. Len(Content(o)) /\ Len(Content(o)) \in Nat
        <5>1. Content(o) \in Seq(Lines) /\ DOMAIN Content(o) = 1 .. Len(Content(o))
          BY <2>1, DiskTyped
        <5> QED
          BY <1>5, <5>1
      <4> QED
        BY <4>1, <4>2
    <3>2. CASE d # 1
      BY <1>2, <1>5, <2>2, <3>2 DEF Passed
    <3> QED
      BY <3>1, <3>2
  <2> QED
    BY <1>1, <1>5, <2>2 DEF InPlace, Passed
<1>6. \A i \in DOMAIN text, d \in DOMAIN frames' : Before(Place(text[i]), Place(frames'[d]))
  BY <1>2 DEF InPlace
<1> QED
  BY <1>1, <1>3, <1>4, <1>5, <1>6 DEF InPlace, Place

\* A text is forgotten.
LEMMA ForgottenInPlace ==
  ASSUME Nested, text' = <<>>, next' = 0, UNCHANGED <<disk, loaded, sites, frames, phase>>, phase = "idle"
  PROVE  Nested' /\ InPlace'
<1>1. OpenedNow' = OpenedNow /\ \A q : Content(q)' = Content(q)
  BY DEF OpenedNow, Content
<1>2. frames = <<>>
  BY DEF Nested
<1>3. Nested'
  BY <1>1 DEF Nested, Inside
<1>4. DOMAIN text' = {}
  OBVIOUS
<1> QED
  BY <1>3, <1>4 DEF InPlace

LEMMA LoadInPlace ==
  ASSUME TypeOK, Placed, Nested, InPlace, phase = "idle", NEW q \in Paths, Load(q)
  PROVE  Nested' /\ InPlace'
<1>1. CASE CannotRead(q)
  <2>1. text' = <<>> /\ next' = 0 /\ UNCHANGED <<disk, loaded, sites, frames, phase>>
    BY <1>1 DEF Load
  <2> QED
    BY <2>1, ForgottenInPlace
<1>2. CASE ~CannotRead(q)
  <2> DEFINE n == Len(loaded)
             frame == [open |-> n + 1, line |-> 1]
  <2>1. /\ text' = <<>> /\ next' = 0 /\ frames' = <<frame>> /\ phase' = "preprocess"
        /\ loaded' = Append(loaded, q) /\ sites' = Append(sites, <<>>) /\ UNCHANGED disk
    BY <1>2 DEF Load
  <2>2. DOMAIN frames' = {1} /\ frames'[1] = frame /\ DOMAIN text' = {}
    BY <2>1
  <2>3. OpenedNow' = {n + 1} /\ n \in Nat
    <3>1. <<>> \in Seq(Nat)
      OBVIOUS
    <3>2. n \in Nat /\ DOMAIN sites' = 1 .. n + 1 /\ sites'[n + 1] = <<>>
      BY <2>1, <3>1, SitesGrow
    <3> QED
      BY <3>2 DEF OpenedNow
  <2>4. Nested'
    BY <2>1, <2>2, <2>3 DEF Nested
  <2>5. ASSUME NEW o \in OpenedNow', NEW m \in DOMAIN Content(o)' PROVE ~Passed(frames', o, m)
    <3>1. o = n + 1 /\ loaded'[o] = q
      BY <2>1, <2>3 DEF TypeOK
    <3>2. disk[q.file] \in Seq(Lines)
      <4>1. disk[q.file] \in Seq(Lines) \cup {Missing} /\ disk[q.file] # Missing
        BY <1>2, ConfigAssumption DEF Paths, TypeOK, CannotRead, Opens, Exists
      <4> QED
        BY <4>1
    <3>3. m \in DOMAIN disk[q.file]
      BY <2>1, <2>5, <3>1 DEF Content
    <3>4. m \in Nat \ {0}
      BY <3>2, <3>3
    <3> QED
      BY <2>2, <3>1, <3>4 DEF Passed
  <2> HIDE DEF n
  <2>6. InPlace'
    <3>1. \A o \in OpenedNow' : \A m \in DOMAIN Content(o)' : ~Passed(frames', o, m)
      BY <2>5
    <3>2. \A i \in DOMAIN text' : FALSE
      BY <2>2
    <3> QED
      BY <3>1, <3>2 DEF InPlace
  <2> QED
    BY <2>4, <2>6
<1> QED
  BY <1>1, <1>2

LEMMA InPlaceKept == Safe /\ Nested /\ InPlace /\ [Next]_vars => Nested' /\ InPlace'
<1> SUFFICES ASSUME Safe, Nested, InPlace, [Next]_vars PROVE Nested' /\ InPlace'
  OBVIOUS
<1> USE DEF Safe
<1>1. ASSUME UNCHANGED <<disk, loaded, sites, frames, text>>,
             UNCHANGED <<phase, next>> \/ (phase = "parse" /\ phase' # "preprocess")
      PROVE  Nested' /\ InPlace'
  <2>1. OpenedNow' = OpenedNow /\ \A q : Content(q)' = Content(q)
    BY <1>1 DEF OpenedNow, Content
  <2>2. Nested'
    BY <1>1, <2>1 DEF Nested, Inside
  <2>3. InPlace'
    BY <1>1, <2>1 DEF InPlace, Place
  <2> QED
    BY <2>2, <2>3
<1>2. CASE CopyLine \/ Include \/ Return
  BY <1>2, CopyLineInPlace, IncludeInPlace, ReturnInPlace
<1>3. CASE Statement \/ ParseEnds
  <2>1. UNCHANGED <<disk, loaded, sites, frames, text>> /\ phase = "parse" /\ phase' # "preprocess"
    BY <1>3 DEF Statement, ParseEnds
  <2> QED
    BY <1>1, <2>1
<1>4. CASE LoadDefaults \/ DefaultsReturn
  <2>1. text' = <<>> /\ next' = 0 /\ UNCHANGED <<disk, loaded, sites, frames, phase>> /\ phase = "idle"
    BY <1>4 DEF LoadDefaults, DefaultsReturn
  <2> QED
    BY <2>1, ForgottenInPlace
<1>5. CASE TryDefault
  <2>1. CASE Exists(Head(defaults))
    <3>1. Head(defaults) \in Paths /\ Load(Head(defaults)) /\ phase = "idle"
      BY <1>5, <2>1 DEF TryDefault, TypeOK
    <3> QED
      BY <3>1, LoadInPlace
  <2>2. CASE ~Exists(Head(defaults))
    <3>1. UNCHANGED <<disk, loaded, sites, frames, text, phase, next>>
      BY <1>5, <2>2 DEF TryDefault, loading
    <3> QED
      BY <1>1, <3>1
  <2> QED
    BY <2>1, <2>2
<1>6. CASE \E f \in Files : CallLoad(f)
  <2>1. PICK f \in Files : CallLoad(f)
    BY <1>6
  <2>2. PathOf(f) \in Paths /\ Load(PathOf(f)) /\ phase = "idle"
    BY <2>1, PathsTyped DEF CallLoad
  <2> QED
    BY <2>2, LoadInPlace
<1>7. CASE \E k \in Keys, type \in SetTypes : Set(k, type)
  <2>1. UNCHANGED <<disk, loaded, sites, frames, text, phase, next>>
    BY <1>7 DEF Set
  <2> QED
    BY <1>1, <2>1
<1>8. CASE UNCHANGED vars
  <2>1. UNCHANGED <<disk, loaded, sites, frames, text, phase, next>>
    BY <1>8 DEF vars, loading
  <2> QED
    BY <1>1, <2>1
<1> QED
  BY <1>2, <1>3, <1>4, <1>5, <1>6, <1>7, <1>8 DEF Next

\* When the parser gets the text, it holds every line but the includes of each file
\* the load has opened, and no other line, in the order of their places: an included
\* file stands where its #include stood, however deep the files include one another
\* (runcom.cpp:294-326).
THEOREM ConfigIncludedInPlace == Spec => []IncludedInPlace
<1>1. Init => Judged /\ Nested /\ InPlace
  BY DEF Init, Judged, NoIncludes, AcceptsExactly, Nested, InPlace, OpenedNow
<1>2. Safe /\ Judged /\ Nested /\ InPlace /\ [Next]_vars => (Judged /\ Nested /\ InPlace)'
  BY JudgedKept, InPlaceKept
<1>3. Safe /\ Judged /\ Nested /\ InPlace => IncludedInPlace
  <2> SUFFICES ASSUME Safe, Judged, Nested, InPlace, phase = "parse" \/ next > 0
               PROVE  IncludedInPlace
    BY DEF IncludedInPlace
  <2>1. frames = <<>> /\ (phase # "idle" \/ next > 0)
    BY DEF Nested
  <2>2. \A o, n : Passed(frames, o, n)
    BY <2>1 DEF Passed
  <2>3. ASSUME NEW o \in OpenedNow, NEW n \in DOMAIN Content(o), Content(o)[n].kind # "include"
        PROVE  Copied(text, o, n)
    BY <2>1, <2>2, <2>3 DEF InPlace
  <2>4. \A i \in DOMAIN text : text[i].open \in OpenedNow /\ Line(text[i]).kind # "include"
    BY DEF InPlace, Judged, NoIncludes
  <2>5. \A i, j \in DOMAIN text : i < j => Before(Place(text[i]), Place(text[j]))
    BY DEF InPlace
  <2> QED
    BY <2>3, <2>4, <2>5 DEF IncludedInPlace, Copied
<1> QED
  BY <1>1, <1>2, <1>3, SafeInitially, SafeKept, PTL DEF Spec

-----------------------------------------------------------------------------
\* What a call has left to do is counted in naturals.
LEMMA PathsFinite ==
  ASSUME IsFiniteSet(Files)
  PROVE  IsFiniteSet(Paths)
<1> DEFINE pairs == Files \X (0 .. MaxDetours)
           pair == [p \in Paths |-> <<p.file, p.detours>>]
<1>1. IsFiniteSet(pairs)
  <2>1. IsFiniteSet(0 .. MaxDetours)
    BY ConfigAssumption, FS_Interval
  <2> QED
    BY <2>1, FS_Product
<1>2. \A p \in Paths : p.file \in Files /\ p.detours \in 0 .. MaxDetours
  BY DEF Paths
<1>3. \A p, q \in Paths : p.file = q.file /\ p.detours = q.detours => p = q
  BY DEF Paths
<1>4. pair \in [Paths -> pairs]
  BY <1>2
<1>5. \A p, q \in Paths : pair[p] = pair[q] => p = q
  BY <1>3
<1>6. pair \in Injection(Paths, pairs)
  BY <1>4, <1>5 DEF Injection, IsInjective
<1> QED
  BY <1>1, <1>6, FS_Injection

LEMMA LeftTyped ==
  ASSUME IsFiniteSet(Files), Safe
  PROVE  /\ IsFiniteSet(Unread) /\ Cardinality(Unread) \in Nat
         /\ Len(defaults) \in Nat /\ Stage \in Nat /\ Len(frames) \in Nat /\ LinesLeft \in Nat
         /\ Left \in [1 .. 6 -> Nat]
<1> USE DEF Safe
<1>1. IsFiniteSet(Unread) /\ Cardinality(Unread) \in Nat
  <2>1. IsFiniteSet(Unread)
    BY PathsFinite, FS_Subset DEF Unread
  <2> QED
    BY <2>1, FS_CardinalityType
<1>2. Len(defaults) \in Nat /\ Stage \in Nat /\ Len(frames) \in Nat
  BY DEF TypeOK, Stage
<1>3. LinesLeft \in Nat
  <2>1. CASE phase = "preprocess" /\ ~AtEnd
    <3>1. Inner.open \in DOMAIN loaded /\ Inner.line \in DOMAIN Content(Inner.open)
      BY <2>1, CurrentIsLine
    <3>2. Len(Content(Inner.open)) \in Nat /\ Inner.line \in 1 .. Len(Content(Inner.open))
      BY <3>1, DiskTyped
    <3> QED
      BY <2>1, <3>2 DEF LinesLeft
  <2>2. CASE phase = "parse" /\ next <= Len(text)
    BY <2>2 DEF LinesLeft, TypeOK
  <2>3. CASE ~(phase = "preprocess" /\ ~AtEnd) /\ ~(phase = "parse" /\ next <= Len(text))
    BY <2>3 DEF LinesLeft
  <2> QED
    BY <2>1, <2>2, <2>3
<1>4. ASSUME NEW a \in Nat, NEW b \in Nat, NEW c \in Nat, NEW d \in Nat, NEW e \in Nat, NEW f \in Nat
      PROVE  <<a, b, c, d, e, f>> \in [1 .. 6 -> Nat]
  OBVIOUS
<1>5. (IF trying THEN 1 ELSE 0) \in Nat
  OBVIOUS
<1> QED
  BY <1>1, <1>2, <1>3, <1>4, <1>5 DEF Left

\* The first of the six that a step changes must get smaller.
LEMMA LeftFalls ==
  ASSUME \/ Cardinality(Unread') < Cardinality(Unread)
         \/ /\ Unread' = Unread
            /\ \/ trying /\ ~trying'
               \/ /\ trying' = trying
                  /\ \/ Len(defaults') < Len(defaults)
                     \/ /\ defaults' = defaults
                        /\ \/ Stage' < Stage
                           \/ Stage' = Stage /\ Len(frames') < Len(frames)
                           \/ /\ Stage' = Stage /\ Len(frames') = Len(frames)
                              /\ LinesLeft' < LinesLeft
  PROVE  Below(Left', Left)
<1>1. /\ Left[1] = Cardinality(Unread) /\ Left[2] = IF trying THEN 1 ELSE 0
      /\ Left[3] = Len(defaults) /\ Left[4] = Stage
      /\ Left[5] = Len(frames) /\ Left[6] = LinesLeft
  BY DEF Left
<1>2. /\ Left'[1] = Cardinality(Unread') /\ Left'[2] = IF trying' THEN 1 ELSE 0
      /\ Left'[3] = Len(defaults') /\ Left'[4] = Stage'
      /\ Left'[5] = Len(frames') /\ Left'[6] = LinesLeft'
  BY DEF Left
<1>3. \/ Left'[1] < Left[1]
      \/ /\ Left'[1] = Left[1]
         /\ \/ Left'[2] < Left[2]
            \/ /\ Left'[2] = Left[2]
               /\ \/ Left'[3] < Left[3]
                  \/ /\ Left'[3] = Left[3]
                     /\ \/ Left'[4] < Left[4]
                        \/ Left'[4] = Left[4] /\ Left'[5] < Left[5]
                        \/ Left'[4] = Left[4] /\ Left'[5] = Left[5] /\ Left'[6] < Left[6]
  BY <1>1, <1>2
<1>4. ASSUME NEW s, NEW t,
             \/ s[1] < t[1]
             \/ /\ s[1] = t[1]
                /\ \/ s[2] < t[2]
                   \/ /\ s[2] = t[2]
                      /\ \/ s[3] < t[3]
                         \/ /\ s[3] = t[3]
                            /\ \/ s[4] < t[4]
                               \/ s[4] = t[4] /\ s[5] < t[5]
                               \/ s[4] = t[4] /\ s[5] = t[5] /\ s[6] < t[6]
      PROVE  Below(s, t)
  BY <1>4 DEF Below
<1> QED
  BY <1>3, <1>4

-----------------------------------------------------------------------------
\* A path that is read is one less to read.
LEMMA ReadingFalls ==
  ASSUME IsFiniteSet(Files), Safe, NEW p \in Paths, ~CannotRead(p), loaded' = Append(loaded, p)
  PROVE  Below(Left', Left)
<1>1. loaded \in Seq(Paths) /\ p \in Unread
  BY DEF Safe, TypeOK, CannotRead, Unread
<1>2. /\ DOMAIN loaded' = DOMAIN loaded \cup {Len(loaded) + 1} /\ loaded'[Len(loaded) + 1] = p
      /\ \A i \in DOMAIN loaded : loaded'[i] = loaded[i]
  BY <1>1
<1>3. Unread' = Unread \ {p}
  BY <1>2 DEF Unread, IsRead
<1>4. Cardinality(Unread') = Cardinality(Unread) - 1 /\ Cardinality(Unread) \in Nat
  BY <1>1, <1>3, LeftTyped, FS_RemoveElement
<1> QED
  BY <1>4, LeftFalls

\* A line that preprocess() passes is one less of its file.
LEMMA PassingFalls ==
  ASSUME Safe, phase = "preprocess", ~AtEnd, frames' = Advanced,
         UNCHANGED <<disk, loaded, sites, phase, defaults, trying>>
  PROVE  Below(Left', Left)
<1> USE DEF Safe
<1>1. /\ Len(frames') = Len(frames) /\ Len(frames) \in Nat \ {0}
      /\ Inner' = [open |-> Inner.open, line |-> Inner.line + 1]
  <2>1. /\ Len(frames) \in Nat \ {0} /\ Advanced \in Seq(FrameTo(Len(loaded)))
        /\ Len(Advanced) = Len(frames)
        /\ Advanced[1] = [open |-> Inner.open, line |-> Inner.line + 1]
    BY AdvancedIs
  <2>2. Inner' = Advanced[1]
    BY <2>1, HeadTailProperties DEF Inner
  <2> QED
    BY <2>1, <2>2
<1>2. /\ Inner'.open = Inner.open /\ Inner'.line = Inner.line + 1
      /\ \A o : Content(o)' = Content(o)
  BY <1>1 DEF Content
<1>3. Len(Content(Inner.open)) \in Nat /\ Inner.line \in 1 .. Len(Content(Inner.open))
  <2>1. Inner.open \in DOMAIN loaded /\ Inner.line \in DOMAIN Content(Inner.open)
    BY CurrentIsLine
  <2> QED
    BY <2>1, DiskTyped
<1>4. LinesLeft = Len(Content(Inner.open)) + 1 - Inner.line
  BY DEF LinesLeft
<1>5. Content(Inner.open)' = Content(Inner.open)
  BY <1>2 DEF Content
<1>6. LinesLeft' = IF Inner.line + 1 > Len(Content(Inner.open)) THEN 0
                   ELSE Len(Content(Inner.open)) + 1 - (Inner.line + 1)
  BY <1>2, <1>5 DEF LinesLeft, AtEnd
<1>7. LinesLeft' < LinesLeft
  BY <1>3, <1>4, <1>6
<1>8. Unread' = Unread /\ Stage' = Stage
  BY DEF Unread, IsRead, Stage
<1> QED
  BY <1>1, <1>7, <1>8, LeftFalls

LEMMA IncludeFalls ==
  ASSUME IsFiniteSet(Files), Safe, Include
  PROVE  Below(Left', Left)
<1> DEFINE p == Target(loaded[Inner.open], Current)
<1> USE DEF Safe
<1>1. CASE Current.file = None \/ CannotRead(p)
  BY <1>1, PassingFalls DEF Include
<1>2. CASE ~(Current.file = None \/ CannotRead(p))
  <2>1. Inner.open \in DOMAIN loaded /\ Current \in Lines
    BY CurrentIsLine DEF Include
  <2>2. p \in Paths
    BY <1>2, <2>1, TargetIsPath, DiskTyped DEF Include, CannotRead
  <2>3. loaded' = Append(loaded, p)
    BY <1>2 DEF Include
  <2> QED
    BY <1>2, <2>2, <2>3, ReadingFalls
<1> QED
  BY <1>1, <1>2

\* A call of preprocess() that returns is one less, and the last one ends the stage.
LEMMA ReturnFalls ==
  ASSUME Safe, Return
  PROVE  Below(Left', Left)
<1>1. frames \in Seq(FrameTo(Len(loaded))) /\ frames # <<>>
  BY DEF Safe, TypeOK, Placed, FrameTo, Return
<1>2. Len(frames) \in Nat /\ Len(frames') = Len(frames) - 1
  BY <1>1 DEF Return
<1>3. /\ Unread' = Unread /\ UNCHANGED <<defaults, trying>>
      /\ Stage = 2 /\ Stage' \in {1, 2}
  BY DEF Return, Unread, IsRead, Stage
<1> QED
  BY <1>2, <1>3, LeftFalls

\* A statement takes the lines up to its end of line with it, or ends the parse.
LEMMA StatementFalls ==
  ASSUME Safe, Statement
  PROVE  Below(Left', Left)
<1>1. /\ phase = "parse" /\ next <= Len(text) /\ next \in Nat \ {0} /\ Len(text) \in Nat
      /\ UNCHANGED <<disk, loaded, sites, frames, text, defaults, trying>>
  BY DEF Safe, TypeOK, Placed, Statement
<1>2. Unread' = Unread /\ Stage = 1 /\ LinesLeft = Len(text) + 1 - next
  BY <1>1 DEF Unread, IsRead, Stage, LinesLeft
<1>3. CASE Completes
  <2>1. next' = CommentAt + 2 /\ phase' = "parse"
    BY <1>1, <1>3 DEF Statement
  <2>2. First \in next .. Len(text) + 1
    BY <1>1, PastIsPlace DEF First
  <2>3. CommentAt >= next /\ CommentAt \in Nat /\ CommentAt + 1 <= Len(text)
    <3>1. CASE Assigns /\ ~Subject.comment
      <4>1. First + 1 \in Nat /\ First + 1 <= Len(text) + 1
        BY <1>1, <2>2, <3>1 DEF Assigns
      <4>2. CommentAt \in First + 1 .. Len(text) + 1
        BY <1>1, <3>1, <4>1, PastIsPlace DEF CommentAt
      <4> QED
        BY <1>1, <1>3, <2>2, <4>2 DEF Completes
    <3>2. CASE ~(Assigns /\ ~Subject.comment)
      BY <1>1, <1>3, <2>2, <3>2 DEF Completes, CommentAt
    <3> QED
      BY <3>1, <3>2
  <2>4. Stage' = 1 /\ LinesLeft' = IF next' <= Len(text) THEN Len(text) + 1 - next' ELSE 0
    BY <1>1, <2>1 DEF Stage, LinesLeft
  <2>5. LinesLeft' < LinesLeft
    BY <1>1, <1>2, <2>1, <2>3, <2>4
  <2> QED
    BY <1>1, <1>2, <2>4, <2>5, LeftFalls
<1>4. CASE ~Completes
  <2>1. Stage' = 0
    BY <1>4 DEF Statement, Stage
  <2> QED
    BY <1>1, <1>2, <2>1, LeftFalls
<1> QED
  BY <1>3, <1>4

\* A default that is tried leaves the list, whether or not it is read.
LEMMA TryDefaultFalls ==
  ASSUME IsFiniteSet(Files), Safe, TryDefault
  PROVE  Below(Left', Left)
<1>1. /\ defaults \in Seq(Paths) /\ defaults # <<>> /\ Head(defaults) \in Paths
      /\ Len(defaults) \in Nat /\ Len(defaults') = Len(defaults) - 1
      /\ UNCHANGED trying
  BY DEF Safe, TypeOK, TryDefault
<1>2. CASE Exists(Head(defaults)) /\ ~CannotRead(Head(defaults))
  <2>1. loaded' = Append(loaded, Head(defaults))
    BY <1>2 DEF TryDefault, Load
  <2> QED
    BY <1>1, <1>2, <2>1, ReadingFalls
<1>3. CASE ~(Exists(Head(defaults)) /\ ~CannotRead(Head(defaults)))
  <2>1. UNCHANGED loaded
    BY <1>3 DEF TryDefault, Load, loading
  <2>2. Unread' = Unread
    BY <2>1 DEF Unread, IsRead
  <2> QED
    BY <1>1, <2>2, LeftFalls
<1> QED
  BY <1>2, <1>3

\* The order that the steps of a call go down has no endless descent.
THEOREM BelowEnds ==
  ASSUME NEW below,
         below = {ss \in [1 .. 6 -> Nat] \X [1 .. 6 -> Nat] : Below(ss[1], ss[2])}
  PROVE  IsWellFoundedOn(below, [1 .. 6 -> Nat])
<1> DEFINE lex == LexProductOrdering(OpToRel(<, Nat), Nat, 6)
<1>1. IsWellFoundedOn(lex, [1 .. 6 -> Nat])
  BY NatLessThanWellFounded, WFLexProductOrdering
<1>2. ASSUME NEW s \in [1 .. 6 -> Nat], NEW t \in [1 .. 6 -> Nat]
      PROVE  <<s, t>> \in lex <=> Below(s, t)
  <2>1. \A j \in 1 .. 6 : <<s[j], t[j]>> \in OpToRel(<, Nat) <=> s[j] < t[j]
    BY DEF OpToRel
  <2> QED
    BY <2>1 DEF LexProductOrdering, Below
<1>3. below = lex
  <2>1. ASSUME NEW ss \in [1 .. 6 -> Nat] \X [1 .. 6 -> Nat]
        PROVE  ss \in lex <=> Below(ss[1], ss[2])
    <3>1. ss = <<ss[1], ss[2]>>
      OBVIOUS
    <3> QED
      BY <1>2, <3>1
  <2>2. lex \subseteq [1 .. 6 -> Nat] \X [1 .. 6 -> Nat]
    BY DEF LexProductOrdering
  <2> QED
    BY <2>1, <2>2
<1> QED
  BY <1>1, <1>3

\* No call of load() or load_defaults() goes on for ever, with any files and any
\* include graph: each of its steps goes down that order (runcom.cpp:183-195,
\* 278-326).  That a step is always possible, and taken, stays with TLC.
THEOREM ConfigWindsDown ==
  ASSUME IsFiniteSet(Files)
  PROVE  Spec => WindsDown
<1> DEFINE counted == Left \in [1 .. 6 -> Nat]
<1>1. Safe => counted
  BY LeftTyped
<1>2. ASSUME Safe, phase # "idle" \/ trying, [Next]_vars, ~UNCHANGED vars
      PROVE  Below(Left', Left)
  <2>1. CopyLine \/ Include \/ Return \/ Statement \/ ParseEnds \/ TryDefault \/ DefaultsReturn
    BY <1>2 DEF Next, LoadDefaults, CallLoad, Set
  <2>2. ASSUME ParseEnds PROVE Below(Left', Left)
    <3>1. Stage = 1 /\ Stage' = 0 /\ Unread' = Unread /\ UNCHANGED <<defaults, trying>>
      BY <2>2 DEF ParseEnds, Stage, Unread, IsRead
    <3> QED
      BY <3>1, LeftFalls
  <2>3. ASSUME DefaultsReturn PROVE Below(Left', Left)
    <3>1. Unread' = Unread /\ trying /\ ~trying'
      BY <2>3 DEF DefaultsReturn, Unread, IsRead
    <3> QED
      BY <3>1, LeftFalls
  <2>4. ASSUME CopyLine PROVE Below(Left', Left)
    BY <1>2, <2>4, PassingFalls DEF CopyLine
  <2> QED
    BY <1>2, <2>1, <2>2, <2>3, <2>4, IncludeFalls, ReturnFalls, StatementFalls, TryDefaultFalls
<1>3. Safe /\ counted' /\ [Next]_vars =>
        [phase # "idle" \/ trying => Left' \in [1 .. 6 -> Nat] /\ Below(Left', Left)]_vars
  BY <1>2
<1> QED
  BY <1>1, <1>3, ConfigSafe, PTL DEF Spec, WindsDown

=============================================================================
