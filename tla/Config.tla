------------------------------- MODULE Config -------------------------------
(***************************************************************************)
(* The configuration of a process (src/src/runcom.cpp): Config::load and   *)
(* load_defaults, the include preprocessor and the PRL parser, one action  *)
(* per line preprocessed and per statement parsed.                         *)
(*                                                                         *)
(* A file is a sequence of lines.  A path is the string the program builds *)
(* for a file: every include that climbs out of its directory and back     *)
(* ("../d/a.cnf") makes it longer, and MaxDetours stands for PATH_MAX.     *)
(* A value is known by what the grammar makes of its spelling and by the   *)
(* line it was read from.                                                  *)
(***************************************************************************)
EXTENDS Naturals, Sequences, FiniteSets

CONSTANTS
  Files,
  Keys,
  Disks,        \* what the files may hold: sequences of lines, or Missing
  Missing,      \* the file does not exist or cannot be opened
  None,         \* no value, no string, no target
  CustomFile,   \* $PASSDOQ_RUNCOM_FILE
  XdgFile,      \* $XDG_CONFIG_HOME/passdoq/Passdoq.cnf
  HomeFile,     \* $HOME/.config/passdoq/Passdoq.cnf
  RcFile,       \* ~/.passdoqrc
  MaxDetours,   \* detours in the longest path the system opens
  SetTypes,     \* bound: the types of the values the program sets itself
  MaxSets       \* bound: how many it sets

-----------------------------------------------------------------------------
Types == {"STRING", "INTEGER", "BOOLEAN", "LIST"}

\* How a value is spelled.  The rules are tried in the order list, boolean,
\* integer, string and take a prefix: 10 is the boolean 1 and a rest, nobody
\* the boolean no and a rest, [a, b] the word "[a," and a rest.
Shapes == {"word", "quoted", "emptyQuotes", "boolean", "booleanPrefix",
           "integer", "integerPrefix", "overflow", "quotedList", "emptyItemList", "bareList"}

\* The values whose end the grammar does not reach.
CutShort == {"booleanPrefix", "integerPrefix", "bareList", "overflow"}

\* What the action of the matching value rule stores itself (the in_list flag
\* is never set, so a list is stored without its items) ...
RuleStores(shape) ==
  CASE shape \in {"boolean", "booleanPrefix"} -> "BOOLEAN"
    [] shape \in {"integer", "integerPrefix"} -> "INTEGER"
    [] shape \in {"quotedList", "emptyItemList"} -> "LIST"
    [] OTHER -> None

\* ... and the spellings that leave a string, in a list its last item, for the
\* action of the assignment.
LeaveString == {"word", "quoted", "quotedList", "bareList"}

Lines ==
  [kind : {"blank", "comment"}]
    \cup [kind : {"include"}, file : Files \cup {None}, how : {"plain", "detour", "absolute"}]
    \cup [kind : {"assign"}, key : Keys, shape : Shapes, comment : BOOLEAN]

Paths == [file : Files, detours : 0 .. MaxDetours]
PathOf(f) == [file |-> f, detours |-> 0]

ASSUME ConfigAssumption ==
  /\ Disks \subseteq [Files -> Seq(Lines) \cup {Missing}]
  /\ Missing \notin Seq(Lines)
  /\ {CustomFile, XdgFile, HomeFile, RcFile} \subseteq Files
  /\ None \notin Files
  /\ SetTypes \subseteq Types
  /\ MaxDetours \in Nat /\ MaxSets \in Nat

VARIABLES
  disk,       \* the files
  env,        \* the environment variables that are set
  values,     \* values_
  loaded,     \* loaded_files_, never cleared
  phase,      \* what the last call of load() is doing
  frames,     \* the calls of preprocess(), innermost first
  text,       \* the lines written to the preprocessed text
  next,       \* the line of text the parser has reached, 0 before
  string,     \* current_string of the parser
  defaults,   \* the paths load_defaults() has still to try
  trying,     \* is load_defaults() running?
  answer,     \* what the last call returned
  sites,      \* history: where the #include of each opened file stood
  applied     \* history: the assignments that stored something

loading == <<values, loaded, sites, phase, frames, text, next, string, answer, applied>>
vars == <<disk, env, loading, defaults, trying>>

-----------------------------------------------------------------------------
Variables == {"PASSDOQ_RUNCOM_FILE", "XDG_CONFIG_HOME", "HOME"}

\* get_default_paths.
DefaultPaths ==
  LET If(cond, f) == IF cond THEN <<PathOf(f)>> ELSE <<>>
      xdg == "XDG_CONFIG_HOME" \in env
      home == "HOME" \in env
  IN If("PASSDOQ_RUNCOM_FILE" \in env, CustomFile)
       \o If(xdg, XdgFile) \o If(~xdg /\ home, HomeFile) \o If(home, RcFile)

\* A line of the text: which of the opened files it comes from, and its number.
Tags == [open : Nat \ {0}, line : Nat \ {0}]
Program == [open |-> 0, line |-> 0]

Values == [type : Types, by : Tags \cup {Program}]

ASSUME NoneAssumption == None \notin Types \cup Tags \cup Values

\* A place in the text of a load: the lines of the includes that lead to a line,
\* from the outermost file in, and the line itself.
Place(tag) == Append(sites[tag.open], tag.line)

Content(open) == disk[loaded[open].file]
Line(tag) == Content(tag.open)[tag.line]

IsRead(p) == \E i \in DOMAIN loaded : loaded[i] = p
Exists(p) == disk[p.file] # Missing
Opens(p) == Exists(p) /\ p.detours <= MaxDetours

TypeOK ==
  /\ disk \in Disks
  /\ env \subseteq Variables
  /\ values \in [Keys -> Values \cup {None}]
  /\ loaded \in Seq(Paths)
  /\ sites \in Seq(Seq(Nat)) /\ Len(sites) = Len(loaded)
  /\ phase \in {"idle", "preprocess", "parse"}
  /\ frames \in Seq([open : 1 .. Len(loaded), line : Nat \ {0}])
  /\ text \in Seq(Tags)
  /\ next \in Nat
  /\ string \in Tags \cup {None}
  /\ defaults \in Seq(Paths)
  /\ trying \in BOOLEAN
  /\ answer \in {"none", "true", "false"}
  /\ applied \in Seq([key : Keys, type : Types, by : Tags \cup {Program}])

Init ==
  /\ disk \in Disks
  /\ env \in SUBSET Variables
  /\ values = [k \in Keys |-> None]
  /\ loaded = <<>>
  /\ sites = <<>>
  /\ phase = "idle"
  /\ frames = <<>>
  /\ text = <<>>
  /\ next = 0
  /\ string = None
  /\ defaults = <<>>
  /\ trying = FALSE
  /\ answer = "none"
  /\ applied = <<>>

-----------------------------------------------------------------------------
\* Mutant: load() and preprocess() do not look into loaded_files_.
CannotRead_Recurses(p) == ~Opens(p)

\* is_circular_include, or the file does not open.
CannotRead(p) == IsRead(p) \/ ~Opens(p)

\* Config::load up to the first line of preprocess().
Load(p) ==
  /\ text' = <<>>
  /\ next' = 0
  /\ \/ /\ CannotRead(p)
        /\ answer' = "false"
        /\ UNCHANGED <<loaded, sites, phase, frames>>
     \/ /\ ~CannotRead(p)
        /\ answer' = "none"
        /\ loaded' = Append(loaded, p)
        /\ sites' = Append(sites, <<>>)
        /\ frames' = <<[open |-> Len(loaded) + 1, line |-> 1]>>
        /\ phase' = "preprocess"
  /\ UNCHANGED <<disk, env, values, string, applied>>

\* The program loads a file of its choice.
CallLoad(f) ==
  /\ phase = "idle"
  /\ ~trying
  /\ Load(PathOf(f))
  /\ UNCHANGED <<defaults, trying>>

\* The path an include names, seen from the file that includes it.
Target(from, line) ==
  [file |-> line.file,
   detours |-> CASE line.how = "plain" -> from.detours
                 [] line.how = "detour" -> from.detours + 1
                 [] line.how = "absolute" -> 0]

Inner == Head(frames)
AtEnd == Inner.line > Len(Content(Inner.open))
Current == Content(Inner.open)[Inner.line]
Advanced == <<[Inner EXCEPT !.line = @ + 1]>> \o Tail(frames)

CopyLine ==
  /\ phase = "preprocess"
  /\ ~AtEnd
  /\ Current.kind # "include"
  /\ text' = Append(text, Inner)
  /\ frames' = Advanced
  /\ UNCHANGED <<disk, env, values, loaded, sites, phase, next, string, answer, applied, defaults, trying>>

\* Mutant: the files included are read after the files that include them.
Include_Later ==
  /\ phase = "preprocess"
  /\ ~AtEnd
  /\ Current.kind = "include"
  /\ LET p == Target(loaded[Inner.open], Current) IN
       IF Current.file = None \/ CannotRead(p)
         THEN frames' = Advanced /\ UNCHANGED <<loaded, sites>>
         ELSE /\ loaded' = Append(loaded, p)
              /\ sites' = Append(sites, Place(Inner))
              /\ frames' = Advanced \o <<[open |-> Len(loaded) + 1, line |-> 1]>>
  /\ UNCHANGED <<disk, env, values, phase, text, next, string, answer, applied, defaults, trying>>

\* An #include without a quoted name, of a file read before or of one that does
\* not open is dropped without a word.
Include ==
  /\ phase = "preprocess"
  /\ ~AtEnd
  /\ Current.kind = "include"
  /\ LET p == Target(loaded[Inner.open], Current) IN
       IF Current.file = None \/ CannotRead(p)
         THEN frames' = Advanced /\ UNCHANGED <<loaded, sites>>
         ELSE /\ loaded' = Append(loaded, p)
              /\ sites' = Append(sites, Place(Inner))
              /\ frames' = <<[open |-> Len(loaded) + 1, line |-> 1]>> \o Advanced
  /\ UNCHANGED <<disk, env, values, phase, text, next, string, answer, applied, defaults, trying>>

\* preprocess() returns; the outermost one hands the text to a new parser.
Return ==
  /\ phase = "preprocess"
  /\ AtEnd
  /\ frames' = Tail(frames)
  /\ IF Tail(frames) = <<>> THEN phase' = "parse" /\ next' = 1 /\ string' = None
     ELSE UNCHANGED <<phase, next, string>>
  /\ UNCHANGED <<disk, env, values, loaded, sites, text, answer, applied, defaults, trying>>

-----------------------------------------------------------------------------
\* The rule ws takes newlines too: it skips blank lines up to the next ink.
Ink(i) == i <= Len(text) /\ Line(text[i]).kind # "blank"
Past(i) == CHOOSE j \in i .. Len(text) + 1 :
  /\ j = Len(text) + 1 \/ Ink(j)
  /\ \A k \in i .. j - 1 : ~Ink(k)

First == Past(next)
Subject == Line(text[First])
Assigns == First <= Len(text) /\ Subject.kind = "assign"

\* The line of the comment that must end the statement.
CommentAt == IF Assigns /\ ~Subject.comment THEN Past(First + 1) ELSE First
Commented ==
  /\ CommentAt <= Len(text)
  /\ \/ Line(text[CommentAt]).kind = "comment"
     \/ Assigns /\ CommentAt = First

\* Mutant: the grammar ends a statement with eolf, not eol.
Completes_AtEof ==
  /\ Assigns => Subject.shape \notin CutShort
  /\ Commented
  /\ CommentAt + 1 <= Len(text) => ~Ink(CommentAt + 1)

\* A comment takes its newline with it, so the eol after it is a blank line.
Completes ==
  /\ Assigns => Subject.shape \notin CutShort
  /\ Commented
  /\ CommentAt + 1 <= Len(text)
  /\ ~Ink(CommentAt + 1)

Stored(key, type, by) == [values EXCEPT ![key] = [type |-> type, by |-> by]]

\* Mutant: the assignment does not clear current_string.
Assign_KeepsString ==
  LET left == IF Subject.shape \in LeaveString THEN text[First] ELSE string
      type == RuleStores(Subject.shape)
  IN /\ string' = left
     /\ values' = IF left # None THEN Stored(Subject.key, "STRING", left)
                  ELSE IF type # None THEN Stored(Subject.key, type, text[First])
                  ELSE values

\* Mutant: a spelling that stores nothing is assigned all the same.
Assign_Nothing ==
  LET left == IF Subject.shape \in LeaveString THEN text[First] ELSE None
      type == RuleStores(Subject.shape)
  IN /\ string' = None
     /\ values' = IF left # None THEN Stored(Subject.key, "STRING", left)
                  ELSE Stored(Subject.key, type, text[First])

\* The actions of value and assignment: what the value rule stores is replaced
\* by the string, if one is left.  std::stoll throws on an integer that does
\* not fit before anything is stored.
Assign ==
  LET left == CASE Subject.shape \in LeaveString -> text[First]
                [] Subject.shape \in {"emptyQuotes", "emptyItemList"} -> None
                [] OTHER -> string
      type == RuleStores(Subject.shape)
  IN /\ string' = None
     /\ values' = IF left # None THEN Stored(Subject.key, "STRING", left)
                  ELSE IF type # None THEN Stored(Subject.key, type, text[First])
                  ELSE values

\* The type of what is stored in the end, None if nothing is: a list of strings
\* ends as the string of its last item (runcom.cpp:78, 121), an empty string
\* leaves the value that was there (runcom.cpp:120).
StoredType(shape) == IF shape \in LeaveString THEN "STRING" ELSE RuleStores(shape)

\* One statement.  Actions are not undone when the parse fails later on.
Statement ==
  /\ phase = "parse"
  /\ next <= Len(text)
  /\ IF Assigns /\ Subject.shape # "overflow" THEN Assign ELSE UNCHANGED <<values, string>>
  /\ applied' = IF Assigns /\ StoredType(Subject.shape) # None
                  THEN Append(applied, [key |-> Subject.key, type |-> StoredType(Subject.shape),
                                        by |-> text[First]])
                  ELSE applied
  /\ IF Completes THEN next' = CommentAt + 2 /\ UNCHANGED <<phase, answer>>
     ELSE phase' = "idle" /\ answer' = "false" /\ UNCHANGED next
  /\ UNCHANGED <<disk, env, loaded, sites, frames, text, defaults, trying>>

ParseEnds ==
  /\ phase = "parse"
  /\ next > Len(text)
  /\ phase' = "idle"
  /\ answer' = "true"
  /\ UNCHANGED <<disk, env, values, loaded, sites, frames, text, next, string, applied, defaults, trying>>

-----------------------------------------------------------------------------
LoadDefaults ==
  /\ phase = "idle"
  /\ ~trying
  /\ trying' = TRUE
  /\ defaults' = DefaultPaths
  /\ answer' = "none"
  /\ text' = <<>> /\ next' = 0
  /\ UNCHANGED <<disk, env, values, loaded, sites, phase, frames, string, applied>>

\* Mutant: the first default that fails ends the search.
TryDefault_Once ==
  /\ phase = "idle"
  /\ trying
  /\ answer = "none"
  /\ defaults # <<>>
  /\ IF Exists(Head(defaults)) THEN defaults' = <<>> /\ Load(Head(defaults))
     ELSE defaults' = Tail(defaults) /\ UNCHANGED <<disk, env, loading>>
  /\ UNCHANGED trying

\* Mutant: a default that cannot be read is tried for ever.
TryDefault_Again ==
  /\ phase = "idle"
  /\ trying
  /\ answer # "true"
  /\ defaults # <<>>
  /\ defaults' = IF Exists(Head(defaults)) THEN Tail(defaults) ELSE defaults
  /\ IF Exists(Head(defaults)) THEN Load(Head(defaults)) ELSE UNCHANGED <<disk, env, loading>>
  /\ UNCHANGED trying

\* The next default, unless the one before was loaded.  A file that does not
\* exist is passed over; what a load that failed has set stays.
TryDefault ==
  /\ phase = "idle"
  /\ trying
  /\ answer # "true"
  /\ defaults # <<>>
  /\ defaults' = Tail(defaults)
  /\ IF Exists(Head(defaults)) THEN Load(Head(defaults)) ELSE UNCHANGED <<disk, env, loading>>
  /\ UNCHANGED trying

DefaultsReturn ==
  /\ phase = "idle"
  /\ trying
  /\ answer = "true" \/ defaults = <<>>
  /\ trying' = FALSE
  /\ answer' = IF answer = "true" THEN "true" ELSE "false"
  /\ defaults' = <<>>
  /\ text' = <<>> /\ next' = 0
  /\ UNCHANGED <<disk, env, values, loaded, sites, phase, frames, string, applied>>

\* set, set_string, set_int, set_bool and set_list.
Set(k, type) ==
  /\ phase = "idle"
  /\ ~trying
  /\ Len(SelectSeq(applied, LAMBDA a : a.by = Program)) < MaxSets
  /\ values' = Stored(k, type, Program)
  /\ applied' = Append(applied, [key |-> k, type |-> type, by |-> Program])
  /\ UNCHANGED <<disk, env, loaded, sites, phase, frames, text, next, string, answer, defaults, trying>>

Next ==
  \/ CopyLine \/ Include \/ Return \/ Statement \/ ParseEnds
  \/ LoadDefaults \/ TryDefault \/ DefaultsReturn
  \/ \E f \in Files : CallLoad(f)
  \/ \E k \in Keys, type \in SetTypes : Set(k, type)

\* A call that was made goes on to its end.
Goes ==
  \/ CopyLine \/ Include \/ Return \/ Statement \/ ParseEnds
  \/ TryDefault \/ DefaultsReturn

Spec == Init /\ [][Next]_vars /\ WF_vars(Goes)

\* get_string, get_int, get_bool and get_list: None stands for the default.
Get(k, type) == IF values[k] # None /\ values[k].type = type THEN values[k].by ELSE None

-----------------------------------------------------------------------------
\* preprocess() puts the text of an included file where its #include stood
\* (runcom.cpp:294-326): the text holds every line but the includes of each file
\* opened by this load, and nothing else, in the order of their places.
OpenedNow == {o \in DOMAIN sites : \A r \in DOMAIN sites : sites[r] = <<>> => r <= o}
Before(p, q) ==
  \E n \in DOMAIN p \cap DOMAIN q : p[n] < q[n] /\ \A m \in 1 .. n - 1 : p[m] = q[m]
IncludedInPlace ==
  phase = "parse" \/ next > 0 =>
    /\ \A i \in DOMAIN text : text[i].open \in OpenedNow /\ Line(text[i]).kind # "include"
    /\ \A o \in OpenedNow : \A n \in DOMAIN Content(o) :
         Content(o)[n].kind # "include" => \E j \in DOMAIN text : text[j] = [open |-> o, line |-> n]
    /\ \A i, j \in DOMAIN text : i < j => Before(Place(text[i]), Place(text[j]))

\* Of the assignments to a key that store something, in whichever file or call
\* they were, the last one counts: nothing of an earlier string or of a parse that
\* failed shows through (runcom.cpp:58-126, 249-267).  Which assignments store
\* nothing or another type than they spell is said by StoredType.
LastStoredWins ==
  \A k \in Keys :
    LET mine == {i \in DOMAIN applied : applied[i].key = k}
    IN IF mine = {} THEN values[k] = None
       ELSE \E i \in mine :
              /\ \A j \in mine : j <= i
              /\ values[k] = [type |-> applied[i].type, by |-> applied[i].by]
              /\ Get(k, applied[i].type) = applied[i].by

\* What the grammar of runcom.cpp:15-44 accepts, said of the whole text: every
\* comment is followed by an empty line, every assignment is read to its end
\* and followed by a comment before any other ink, and nothing comes after.
CarriesComment(tag) ==
  Line(tag).kind = "comment" \/ (Line(tag).kind = "assign" /\ Line(tag).comment)
Accepted ==
  \/ text = <<>>
  \/ /\ Len(text) >= 2
     /\ CarriesComment(text[Len(text) - 1])
     /\ \A i \in DOMAIN text :
          /\ CarriesComment(text[i]) => i < Len(text) /\ ~Ink(i + 1)
          /\ Line(text[i]).kind = "assign" =>
               /\ Line(text[i]).shape \notin CutShort
               /\ \/ Line(text[i]).comment
                  \/ \E j \in i + 1 .. Len(text) :
                       Line(text[j]).kind = "comment" /\ \A k \in i + 1 .. j - 1 : ~Ink(k)

\* load() says true of exactly the texts that the grammar accepts as a whole.
AcceptsExactly ==
  phase = "idle" /\ next > 0 => (answer = "true" <=> Accepted)

\* load_defaults() says false only when every default file that exists has
\* been read, by itself or as part of another (runcom.cpp:183-195): a default
\* that fails does not hide the next.
DefaultsTried ==
  [][trying /\ ~trying' /\ answer' = "false" =>
       \A i \in DOMAIN DefaultPaths : Exists(DefaultPaths[i]) => IsRead(DefaultPaths[i])]_vars

\* What a call has left to do, the most lasting first: paths nobody has read, the
\* search of the defaults, defaults to try, the stage of the load, calls of
\* preprocess() on the stack, lines of the file or the text.
Unread == {p \in Paths : ~IsRead(p)}
Stage == CASE phase = "preprocess" -> 2 [] phase = "parse" -> 1 [] phase = "idle" -> 0
LinesLeft ==
  CASE phase = "preprocess" /\ ~AtEnd -> Len(Content(Inner.open)) + 1 - Inner.line
    [] phase = "parse" /\ next <= Len(text) -> Len(text) + 1 - next
    [] OTHER -> 0
Left ==
  <<Cardinality(Unread), IF trying THEN 1 ELSE 0, Len(defaults), Stage, Len(frames), LinesLeft>>

Below(s, t) == \E i \in 1 .. 6 : s[i] < t[i] /\ \A j \in 1 .. i - 1 : s[j] = t[j]

\* Every step of a call leaves less to do: an included file is paid for by its
\* path, which is never read again (runcom.cpp:161, 310), a default by its place
\* in the list, a statement by the lines it takes, so that a cycle of includes
\* can keep a call from its end only as long as the paths it makes still open.
WindsDown ==
  [][phase # "idle" \/ trying => Left' \in [1 .. 6 -> Nat] /\ Below(Left', Left)]_vars

\* Every call returns: no chain of includes goes on for ever.
LoadReturns == phase # "idle" \/ trying ~> phase = "idle" /\ ~trying

=============================================================================
