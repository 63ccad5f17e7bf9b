----------------------------- MODULE MCConfig -----------------------------
(* Instances of Config for TLC: what the files hold.                        *)
EXTENDS Config

CONSTANTS f1, f2, f3, k1, k2

Blank == [kind |-> "blank"]
Comment == [kind |-> "comment"]
IncludeOf(f, how) == [kind |-> "include", file |-> f, how |-> how]
To(k, shape) == [kind |-> "assign", key |-> k, shape |-> shape, comment |-> FALSE]
ToWithComment(k, shape) == [kind |-> "assign", key |-> k, shape |-> shape, comment |-> TRUE]

\* Texts that end well, texts that fail half way, cycles, diamonds, detours.
Includers ==
  { Missing,
    <<IncludeOf(f2, "plain"), IncludeOf(f3, "plain"), ToWithComment(k1, "boolean"), Blank>>,
    <<To(k1, "quotedList"), Blank, Comment, Blank, IncludeOf(f1, "detour"), ToWithComment(k1, "emptyItemList"), Blank>>,
    <<ToWithComment(k2, "emptyQuotes"), Blank, IncludeOf(f3, "absolute"), ToWithComment(k2, "overflow"), Blank>>,
    <<IncludeOf(None, "plain"), To(k1, "word"), To(k2, "integer")>> }
Included ==
  { Missing, <<>>,
    <<Comment, Blank, IncludeOf(f1, "plain"), IncludeOf(f3, "detour"), Comment, Blank>>,
    <<To(k2, "booleanPrefix"), Comment, Blank>>,
    <<ToWithComment(k2, "bareList"), Blank, ToWithComment(k1, "integerPrefix")>> }
Leaves ==
  { Missing,
    <<ToWithComment(k1, "word"), Blank, ToWithComment(k1, "integer"), Blank>>,
    <<IncludeOf(f2, "plain"), ToWithComment(k2, "quoted"), Blank, Comment>>,
    <<ToWithComment(k2, "quoted"), Comment, Blank>>,
    <<ToWithComment(k2, "integer"), Blank, IncludeOf(f1, "absolute"), ToWithComment(k1, "integerPrefix")>> }

AllDisks == {d \in [Files -> Includers \cup Included \cup Leaves] :
               d[f1] \in Includers /\ d[f2] \in Included /\ d[f3] \in Leaves}

=============================================================================
