--------------------------- MODULE MCCodexTransfer --------------------------
(***************************************************************************)
(* TLC instances of CodexTransfer: homes that hold one or two of the things *)
(* that the export and the import tell apart, in pairs.                     *)
(***************************************************************************)
EXTENDS CodexTransfer

(* The project inside the home, and the home inside the project.            *)
Home == <<"/", "h">>
Inner == [project |-> Home \o <<"/", "o">>, home |-> Home]
Outer == [project |-> <<"/", "o">>, home |-> <<"/", "o", "/", "h">>]
There == [project |-> <<"/", "k">>, home |-> <<"/", "q", "/", "h">>]

Below(path) == path \o <<"/", "x">>
Beside(path) == path \o <<"x">>

Line(type, id, cwd, text) == [type |-> type, id |-> id, cwd |-> cwd, text |-> text]

(* A thread that mentions both paths, and both as the start of a name.      *)
Thread(id, paths) ==
    << Line("session_meta", id, paths.project, Below(paths.home)),
       Line("turn_context", "", Below(paths.project), Beside(paths.project)),
       Line("response", "", <<>>, Below(paths.project) \o <<" ">> \o Beside(paths.home)) >>

Foreign == << Line("session_meta", "t9", <<"/", "z">>, <<>>) >>
EraBefore == << Line("response", "", <<>>, <<"/", "z">>) >>
Nameless(paths) == << Line("turn_context", "", paths.project, <<>>) >>

A == [root |-> "sessions", name |-> "a"]
B == [root |-> "archived", name |-> "b"]
C == [root |-> "sessions", name |-> "c"]
Odd == [root |-> "archived", name |-> "odd"]

Prompt(session, text) == [session |-> session, second |-> 1, text |-> text]
Index(id, text) == [id |-> id, text |-> text]
Row(cwd, side) == [cwd |-> cwd, side |-> side]
Db(rows, status, watermark) == [rows |-> rows, status |-> status, watermark |-> watermark]

NoHome == [files |-> <<>>, packed |-> {}, history |-> <<>>, index |-> <<>>, dbs |-> <<>>,
           listed |-> FALSE]

(* t1 and t2 have rollouts, of t3 only the database knows; t1 has a row in  *)
(* two generations and two prompts in one second.                           *)
Full(paths) ==
    [NoHome EXCEPT
        !.files = (A :> Thread("t1", paths)) @@ (B :> Thread("t2", paths)) @@ (C :> Foreign),
        !.history = << Prompt("t1", Below(paths.project)), Malformed, Prompt("t9", <<>>),
                       Prompt("t1", <<"y">>), Prompt("t3", paths.home) >>,
        !.index = << Index("t1", <<>>), Malformed, Index("t9", <<>>),
                     Index("t3", paths.project) >>,
        !.dbs = (1 :> Db(("t1" :> Row(paths.project, "old")) @@
                         ("t3" :> Row(Below(paths.project), "a")), "complete", "last"))
             @@ (2 :> Db(("t1" :> Row(paths.project, "new")) @@
                         ("t9" :> Row(<<"/", "z">>, "b")), "complete", "last"))]

One(paths) ==
    [NoHome EXCEPT !.files = A :> Thread("t1", paths),
                   !.history = << Prompt("t1", <<"y">>), Prompt("t1", <<"y">>) >>,
                   !.dbs = 1 :> Db("t1" :> Row(paths.project, "new"), "complete", "last")]

With(file, rollout) == [One(Inner) EXCEPT !.files = (file :> rollout) @@ @]

RowOnly == [NoHome EXCEPT !.history = << Prompt("t3", <<"y">>) >>,
                          !.dbs = 1 :> Db("t3" :> Row(Inner.project, "a"), "complete", "last")]

Sources ==
    { One(Inner), [One(Inner) EXCEPT !.packed = {A}], [One(Inner) EXCEPT !.packed = {B}],
      With([A EXCEPT !.root = "archived"], SubSeq(Thread("t1", Inner), 1, 2)),
      With(B, EraBefore), With(B, Nameless(Inner)), With(Odd, Thread("t2", Inner)),
      RowOnly, [NoHome EXCEPT !.listed = TRUE], NoHome }

(* A machine Codex has run on, with some of the archive there already.      *)
Used ==
    [NoHome EXCEPT
        !.files = C :> Foreign,
        !.history = << Prompt("t1", Below(There.project)), Prompt("t9", <<>>) >>,
        !.index = << Index("t1", <<>>) >>,
        !.dbs = (1 :> Db("t9" :> Row(<<"/", "z">>, "b"), "complete", "last"))]

(* One whose backfill stopped half way, with an older generation beside it. *)
HalfWay == [Used EXCEPT !.dbs = (1 :> Db("t1" :> Row(There.project, "own"), "complete", "last"))
                             @@ (2 :> Db(<<>>, "pending", "last"))]

Broken == [NoHome EXCEPT !.history = << Malformed >>]

Both == [sessions |-> TRUE, history |-> TRUE]
Selections == { [sessions |-> TRUE, history |-> FALSE], [sessions |-> FALSE, history |-> TRUE] }

Setup(paths, from, to, selected) ==
    [from |-> paths, to |-> There, source |-> from, target |-> to, selected |-> selected]

Homes ==
    { Setup(Inner, Full(Inner), to, Both) : to \in {NoHome, Used, HalfWay} }
    \cup { Setup(Outer, Full(Outer), NoHome, Both), Setup(Inner, One(Inner), Broken, Both) }
    \cup { Setup(Inner, from, Used, Both) : from \in Sources }
    \cup { Setup(Inner, Full(Inner), Used, selected) : selected \in Selections }
=============================================================================
