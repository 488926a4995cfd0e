----------------------------- MODULE MCReferences ---------------------------
(***************************************************************************)
(* TLC instances of References: the project /p/o with a directory in it, an *)
(* alias beside it and one inside it, moved to places of which one holds    *)
(* the old path and one its beginning. A rollout has a line that records    *)
(* its directory and one more line of any type; where the databases are     *)
(* looked at, they have up to two rows in a table, or one table with a      *)
(* schema Codex never declared.                                             *)
(***************************************************************************)
EXTENDS References

Path(names) == FlattenSeq([i \in DOMAIN names |-> <<"/", names[i]>>])

Old == Path(<<"p", "o">>)
Sub == Path(<<"p", "o", "s">>)
Alias == Path(<<"l", "l", "l">>)    \* longer than what it stands for
SubAlias == Alias \o Path(<<"s">>)
InnerAlias == Path(<<"p", "o", "a">>)
Elsewhere == Path(<<"q">>)
NewPath == Path(<<"n">>)
Repeating == Path(<<"x", "p", "o">>)    \* holds the old path
Parting == Path(<<"x", "p">>)           \* holds its beginning
Joined == Alias \o Path(<<"o">>)        \* what the old path is made of there

ForeignPaths ==
    {Elsewhere, Old \o <<"-", "s">>, Old \o <<".", "s">>, Old \o <<".", ".", "s">>}

(* A path as spelled with some of its slashes escaped.                      *)
Spelled(path, escaped) ==
    FlattenSeq([i \in DOMAIN path |->
        IF path[i] = "/" /\ i \in escaped THEN <<"\\", "/">> ELSE <<path[i]>>])

Spellings(path) ==
    LET slashes == {i \in DOMAIN path : path[i] = "/"}
    IN {Spelled(path, escaped) : escaped \in {{}, slashes, {1}, slashes \ {1}, {Max(slashes)}}}

Line(type, fields) == [type |-> type, fields |-> fields]

NewLines == {Line("turn_context", "cwd" :> Alias), Line("turn_context", "cwd" :> Sub),
             Line("turn_context", "root" :> Joined), Line("other", "message" :> Old)}

MoveTo(new, deep) ==
    [old |-> Old, new |-> new, deep |-> deep, trusted |-> TRUE,
     newLines |-> NewLines, newRows |-> {},
     links |-> (Alias :> Old) @@ (InnerAlias :> Old),
     directories |-> {Old, Sub, Elsewhere}]

FirstLines(cwds) ==
    {Line("session_meta", "cwd" :> text) : text \in cwds}

Roots == UNION {Spellings(p) : p \in {Old, Sub, Alias, Joined, InnerAlias} \cup ForeignPaths}

Prose == {<<"s", " ">> \o Old \o <<".">>, <<"s">> \o Elsewhere} \cup ForeignPaths

Reach(type, text) == Line(type, ("root" :> text) @@ ("message" :> Old))

RootLines ==
    {Reach("turn_context", Elsewhere \o Old)} \cup
    {Reach("turn_context", text) : text \in Roots}
    \cup {Line("turn_context", "cwd" :> text) :
              text \in {Alias, Joined, InnerAlias, Spelled(Sub, {1})}}

OtherLines ==
    {Reach(type, text) : type \in {"session_meta", "thread_settings_applied"},
                         text \in {Old, Spelled(Sub, {1}), Alias} \cup ForeignPaths}
    \cup {Line("other", "message" :> text) : text \in Prose \cup Spellings(Old) \cup Spellings(Alias)}
    \cup {Line("malformed", "message" :> Old)}

Single == {Old, Spelled(Old, {1}), Elsewhere}
Recorded == Single \cup {Alias, Spelled(Alias, {1}), SubAlias}
Within == {Sub, Spelled(Sub, {1, 3, 5}), InnerAlias}

Files(firsts, seconds) == {<<a, b>> : a \in FirstLines(firsts), b \in seconds}

NoStructure == {<<Line("other", "message" :> Old)>>,
                <<Line("malformed", "cwd" :> Old), Line("other", "message" :> Old)>>}

(****************************** Databases *********************************)

Table(columns, rows) ==
    [columns |-> columns, kind |-> "table", withoutRowID |-> FALSE, rows |-> rows]

Threads == ("id" :> 1) @@ ("cwd" :> 0)
Roots49 == ("project_id" :> 1) @@ ("position" :> 2) @@ ("path" :> 0)
Queue == ("id" :> 1) @@ ("payload_json" :> 0)
Stage1 == ("thread_id" :> 1) @@ ("raw_memory" :> 0)

Empty == [threads |-> Table(Threads, <<>>), project_roots |-> Table(Roots49, <<>>),
          queued_items |-> Table(Queue, <<>>), stage1_outputs |-> Table(Stage1, <<>>)]

ThreadRow(id, cwd) == ("id" :> id) @@ ("cwd" :> cwd)
RootRow(id, path) == ("project_id" :> id) @@ ("position" :> 1) @@ ("path" :> path)
QueueRow(id, payload) == ("id" :> id) @@ ("payload_json" :> payload)
MemoryRow(id, memory) == ("thread_id" :> id) @@ ("raw_memory" :> memory)

Stored == {Old, Sub, Alias, SubAlias, InnerAlias, Null} \cup ForeignPaths

Filled ==
    {[Empty EXCEPT !.threads.rows = (1 :> ThreadRow(11, a)) @@ (2 :> ThreadRow(12, b))] :
        a \in Stored, b \in {Old, Elsewhere, Alias}}
    \cup
    {[Empty EXCEPT !.project_roots.rows = (1 :> RootRow(21, a)) @@ (2 :> RootRow(22, b))] :
        a \in Stored, b \in {Old, Elsewhere, Alias}}
    \cup
    {[Empty EXCEPT !.threads.rows = 1 :> ThreadRow(11, Old),
                   !.queued_items.rows = 1 :> QueueRow(31, a),
                   !.stage1_outputs.rows = 1 :> MemoryRow(11, b)] :
        a \in Stored, b \in {<<"s", " ">> \o Old \o <<".">>, Null}}

(* Schemas that lack a column, address rows otherwise, or shadow the rowid, *)
(* each with a row of the project.                                          *)
Strange(columns, key, column) ==
    LET row(names) == [name \in names |-> IF name = column THEN Old ELSE 19]
        with(declared) == Table(declared, 1 :> row(DOMAIN declared))
    IN {with([columns EXCEPT ![key] = 0]), Table(<<>>, <<>>),
        with([name \in DOMAIN columns |-> 1]),
        with(("rowid" :> 0) @@ columns),
        [with(columns) EXCEPT !.withoutRowID = TRUE],
        [with(columns) EXCEPT !.kind = "view"],
        with([name \in {key} |-> 1])}

StrangeStores ==
    LET home == [Empty EXCEPT !.threads.rows = 1 :> ThreadRow(11, Old)] IN
    {[home EXCEPT !.threads = t] : t \in Strange(Threads, "id", "cwd")}
    \cup {[home EXCEPT !.project_roots = t] : t \in Strange(Roots49, "project_id", "path")}
    \cup {[home EXCEPT !.queued_items = t] : t \in Strange(Queue, "id", "payload_json")}
    \cup {[home EXCEPT !.stage1_outputs = t] : t \in Strange(Stage1, "thread_id", "raw_memory")}

ElsewhereFile == <<Line("session_meta", "cwd" :> Elsewhere)>>

SessionRows ==
    {[table |-> "threads", key |-> "id", row |-> ThreadRow(13, p)] : p \in {Old, Elsewhere}}
    \cup {[table |-> "threads", key |-> "id", row |-> ThreadRow(11, Elsewhere)]}
    \cup {[table |-> "project_roots", key |-> "project_id", row |-> RootRow(23, p)] :
             p \in {Old, Elsewhere}}
    \cup {[table |-> "queued_items", key |-> "id", row |-> QueueRow(33, Elsewhere)]}

MoveRows(new, deep) ==
    [MoveTo(new, deep) EXCEPT !.trusted = FALSE, !.newLines = {}, !.newRows = SessionRows]

(******************************** Setups **********************************)

PassingSetups ==
    {[move |-> MoveTo(new, deep), lines |-> file, store |-> Empty] :
        new \in {NewPath, Repeating, Parting}, deep \in BOOLEAN,
        file \in Files(Recorded \cup Within, RootLines) \cup Files(Single \cup {Alias}, OtherLines)
                \cup NoStructure}
    \cup
    {[move |-> MoveRows(new, FALSE), lines |-> ElsewhereFile, store |-> home] :
        new \in {NewPath, Repeating}, home \in Filled \cup StrangeStores}
    \cup
    {[move |-> MoveRows(Repeating, TRUE), lines |-> file, store |-> home] :
        file \in Files({Old, Alias}, {Line("turn_context", "cwd" :> Alias)}),
        home \in {Empty} \cup {[Empty EXCEPT !.threads.rows = 1 :> ThreadRow(11, Old)]}}

(* No links: the project and a directory in it, by their own paths, moved   *)
(* to where the new path holds the old one.                                 *)
DoubleSetups ==
    {[move |-> [MoveTo(Repeating, FALSE) EXCEPT !.newLines = {}, !.links = <<>>],
      lines |-> <<first, Line("turn_context", "cwd" :> Sub)>>, store |-> Empty] :
        first \in FirstLines({Old})}

ForeignTexts == ForeignPaths
=============================================================================
