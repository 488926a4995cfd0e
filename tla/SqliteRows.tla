----------------------------- MODULE SqliteRows -----------------------------
(***************************************************************************)
(* The updates cc-port makes in a database of Codex                         *)
(* (internal/sqlrewrite/sqlrewrite.go). A table is its schema and its rows: *)
(*   columns       column name to its place in the primary key, 0 for none  *)
(*   kind          "table" or "view"                                        *)
(*   withoutRowID  declared WITHOUT ROWID                                   *)
(*   rows          rowid to the row, a row being column name to value       *)
(* A value is a text as a sequence of bytes, or Null.                       *)
(***************************************************************************)
EXTENDS PathRewrite

Null == <<>>

requireColumns(table, columns) ==
    DOMAIN table.columns # {} /\ columns \subseteq DOMAIN table.columns

requirePrimaryKeyAndColumns(table, primaryKeyColumn, columns) ==
    /\ requireColumns(table, columns \cup {primaryKeyColumn})
    /\ table.columns[primaryKeyColumn] = 1
    /\ \A name \in DOMAIN table.columns \ {primaryKeyColumn} : table.columns[name] = 0

\* A declared column named rowid would be updated in place of the real one.
requireRowIDTableAndColumns(table, columns) ==
    /\ requireColumns(table, columns)
    /\ "rowid" \notin DOMAIN table.columns
    /\ table.kind = "table" /\ ~table.withoutRowID

NotUpdated(table) == [ok |-> FALSE, table |-> table, count |-> 0]

\* UPDATE ... SET: the columns of values, in the rows of hit.
WithValues(table, hit, values) ==
    [table EXCEPT !.rows = [r \in DOMAIN table.rows |->
        IF r \in hit
        THEN [column \in DOMAIN table.rows[r] |->
                 IF column \in DOMAIN values THEN values[column]
                 ELSE table.rows[r][column]]
        ELSE table.rows[r]]]

(* A bug to catch: the row is written whatever it holds by now.             *)
updateWhateverItHolds(table, addressed, values, expected) ==
    [ok |-> TRUE, count |-> Cardinality(addressed),
     table |-> WithValues(table, addressed, values)]

(* One UPDATE of the addressed rows that hold every expected value. A       *)
(* comparison with NULL never holds.                                        *)
updateColumnsWhere(table, addressed, values, expected) ==
    LET hit == {r \in addressed : \A column \in DOMAIN expected :
                   /\ table.rows[r][column] # Null
                   /\ table.rows[r][column] = expected[column]}
    IN [ok |-> TRUE, count |-> Cardinality(hit),
        table |-> WithValues(table, hit, values)]

refuseNilExpectedValues(expected) ==
    \A column \in DOMAIN expected : expected[column] # Null

UpdateColumnsByKey(table, primaryKeyColumn, key, values, expected) ==
    IF /\ DOMAIN values # {} /\ refuseNilExpectedValues(expected)
       /\ requirePrimaryKeyAndColumns(table, primaryKeyColumn,
                                      DOMAIN values \cup DOMAIN expected)
    THEN updateColumnsWhere(table,
             {r \in DOMAIN table.rows : table.rows[r][primaryKeyColumn] = key},
             values, expected)
    ELSE NotUpdated(table)

(* SQLite may have given a freed rowid to another row: a value has to be    *)
(* expected of it.                                                          *)
UpdateColumnsByRowID(table, rowID, values, expected) ==
    IF /\ DOMAIN values # {} /\ DOMAIN expected # {} /\ refuseNilExpectedValues(expected)
       /\ requireRowIDTableAndColumns(table, DOMAIN values \cup DOMAIN expected)
    THEN updateColumnsWhere(table, DOMAIN table.rows \cap {rowID}, values, expected)
    ELSE NotUpdated(table)

CountTextColumnRO(table, column, oldPath) ==
    Cardinality({r \in DOMAIN table.rows :
                    ReplacePathInBytes(table.rows[r][column], oldPath, oldPath).count > 0})

(* Every row is read once and written back by its primary key.              *)
RewriteTextColumn(table, primaryKeyColumn, column, oldPath, newPath) ==
    LET rewritten(r) == ReplacePathInBytes(table.rows[r][column], oldPath, newPath)
    IN IF requirePrimaryKeyAndColumns(table, primaryKeyColumn, {column})
       THEN [ok |-> TRUE, count |-> CountTextColumnRO(table, column, oldPath),
             table |-> [table EXCEPT !.rows = [r \in DOMAIN table.rows |->
                           [table.rows[r] EXCEPT ![column] = rewritten(r).data]]]]
       ELSE NotUpdated(table)
=============================================================================
