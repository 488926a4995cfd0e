-------------------------- MODULE References_proofs -------------------------
(***************************************************************************)
(* Proofs about References: what a move writes in the rows of the databases *)
(* of Codex and what it leaves alone in a rollout, for every home, every    *)
(* spelling and every resolution of paths; and about the loops over bytes   *)
(* it is made of.                                                           *)
(***************************************************************************)
EXTENDS References, SequenceTheorems, FiniteSetTheorems, WellFoundedInduction, TLAPS

(***************************************************************************)
(* The inductive invariant                                                 *)
(***************************************************************************)

StateTables == stateDBPathColumns
Targets == stateDBPathColumns \cup {queueTarget}

Looked == pc \in {"planned", "state", "queue", "applied"}
Opened == pc \in {"state", "queue", "applied"}

\* The rewrite the plan makes of a row it has read.
RewriteOf(target, r) ==
    [target |-> target, key |-> KeyOf(target, seen[target.table], r),
     oldValue |-> seen[target.table].rows[r][target.column],
     newValue |-> MovedTo(seen[target.table].rows[r][target.column])]

(* A move is one of those asked for.                                        *)
Asked == \E setup \in Setups : move = setup.move

Record(table) ==
    table = [columns |-> table.columns, kind |-> table.kind,
             withoutRowID |-> table.withoutRowID, rows |-> table.rows]

Shaped(databases) ==
    /\ databases = [name \in DOMAIN databases |-> databases[name]]
    /\ \A target \in Targets :
          LET table == databases[target.table] IN
          /\ target.table \in DOMAIN databases
          /\ Record(table)

SameSchema(one, other) ==
    \A target \in Targets :
        /\ one[target.table].columns = other[target.table].columns
        /\ one[target.table].kind = other[target.table].kind
        /\ one[target.table].withoutRowID = other[target.table].withoutRowID

(* The databases keep their schema, and the plan has read one it accepts.   *)
SchemaStays ==
    /\ pc # "done" => Shaped(store)
    /\ pc = "plan" => \E setup \in Setups : store = setup.store
    /\ Looked => /\ \A target \in Targets :
                       /\ requireSchema(target, seen[target.table])
                       /\ IsTable(seen[target.table])
                       /\ KeysAreUnique(target, seen[target.table])
                 /\ SameSchema(store, seen)
    /\ Opened => Shaped(opened) /\ SameSchema(opened, seen)

(* The plan rewrites the rows of the project it has read, and no others.    *)
PlanIsExact ==
    Looked =>
        /\ \A w \in rowPlan :
              /\ w.oldValue # Null
              /\ \/ w.target = queueTarget
                 \/ /\ w.target \in StateTables /\ InProject(w.oldValue)
                    /\ \E r \in DOMAIN seen[w.target.table].rows :
                          w = RewriteOf(w.target, r)
        /\ \A target \in StateTables : \A r \in DOMAIN seen[target.table].rows :
              InProject(seen[target.table].rows[r][target.column]) =>
                  RewriteOf(target, r) \in rowPlan

(* A row is written only if it names the project.                           *)
OthersUntouched ==
    Opened => \A target \in StateTables :
        LET rows == store[target.table].rows
            now == opened[target.table].rows
        IN /\ DOMAIN now = DOMAIN rows
           /\ \A r \in DOMAIN rows :
                 now[r] = rows[r] \/ InProject(rows[r][target.column])

(* A row the plan knew is as it was until its rewrite is written, and then  *)
(* it names the place the project moves to.                                 *)
RowInProgress(target, r) ==
    LET row == store[target.table].rows[r]
        now == opened[target.table].rows[r]
    IN /\ DOMAIN now = DOMAIN seen[target.table].rows[r]
       /\ KeyOf(target, opened[target.table], r) = KeyOf(target, seen[target.table], r)
       /\ RewriteOf(target, r) \in pending => now = row
       /\ RewriteOf(target, r) \notin pending => now[target.column] = MovedTo(row[target.column])

Kept(target, r) ==
    /\ r \in DOMAIN store[target.table].rows \cap DOMAIN seen[target.table].rows
    /\ store[target.table].rows[r] = seen[target.table].rows[r]
    /\ InProject(store[target.table].rows[r][target.column])

RowsInProgress ==
    Opened => \A target \in StateTables : \A r \in DOMAIN store[target.table].rows :
        Kept(target, r) => RowInProgress(target, r)

(* The surfaces come in order, and the move is over when all are written.   *)
Ordered ==
    /\ Opened => pending \subseteq rowPlan
    /\ pc \in {"queue", "applied"} => \A w \in pending : w.target \notin StateTables
    /\ outcome = "moved" => pc = "done"
    /\ pc = "plan" => removed = FALSE
    /\ failure.cause = "schema" => failure.table = memories.table

IInv ==
    /\ Asked
    /\ SchemaStays
    /\ PlanIsExact
    /\ OthersUntouched
    /\ RowsInProgress
    /\ Ordered

(***************************************************************************)
(* The operators                                                           *)
(***************************************************************************)

\* The row an update writes: that of its key, while it holds what was read.
Hits(table, w, r) ==
    /\ KeyOf(w.target, table, r) = w.key
    /\ table.rows[r][w.target.column] # Null
    /\ table.rows[r][w.target.column] = w.oldValue

RowWith(row, column, value) ==
    [c \in DOMAIN row |-> IF c = column THEN value ELSE row[c]]

WritesOnly(table, written, hit, column, value) ==
    /\ Record(written)
    /\ written.columns = table.columns
    /\ written.kind = table.kind
    /\ written.withoutRowID = table.withoutRowID
    /\ DOMAIN written.rows = DOMAIN table.rows
    /\ \A r \in DOMAIN table.rows :
          /\ r \notin hit => written.rows[r] = table.rows[r]
          /\ r \in hit => written.rows[r] = RowWith(table.rows[r], column, value)

LEMMA WithValuesWrites ==
    ASSUME NEW table, Record(table), NEW hit, NEW column, NEW values,
           DOMAIN values = {column}
    PROVE  WritesOnly(table, WithValues(table, hit, values), hit, column, values[column])
  <1> DEFINE rows == [r \in DOMAIN table.rows |->
                         IF r \in hit
                         THEN [c \in DOMAIN table.rows[r] |->
                                 IF c \in DOMAIN values THEN values[c]
                                 ELSE table.rows[r][c]]
                         ELSE table.rows[r]]
             written == WithValues(table, hit, values)
  <1>1. written = [table EXCEPT !.rows = rows]
    BY DEF WithValues
  <1>2. written = [columns |-> table.columns, kind |-> table.kind,
                   withoutRowID |-> table.withoutRowID, rows |-> rows]
    <2> HIDE DEF rows, written
    <2> QED BY <1>1 DEF Record
  <1>3. \A r \in DOMAIN table.rows : r \in hit =>
            rows[r] = RowWith(table.rows[r], column, values[column])
    BY DEF RowWith
  <1>4. \A r \in DOMAIN table.rows : r \notin hit => rows[r] = table.rows[r]
    OBVIOUS
  <1>5. DOMAIN rows = DOMAIN table.rows
    OBVIOUS
  <1> HIDE DEF rows, written
  <1>6. QED BY <1>2, <1>3, <1>4, <1>5 DEF written, Record, WritesOnly

(* An update writes the rows it hits, and nothing else of the table.        *)
LEMMA UpdateWrites ==
    ASSUME NEW table, Record(table), NEW w, Update(table, w).ok
    PROVE  WritesOnly(table, Update(table, w).table,
                      {r \in DOMAIN table.rows : Hits(table, w, r)},
                      w.target.column, w.newValue)
  <1> DEFINE column == w.target.column
             values == [c \in {column} |-> w.newValue]
             expected == [c \in {column} |-> w.oldValue]
             holds(r) == \A c \in DOMAIN expected :
                             table.rows[r][c] # Null /\ table.rows[r][c] = expected[c]
             hits == {r \in DOMAIN table.rows : Hits(table, w, r)}
  <1>1. \A addressed :
            updateColumnsWhere(table, addressed, values, expected).table
                = WithValues(table, {r \in addressed : holds(r)}, values)
    BY DEF updateColumnsWhere
  <1>2. ~NotUpdated(table).ok
    BY DEF NotUpdated
  <1>3. \A r : holds(r) <=> table.rows[r][column] # Null
                            /\ table.rows[r][column] = w.oldValue
    OBVIOUS
  <1>4. Update(table, w).table = WithValues(table, hits, values)
    <2>1. CASE w.target.key = "rowid"
      <3>1. Update(table, w) = UpdateColumnsByRowID(table, w.key, values, expected)
        BY <2>1 DEF Update
      <3>2. Update(table, w) = updateColumnsWhere(table, DOMAIN table.rows \cap {w.key},
                                                  values, expected)
        BY <3>1, <1>2 DEF UpdateColumnsByRowID
      <3>3. \A r \in DOMAIN table.rows : Hits(table, w, r) <=> r = w.key /\ holds(r)
        BY <2>1, <1>3 DEF Hits, KeyOf
      <3> HIDE DEF holds, values, expected, hits
      <3>4. hits = {r \in DOMAIN table.rows \cap {w.key} : holds(r)}
        BY <3>3 DEF hits
      <3>5. QED BY <3>2, <3>4, <1>1
    <2>2. CASE w.target.key # "rowid"
      <3> DEFINE addressed == {r \in DOMAIN table.rows :
                                  table.rows[r][w.target.key] = w.key}
      <3>1. Update(table, w) = UpdateColumnsByKey(table, w.target.key, w.key, values, expected)
        BY <2>2 DEF Update
      <3>2. Update(table, w) = updateColumnsWhere(table, addressed, values, expected)
        BY <3>1, <1>2 DEF UpdateColumnsByKey
      <3>3. \A r \in DOMAIN table.rows : Hits(table, w, r) <=> r \in addressed /\ holds(r)
        BY <2>2, <1>3 DEF Hits, KeyOf
      <3> HIDE DEF holds, values, expected, hits
      <3>4. hits = {r \in addressed : holds(r)}
        BY <3>3 DEF hits
      <3>5. QED BY <3>2, <3>4, <1>1
    <2>3. QED BY <2>1, <2>2
  <1>5. DOMAIN values = {column} /\ values[column] = w.newValue
    OBVIOUS
  <1> HIDE DEF hits, values, column
  <1>6. WritesOnly(table, WithValues(table, hits, values), hits, column, values[column])
    BY <1>5, WithValuesWrites
  <1>7. WritesOnly(table, Update(table, w).table, hits, column, w.newValue)
    BY <1>4, <1>5, <1>6
  <1>8. QED BY <1>7 DEF hits, column

(* What the plan requires of a schema is what the update will require.      *)
LEMMA UpdateIsAccepted ==
    ASSUME NEW table, NEW w, requireSchema(w.target, table), w.oldValue # Null
    PROVE  Update(table, w).ok
  <1> DEFINE column == w.target.column
             values == [c \in {column} |-> w.newValue]
             expected == [c \in {column} |-> w.oldValue]
  <1>1. DOMAIN values = {column} /\ DOMAIN expected = {column}
    OBVIOUS
  <1>2. refuseNilExpectedValues(expected)
    BY DEF refuseNilExpectedValues
  <1>3. \A addressed : updateColumnsWhere(table, addressed, values, expected).ok
    BY DEF updateColumnsWhere
  <1> HIDE DEF values, expected
  <1>4. DOMAIN values \cup DOMAIN expected = {column} /\ DOMAIN values # {}
            /\ DOMAIN expected # {}
    BY <1>1
  <1>5. CASE w.target.key = "rowid"
    <2>1. Update(table, w) = UpdateColumnsByRowID(table, w.key, values, expected)
      BY <1>5 DEF Update, values, expected
    <2>2. requireRowIDTableAndColumns(table, DOMAIN values \cup DOMAIN expected)
      BY <1>4, <1>5 DEF requireSchema
    <2>3. QED BY <2>1, <2>2, <1>2, <1>3, <1>4 DEF UpdateColumnsByRowID
  <1>6. CASE w.target.key # "rowid"
    <2>1. Update(table, w) = UpdateColumnsByKey(table, w.target.key, w.key, values, expected)
      BY <1>6 DEF Update, values, expected
    <2>2. requirePrimaryKeyAndColumns(table, w.target.key, DOMAIN values \cup DOMAIN expected)
      BY <1>4, <1>6 DEF requireSchema
    <2>3. QED BY <2>1, <2>2, <1>2, <1>3, <1>4 DEF UpdateColumnsByKey
  <1>7. QED BY <1>5, <1>6

(* Three tables, three targets: a table tells the target.                   *)
LEMMA TargetsAreTables ==
    /\ \A one, other \in Targets : one.table = other.table => one = other
    /\ queueTarget \notin StateTables
    /\ \A target \in Targets : /\ target.table # memories.table
                               /\ target.column # target.key
  BY DEF Targets, StateTables, stateDBPathColumns, queueTarget, memories

LEMMA PathsHaveBytes ==
    \A path : IsPath(path) => Len(path) \in Nat /\ Len(path) > 0
  BY DEF IsPath, IsText

(* The empty text, which stands for NULL, names nothing of a project.       *)
LEMMA NullIsOutside ==
    ASSUME Asked
    PROVE  ~InProject(Null)
  <1>1. PICK setup \in Setups : move = setup.move
    BY DEF Asked
  <1>2. /\ IsPath(move.old)
        /\ \A link \in DOMAIN move.links : IsPath(link)
        /\ \A directory \in move.directories : IsPath(directory)
    BY <1>1, PathsAssumption
  <1>3. Len(Null) = 0
    BY DEF Null
  <1>4. \A path : IsPath(path) => Len(path) \in Nat /\ Len(path) > 0
    BY PathsHaveBytes
  <1>5. \A path : Len(path) \in Nat /\ Len(path) > 0 => ~HasPrefix(Null, path)
    BY <1>3 DEF HasPrefix
  <1>6. \A link \in DOMAIN move.links : ~IsBoundaryDescendant(link, Null)
    BY <1>2, <1>4, <1>5 DEF IsBoundaryDescendant
  <1>7. Resolved(move, Null, FALSE) = Null
    BY <1>6 DEF Resolved
  <1> DEFINE project == Resolved(move, move.old, FALSE)
  <1>8. project \in move.directories \/ project = move.old
    BY DEF Resolved
  <1>9. IsPath(project)
    BY <1>8, <1>2
  <1> HIDE DEF project
  <1>10. project # Null
    BY <1>9 DEF IsPath, Null
  <1>11. Len(project \o <<Slash>>) \in Nat /\ Len(project \o <<Slash>>) > 0
    <2> DEFINE S == {project[i] : i \in DOMAIN project}
    <2>1. project \in Seq(S \cup {Slash})
      BY <1>9, SeqMonotonic DEF IsPath, IsText
    <2>2. <<Slash>> \in Seq(S \cup {Slash}) /\ Len(<<Slash>>) = 1
      OBVIOUS
    <2> HIDE DEF S
    <2>3. Len(project \o <<Slash>>) = Len(project) + 1
      BY <2>1, <2>2
    <2>4. QED BY <2>3, <2>1
  <1>12. QED
    BY <1>7, <1>10, <1>11, <1>5 DEF InProject, NamesProject, project

\* Before the directory leaves, the rows that match are those of the project.
LEMMA MatchingRows ==
    ASSUME Asked, removed = FALSE, NEW target, NEW table
    PROVE  matchingColumnValues(target, table)
               = {r \in DOMAIN table.rows : InProject(table.rows[r][target.column])}
  <1>1. \A path : pathMatchesProject(path, move.old) <=> InProject(path)
    BY DEF pathMatchesProject, canonicalizePath, InProject, NamesProject
  <1>2. QED
    BY <1>1, NullIsOutside DEF matchingColumnValues

LEMMA MatchingRewrites ==
    ASSUME Asked, removed = FALSE, NEW target, NEW table
    PROVE  LET made(r) == [target |-> target, key |-> KeyOf(target, table, r),
                           oldValue |-> table.rows[r][target.column],
                           newValue |-> MovedTo(table.rows[r][target.column])]
           IN /\ \A r \in DOMAIN table.rows : InProject(table.rows[r][target.column]) =>
                     made(r) \in matchingPathRewrites(target, table)
              /\ \A w \in matchingPathRewrites(target, table) :
                     \E r \in DOMAIN table.rows :
                         InProject(table.rows[r][target.column]) /\ w = made(r)
  <1>1. \A path : ReplaceBoundedPrefix(canonicalizePath(path),
                                       canonicalizePath(move.old), move.new) = MovedTo(path)
    BY DEF ReplaceBoundedPrefix, canonicalizePath, MovedTo
  <1>2. \A r : r \in matchingColumnValues(target, table) <=>
               r \in DOMAIN table.rows /\ InProject(table.rows[r][target.column])
    BY MatchingRows
  <1>3. QED
    BY <1>1, <1>2 DEF matchingPathRewrites

\* A queued path that is matched is not empty.
LEMMA QueuedRewrites ==
    ASSUME Asked, NEW table, NEW w \in matchingQueuedItems(table)
    PROVE  w.target = queueTarget /\ w.oldValue # Null
  <1>1. PICK setup \in Setups : move = setup.move
    BY DEF Asked
  <1>2. Len(move.old) \in Nat /\ Len(move.old) > 0
    BY <1>1, PathsAssumption, PathsHaveBytes
  <1>3. Len(Null) = 0
    BY DEF Null
  <1>4. ~IsBoundaryDescendant(move.old, Null)
    BY <1>2, <1>3 DEF IsBoundaryDescendant, HasPrefix
  <1>5. QED
    BY <1>4 DEF matchingQueuedItems

\* What a path means depends on the move alone.
LEMMA MoveDecides ==
    ASSUME move' = move
    PROVE  /\ \A path : InProject(path)' <=> InProject(path)
           /\ \A path : MovedTo(path)' = MovedTo(path)
           /\ seen' = seen => \A target, r : RewriteOf(target, r)' = RewriteOf(target, r)
           /\ Asked => Asked'
  <1>1. \A path : InProject(path)' <=> InProject(path)
    BY DEF InProject, NamesProject
  <1>2. \A path : MovedTo(path)' = MovedTo(path)
    BY DEF MovedTo
  <1>3. seen' = seen => \A target, r : RewriteOf(target, r)' = RewriteOf(target, r)
    BY <1>2 DEF RewriteOf, KeyOf
  <1>4. Asked => Asked'
    BY DEF Asked
  <1>5. QED BY <1>1, <1>2, <1>3, <1>4

(***************************************************************************)
(* The steps                                                               *)
(***************************************************************************)

LEMMA InitHolds == Init => IInv
  <1> SUFFICES ASSUME Init PROVE IInv
    OBVIOUS
  <1>1. PICK setup \in Setups : InitRollout(setup) /\ store = setup.store
    BY DEF Init
  <1>2. Asked
    BY <1>1 DEF Asked, InitRollout
  <1>3. pc = "plan" /\ outcome = "none" /\ removed = FALSE
    BY <1>1 DEF InitRollout
  <1>4. ~Looked /\ ~Opened
    BY <1>3 DEF Looked, Opened
  <1>5. Shaped(store)
    BY <1>1, DatabasesAssumption DEF Shaped, Targets, IsTable, Record
  <1>6. SchemaStays
    BY <1>1, <1>4, <1>5 DEF SchemaStays
  <1>7. failure.cause # "schema"
    BY DEF Init, NoFailure
  <1>8. QED
    BY <1>2, <1>3, <1>4, <1>6, <1>7
    DEF IInv, PlanIsExact, OthersUntouched, RowsInProgress, Ordered

dbVars == <<move, store, rowPlan, pending, opened, seen, failure>>

\* A step that leaves the databases alone and reaches no stage of them.
LEMMA DatabasesAside ==
    ASSUME IInv, UNCHANGED dbVars,
           Looked' => Looked, Opened' => Opened,
           pc' = "plan" => pc = "plan" /\ removed' = FALSE,
           pc' # "done" => pc # "done",
           pc' \in {"queue", "applied"} => \A w \in pending : w.target \notin StateTables,
           outcome' = "moved" => pc' = "done"
    PROVE  IInv'
  <1>1. /\ move' = move /\ store' = store /\ rowPlan' = rowPlan
        /\ pending' = pending /\ opened' = opened /\ seen' = seen /\ failure' = failure
    BY DEF dbVars
  <1>2. Asked'
    BY <1>1, MoveDecides DEF IInv
  <1>3. SchemaStays'
    BY <1>1 DEF IInv, SchemaStays, Shaped, SameSchema
  <1>4. PlanIsExact'
    BY <1>1, MoveDecides DEF IInv, PlanIsExact
  <1>5. OthersUntouched'
    BY <1>1, MoveDecides DEF IInv, OthersUntouched
  <1>6. RowsInProgress'
    <2>1. RowsInProgress
      BY DEF IInv
    <2>2. \A target, r : RowInProgress(target, r) => RowInProgress(target, r)'
      BY <1>1, MoveDecides DEF RowInProgress, KeyOf
    <2>3. \A target, r : Kept(target, r)' => Kept(target, r)
      BY <1>1, MoveDecides DEF Kept
    <2>4. QED BY <1>1, <2>1, <2>2, <2>3 DEF RowsInProgress
  <1>7. Ordered'
    BY <1>1 DEF IInv, Ordered
  <1>8. QED
    BY <1>2, <1>3, <1>4, <1>5, <1>6, <1>7 DEF IInv

\* Nothing is asked of the databases once the command is through.
LEMMA Over ==
    ASSUME IInv, move' = move, pc' = "done",
           failure'.cause = "schema" => failure'.table = memories.table
    PROVE  IInv'
  <1>1. ~Looked' /\ ~Opened'
    BY DEF Looked, Opened
  <1>2. Asked'
    BY MoveDecides DEF IInv
  <1>3. QED
    BY <1>1, <1>2
    DEF IInv, SchemaStays, PlanIsExact, OthersUntouched, RowsInProgress, Ordered

LEMMA PlanHolds == IInv /\ Plan => IInv'
  <1> SUFFICES ASSUME IInv, Plan PROVE IInv'
    OBVIOUS
  <1>1. pc = "plan" /\ removed = FALSE
    BY DEF Plan, IInv, Ordered
  <1>2. /\ pc' = "planned" /\ move' = move /\ store' = store /\ seen' = store
        /\ failure' = failure /\ outcome' = outcome
    BY DEF Plan, PlanRollout
  <1>3. PICK setup \in Setups : store = setup.store
    BY <1>1 DEF IInv, SchemaStays
  <1>4. Looked' /\ ~Opened'
    BY <1>2 DEF Looked, Opened
  <1>5. Asked'
    BY <1>2, MoveDecides DEF IInv
  <1>6. \A target \in Targets : requireSchema(target, store[target.table])
    BY DEF Plan, RefusedSchema, Targets
  <1>7. \A target \in Targets : /\ IsTable(store[target.table])
                                /\ KeysAreUnique(target, store[target.table])
    BY <1>3, DatabasesAssumption DEF Targets
  <1>8. SchemaStays'
    BY <1>1, <1>2, <1>4, <1>6, <1>7 DEF IInv, SchemaStays, SameSchema, Shaped
  <1>9. PlanIsExact'
    <2>1. rowPlan' = (UNION {matchingPathRewrites(t, store[t.table]) : t \in StateTables})
                     \cup matchingQueuedItems(store[queueTarget.table])
      BY DEF Plan, StateTables
    <2>2. \A target, r :
              RewriteOf(target, r)' =
                  [target |-> target, key |-> KeyOf(target, store[target.table], r),
                   oldValue |-> store[target.table].rows[r][target.column],
                   newValue |-> MovedTo(store[target.table].rows[r][target.column])]
      BY <1>2, MoveDecides DEF RewriteOf, KeyOf
    <2>3. ASSUME NEW target \in StateTables, NEW r \in DOMAIN store[target.table].rows,
                 InProject(store[target.table].rows[r][target.column])
          PROVE  RewriteOf(target, r)' \in rowPlan'
      <3>1. RewriteOf(target, r)' \in matchingPathRewrites(target, store[target.table])
        BY <2>2, <2>3, <1>1, MatchingRewrites DEF IInv
      <3>2. QED BY <3>1, <2>1
    <2>4. ASSUME NEW w \in rowPlan'
          PROVE  /\ w.oldValue # Null
                 /\ \/ w.target = queueTarget
                    \/ /\ w.target \in StateTables /\ InProject(w.oldValue)
                       /\ \E r \in DOMAIN store[w.target.table].rows :
                             w = RewriteOf(w.target, r)'
      <3>1. CASE w \in matchingQueuedItems(store[queueTarget.table])
        BY <3>1, QueuedRewrites DEF IInv
      <3>2. CASE \E t \in StateTables : w \in matchingPathRewrites(t, store[t.table])
        <4>1. PICK t \in StateTables : w \in matchingPathRewrites(t, store[t.table])
          BY <3>2
        <4>2. PICK r \in DOMAIN store[t.table].rows :
                  /\ InProject(store[t.table].rows[r][t.column])
                  /\ w = RewriteOf(t, r)'
          BY <4>1, <2>2, <1>1, MatchingRewrites DEF IInv
        <4>3. w.target = t /\ w.oldValue = store[t.table].rows[r][t.column]
          BY <4>2, <2>2
        <4>4. w.oldValue # Null
          BY <4>2, <4>3, NullIsOutside DEF IInv
        <4>5. QED BY <4>2, <4>3, <4>4
      <3>3. QED BY <3>1, <3>2, <2>1
    <2>5. QED
      BY <2>3, <2>4, <1>2, MoveDecides DEF PlanIsExact
  <1>10. OthersUntouched' /\ RowsInProgress'
    BY <1>4 DEF OthersUntouched, RowsInProgress
  <1>11. Ordered'
    BY <1>2, <1>4, <1>1 DEF IInv, Ordered
  <1>12. QED
    BY <1>5, <1>8, <1>9, <1>10, <1>11 DEF IInv

\* A table of the databases replaced by one of the same schema.
ReplacesOnly(databases, changed, name, table) ==
    /\ Shaped(changed)
    /\ SameSchema(changed, databases)
    /\ \A target \in Targets :
          /\ target.table = name => changed[target.table] = table
          /\ target.table # name => changed[target.table] = databases[target.table]

HasSchemaOf(table, other) ==
    Record(other) => /\ Record(table)
                     /\ table.columns = other.columns
                     /\ table.kind = other.kind
                     /\ table.withoutRowID = other.withoutRowID

LEMMA TableReplaced ==
    ASSUME NEW databases, Shaped(databases), NEW name, NEW table,
           HasSchemaOf(table, databases[name])
    PROVE  ReplacesOnly(databases, [databases EXCEPT ![name] = table], name, table)
  <1> DEFINE changed == [databases EXCEPT ![name] = table]
  <1>1. /\ databases = [n \in DOMAIN databases |-> databases[n]]
        /\ \A target \in Targets :
              target.table \in DOMAIN databases /\ Record(databases[target.table])
    BY DEF Shaped
  <1>2. DOMAIN changed = DOMAIN databases
    OBVIOUS
  <1>3. changed = [n \in DOMAIN databases |-> IF n = name THEN table ELSE databases[n]]
    BY <1>1
  <1>4. changed = [n \in DOMAIN changed |-> changed[n]]
    BY <1>3
  <1> HIDE DEF changed
  <1>5. \A target \in Targets :
           /\ target.table = name => changed[target.table] = table
           /\ target.table # name => changed[target.table] = databases[target.table]
    BY <1>1, <1>3
  <1>6. \A target \in Targets : Record(changed[target.table])
    BY <1>1, <1>5 DEF HasSchemaOf
  <1>7. Shaped(changed)
    BY <1>1, <1>2, <1>4, <1>6 DEF Shaped
  <1>8. SameSchema(changed, databases)
    BY <1>1, <1>5 DEF SameSchema, HasSchemaOf
  <1>9. QED
    BY <1>5, <1>7, <1>8 DEF changed, ReplacesOnly

LEMMA SessionHolds == IInv /\ SessionChangesRows => IInv'
  <1> SUFFICES ASSUME IInv, SessionChangesRows PROVE IInv'
    OBVIOUS
  <1>1. PICK name, rows : store' = [store EXCEPT ![name].rows = rows]
    BY DEF SessionChangesRows
  <1>2. /\ pc = "planned" /\ pc' = pc /\ move' = move /\ rowPlan' = rowPlan
        /\ seen' = seen /\ failure' = failure /\ outcome' = outcome
    BY DEF SessionChangesRows, rolloutVars
  <1>3. Looked /\ Looked' /\ ~Opened'
    BY <1>2 DEF Looked, Opened
  <1> DEFINE table == [store[name] EXCEPT !.rows = rows]
  <1>4. store' = [store EXCEPT ![name] = table]
    BY <1>1
  <1>5. HasSchemaOf(table, store[name])
    BY DEF Record, HasSchemaOf
  <1> HIDE DEF table
  <1>6. Shaped(store)
    BY <1>2 DEF IInv, SchemaStays
  <1>7. Shaped(store') /\ SameSchema(store', store)
    BY <1>4, <1>5, <1>6, TableReplaced DEF ReplacesOnly
  <1>8. SameSchema(store', seen)
    BY <1>3, <1>7 DEF IInv, SchemaStays, SameSchema
  <1>9. SchemaStays'
    BY <1>2, <1>3, <1>7, <1>8 DEF IInv, SchemaStays, Shaped, SameSchema
  <1>10. PlanIsExact'
    BY <1>2, <1>3, MoveDecides DEF IInv, PlanIsExact
  <1>11. OthersUntouched' /\ RowsInProgress'
    BY <1>3 DEF OthersUntouched, RowsInProgress
  <1>12. Asked' /\ Ordered'
    BY <1>2, <1>3, MoveDecides DEF IInv, Ordered
  <1>13. QED
    BY <1>9, <1>10, <1>11, <1>12 DEF IInv

LEMMA OpenHolds == IInv /\ OpenDatabases => IInv'
  <1> SUFFICES ASSUME IInv, OpenDatabases PROVE IInv'
    OBVIOUS
  <1>1. /\ pc = "planned" /\ pc' = "state" /\ move' = move /\ rowPlan' = rowPlan
        /\ seen' = seen /\ failure' = failure /\ outcome' = outcome
        /\ store' = store /\ opened' = store /\ pending' = rowPlan
    BY DEF OpenDatabases, CapturedRows
  <1>2. Looked /\ Looked' /\ Opened'
    BY <1>1 DEF Looked, Opened
  <1>3. SchemaStays'
    BY <1>1, <1>2 DEF IInv, SchemaStays, Shaped, SameSchema
  <1>4. PlanIsExact'
    BY <1>1, <1>2, MoveDecides DEF IInv, PlanIsExact
  <1>5. OthersUntouched'
    BY <1>1, MoveDecides DEF OthersUntouched
  <1>6. RowsInProgress'
    <2> SUFFICES ASSUME NEW target \in StateTables, NEW r, Kept(target, r)'
                 PROVE  RowInProgress(target, r)'
      BY DEF RowsInProgress
    <2>1. Kept(target, r)
      BY <1>1, MoveDecides DEF Kept
    <2>2. KeyOf(target, store[target.table], r) = KeyOf(target, seen[target.table], r)
      BY <2>1 DEF KeyOf, Kept
    <2>3. RewriteOf(target, r) \in rowPlan
      BY <1>2, <2>1 DEF IInv, PlanIsExact, Kept
    <2>4. KeyOf(target, opened'[target.table], r) = KeyOf(target, seen'[target.table], r)
      BY <2>2, <1>1
    <2>5. QED
      BY <1>1, <2>1, <2>3, <2>4, MoveDecides DEF RowInProgress, Kept, KeyOf
  <1>7. Asked' /\ Ordered'
    BY <1>1, <1>2, MoveDecides DEF IInv, Ordered
  <1>8. QED
    BY <1>3, <1>4, <1>5, <1>6, <1>7 DEF IInv

\* The update of a planned row is never refused for its schema.
LEMMA PlannedUpdatesAreAccepted ==
    ASSUME IInv, Opened, NEW w \in pending
    PROVE  Update(opened[w.target.table], w).ok
  <1>1. w \in rowPlan /\ Looked
    BY DEF IInv, Ordered, Opened, Looked
  <1>2. w.oldValue # Null /\ w.target \in Targets
    BY <1>1 DEF IInv, PlanIsExact, Targets, StateTables
  <1>3. requireSchema(w.target, seen[w.target.table])
    BY <1>1, <1>2 DEF IInv, SchemaStays
  <1> DEFINE table == opened[w.target.table]
             read == seen[w.target.table]
  <1>4. /\ table.columns = read.columns /\ table.kind = read.kind
        /\ table.withoutRowID = read.withoutRowID
    BY <1>2 DEF IInv, SchemaStays, SameSchema
  <1> HIDE DEF table, read
  <1>5. requireSchema(w.target, read) => requireSchema(w.target, table)
    BY <1>4 DEF requireSchema, requireRowIDTableAndColumns, requirePrimaryKeyAndColumns,
                requireColumns
  <1>6. QED
    BY <1>2, <1>3, <1>5, UpdateIsAccepted DEF table, read

\* A row the plan knew, and the rewrites that may write it.
LEMMA RewritesTellRows ==
    ASSUME IInv, Looked, NEW target \in StateTables, NEW w \in rowPlan, w.target = target,
           NEW r \in DOMAIN seen[target.table].rows,
           w.key = KeyOf(target, seen[target.table], r)
    PROVE  w = RewriteOf(target, r)
  <1>1. target \in Targets /\ target # queueTarget
    BY TargetsAreTables DEF Targets, StateTables
  <1>2. PICK q \in DOMAIN seen[target.table].rows : w = RewriteOf(target, q)
    BY <1>1 DEF IInv, PlanIsExact
  <1>3. KeyOf(target, seen[target.table], q) = KeyOf(target, seen[target.table], r)
    BY <1>2 DEF RewriteOf
  <1>4. CASE target.key = "rowid"
    BY <1>2, <1>3, <1>4 DEF KeyOf
  <1>5. CASE target.key # "rowid"
    <2>1. requireSchema(target, seen[target.table]) /\ KeysAreUnique(target, seen[target.table])
      BY <1>1 DEF IInv, SchemaStays
    <2>2. r = q
      BY <2>1, <1>3, <1>5 DEF KeysAreUnique, requireSchema, KeyOf
    <2>3. QED BY <2>2, <1>2
  <1>6. QED BY <1>4, <1>5

\* The columns a target names are columns of every row the plan has read.
LEMMA ColumnsAreThere ==
    ASSUME IInv, Looked, NEW target \in StateTables,
           NEW r \in DOMAIN seen[target.table].rows
    PROVE  /\ target.column \in DOMAIN seen[target.table].rows[r]
           /\ target.key # "rowid" => target.key \in DOMAIN seen[target.table].rows[r]
  <1>1. target \in Targets
    BY DEF Targets, StateTables
  <1>2. requireSchema(target, seen[target.table]) /\ IsTable(seen[target.table])
    BY <1>1 DEF IInv, SchemaStays
  <1>3. DOMAIN seen[target.table].rows[r] = DOMAIN seen[target.table].columns
    BY <1>2 DEF IsTable
  <1>4. QED
    BY <1>2, <1>3 DEF requireSchema, requireRowIDTableAndColumns,
                      requirePrimaryKeyAndColumns, requireColumns

LEMMA RowWritten ==
    ASSUME IInv, Opened, pc' = pc, NEW w \in pending,
           Update(opened[w.target.table], w).ok,
           opened' = [opened EXCEPT ![w.target.table] = Update(opened[w.target.table], w).table],
           pending' = pending \ {w},
           UNCHANGED <<move, store, rowPlan, seen, failure, outcome, removed>>
    PROVE  IInv'
  <1> DEFINE table == opened[w.target.table]
             hit == {r \in DOMAIN table.rows : Hits(table, w, r)}
             written == Update(table, w).table
  <1>1. /\ move' = move /\ store' = store /\ rowPlan' = rowPlan /\ seen' = seen
        /\ failure' = failure /\ outcome' = outcome /\ removed' = removed
    OBVIOUS
  <1>2. Looked /\ Looked' /\ Opened'
    BY DEF Opened, Looked
  <1>3. w \in rowPlan /\ w.target \in Targets
    BY <1>2 DEF IInv, Ordered, PlanIsExact, Targets, StateTables
  <1>4. Shaped(opened) /\ SameSchema(opened, seen) /\ Record(table)
    BY <1>3 DEF IInv, SchemaStays, Shaped
  <1>5. WritesOnly(table, written, hit, w.target.column, w.newValue)
    BY <1>4, UpdateWrites
  <1> HIDE DEF table, hit, written
  <1>6. /\ Shaped(opened') /\ SameSchema(opened', opened)
        /\ \A target \in Targets :
              /\ target.table = w.target.table => opened'[target.table] = written
              /\ target.table # w.target.table =>
                    opened'[target.table] = opened[target.table]
    <2>1. Record(written) /\ written.columns = table.columns /\ written.kind = table.kind
          /\ written.withoutRowID = table.withoutRowID
      BY <1>5 DEF WritesOnly
    <2> DEFINE name == w.target.table
    <2>2. opened' = [opened EXCEPT ![name] = written]
      BY DEF written, table
    <2>3. table = opened[name]
      BY DEF table
    <2> HIDE DEF name
    <2>4. HasSchemaOf(written, opened[name])
      BY <2>1, <2>3 DEF HasSchemaOf
    <2>5. ReplacesOnly(opened, [opened EXCEPT ![name] = written], name, written)
      BY <2>4, <1>4, TableReplaced
    <2>6. ReplacesOnly(opened, opened', name, written)
      BY <2>2, <2>5
    <2>7. QED BY <2>6 DEF name, ReplacesOnly
  <1>7. \A target \in Targets :
           /\ target = w.target => opened'[target.table] = written
           /\ target # w.target => opened'[target.table] = opened[target.table]
    BY <1>3, <1>6, TargetsAreTables
  <1>8. SchemaStays'
    <2>1. SameSchema(opened', seen)
      BY <1>4, <1>6 DEF SameSchema
    <2>2. SchemaStays
      BY DEF IInv
    <2>3. pc \notin {"plan", "done"}
      BY DEF Opened
    <2>4. QED
      BY <1>1, <1>2, <1>6, <2>1, <2>2, <2>3 DEF SchemaStays
  <1>9. PlanIsExact'
    BY <1>1, <1>2, MoveDecides DEF IInv, PlanIsExact
  <1>10. \A r \in DOMAIN table.rows :
            /\ ~Hits(table, w, r) => written.rows[r] = table.rows[r]
            /\ Hits(table, w, r) =>
                  written.rows[r] = RowWith(table.rows[r], w.target.column, w.newValue)
    BY <1>5 DEF WritesOnly, hit
  <1>11. DOMAIN written.rows = DOMAIN table.rows
    BY <1>5 DEF WritesOnly
  <1>12. OthersUntouched'
    <2> SUFFICES ASSUME NEW target \in StateTables
                 PROVE  /\ DOMAIN opened'[target.table].rows = DOMAIN store[target.table].rows
                        /\ \A r \in DOMAIN store[target.table].rows :
                              \/ opened'[target.table].rows[r] = store[target.table].rows[r]
                              \/ InProject(store[target.table].rows[r][target.column])
      BY <1>1, MoveDecides DEF OthersUntouched
    <2>1. target \in Targets
      BY DEF Targets, StateTables
    <2>2. /\ DOMAIN opened[target.table].rows = DOMAIN store[target.table].rows
          /\ \A r \in DOMAIN store[target.table].rows :
                \/ opened[target.table].rows[r] = store[target.table].rows[r]
                \/ InProject(store[target.table].rows[r][target.column])
      BY DEF IInv, OthersUntouched
    <2>3. CASE target # w.target
      BY <2>1, <2>2, <2>3, <1>7
    <2>4. CASE target = w.target
      <3>1. opened'[target.table] = written /\ opened[target.table] = table
        BY <2>1, <2>4, <1>7 DEF table
      <3>2. InProject(w.oldValue)
        BY <1>2, <1>3, <2>4, TargetsAreTables DEF IInv, PlanIsExact
      <3>3. \A r \in DOMAIN table.rows : Hits(table, w, r) =>
                table.rows[r][target.column] = w.oldValue
        BY <2>4 DEF Hits
      <3>4. QED
        BY <3>1, <3>2, <3>3, <2>2, <1>10, <1>11
    <2>5. QED BY <2>3, <2>4
  <1>13. RowsInProgress'
    <2> SUFFICES ASSUME NEW target \in StateTables, NEW r, Kept(target, r)'
                 PROVE  RowInProgress(target, r)'
      BY DEF RowsInProgress
    <2>a. Kept(target, r)
      BY <1>1, MoveDecides DEF Kept
    <2>b. /\ r \in DOMAIN store[target.table].rows
          /\ r \in DOMAIN seen[target.table].rows
          /\ store[target.table].rows[r] = seen[target.table].rows[r]
      BY <2>a DEF Kept
    <2> DEFINE mine == RewriteOf(target, r)
               now == opened[target.table]
               row == now.rows[r]
               then == seen[target.table]
               new == opened'[target.table]
    <2>c. SUFFICES /\ DOMAIN new.rows[r] = DOMAIN then.rows[r]
                   /\ KeyOf(target, new, r) = KeyOf(target, then, r)
                   /\ mine \in pending' => new.rows[r] = then.rows[r]
                   /\ mine \notin pending' =>
                         new.rows[r][target.column] = MovedTo(then.rows[r][target.column])
      BY <1>1, <2>b, MoveDecides DEF RowInProgress, KeyOf
    <2>1. /\ DOMAIN row = DOMAIN then.rows[r]
          /\ KeyOf(target, now, r) = KeyOf(target, then, r)
          /\ mine \in pending => row = then.rows[r]
          /\ mine \notin pending =>
                row[target.column] = MovedTo(then.rows[r][target.column])
      BY <2>a, <2>b DEF IInv, RowsInProgress, RowInProgress
    <2>2. target \in Targets /\ target.column # target.key
      BY TargetsAreTables DEF Targets, StateTables
    <2>3. CASE target # w.target
      <3>1. new = now
        BY <2>2, <2>3, <1>7
      <3>2. mine # w
        BY <2>3 DEF RewriteOf
      <3>3. QED
        BY <2>1, <3>1, <3>2
    <2>4. CASE target = w.target /\ w = mine
      <3>1. new = written /\ now = table
        BY <2>2, <2>4, <1>7 DEF table
      <3>2. row = then.rows[r]
        BY <2>1, <2>4
      <3>a. /\ mine.key = KeyOf(target, then, r)
            /\ mine.oldValue = then.rows[r][target.column]
            /\ mine.newValue = MovedTo(then.rows[r][target.column])
        BY DEF RewriteOf
      <3>3. w.key = KeyOf(target, then, r) /\ w.oldValue = then.rows[r][target.column]
            /\ w.newValue = MovedTo(then.rows[r][target.column])
        BY <2>4, <3>a
      <3>4. w.oldValue # Null
        BY <1>2, <1>3 DEF IInv, PlanIsExact
      <3>5. Hits(table, w, r)
        BY <2>1, <2>4, <3>1, <3>2, <3>3, <3>4 DEF Hits
      <3>6. r \in DOMAIN table.rows
        BY <3>1, <2>b DEF IInv, OthersUntouched
      <3>7. written.rows[r] = RowWith(row, target.column, w.newValue)
        BY <3>1, <3>5, <3>6, <2>4, <1>10
      <3>8. target.column \in DOMAIN row /\ (target.key # "rowid" => target.key \in DOMAIN row)
        BY <1>2, <2>1, <2>b, ColumnsAreThere
      <3>9. DOMAIN written.rows[r] = DOMAIN row
        BY <3>7 DEF RowWith
      <3>10. written.rows[r][target.column] = w.newValue
        BY <3>7, <3>8 DEF RowWith
      <3>11. target.key # "rowid" => written.rows[r][target.key] = row[target.key]
        BY <3>7, <3>8, <2>2 DEF RowWith
      <3>12. KeyOf(target, written, r) = KeyOf(target, now, r)
        BY <3>11 DEF KeyOf
      <3>13. mine \notin pending'
        BY <2>4
      <3>14. QED
        BY <3>1, <3>3, <3>9, <3>10, <3>12, <3>13, <2>1
    <2>5. CASE target = w.target /\ w # mine
      <3>1. new = written /\ now = table
        BY <2>2, <2>5, <1>7 DEF table
      <3>2. w.key # KeyOf(target, then, r)
        BY <2>5, <2>b, <1>2, <1>3, RewritesTellRows
      <3>3. ~Hits(table, w, r)
        BY <2>1, <2>5, <3>1, <3>2 DEF Hits
      <3>4. r \in DOMAIN table.rows
        BY <3>1, <2>b DEF IInv, OthersUntouched
      <3>5. written.rows[r] = row
        BY <3>1, <3>3, <3>4, <1>10
      <3>6. KeyOf(target, written, r) = KeyOf(target, now, r)
        BY <3>5 DEF KeyOf
      <3>7. mine \in pending' <=> mine \in pending
        BY <2>5
      <3>8. QED
        BY <3>1, <3>5, <3>6, <3>7, <2>1
    <2>6. QED BY <2>3, <2>4, <2>5
  <1>14. Ordered'
    BY <1>1, <1>2 DEF IInv, Ordered, Opened
  <1>15. Asked'
    BY <1>1, MoveDecides DEF IInv
  <1>16. QED
    BY <1>8, <1>9, <1>12, <1>13, <1>14, <1>15 DEF IInv

LEMMA FailsOnHolds ==
    ASSUME IInv, move' = move, NEW name, NEW cause, FailsOn(name, cause),
           cause = "schema" => name = memories.table
    PROVE  IInv'
  <1>1. pc' = "done" /\ failure' = [table |-> name, cause |-> cause]
    BY DEF FailsOn, End
  <1>2. QED
    BY <1>1, Over

LEMMA WriteRowHolds ==
    ASSUME IInv, Opened, NEW w \in pending, WriteRow(w),
           UNCHANGED <<move, store, rowPlan, seen, removed>>
    PROVE  IInv'
  <1>1. Update(opened[w.target.table], w).ok
    BY PlannedUpdatesAreAccepted
  <1>2. CASE UNCHANGED <<failure, pc, outcome>>
             /\ opened' = [opened EXCEPT ![w.target.table] =
                              Update(opened[w.target.table], w).table]
             /\ pending' = pending \ {w}
    BY <1>1, <1>2, RowWritten
  <1>3. CASE FailsOn(w.target.table, "changed")
    BY <1>3, FailsOnHolds
  <1>4. QED
    BY <1>1, <1>2, <1>3 DEF WriteRow

LEMMA MemoriesHold == IInv /\ rewriteStage1TextColumns => IInv'
  <1> SUFFICES ASSUME IInv, rewriteStage1TextColumns PROVE IInv'
    OBVIOUS
  <1> DEFINE name == memories.table
  <1>1. /\ pc = "state" /\ move' = move /\ store' = store /\ rowPlan' = rowPlan
        /\ seen' = seen /\ removed' = removed
        /\ \A rewrite \in pending : rewrite.target \notin StateTables
    BY DEF rewriteStage1TextColumns, StateTables
  <1>2. PICK table : \/ /\ opened' = [opened EXCEPT ![name] = table] /\ pc' = "queue"
                        /\ pending' = pending /\ failure' = failure /\ outcome' = outcome
                     \/ FailsOn(name, "schema")
    BY DEF rewriteStage1TextColumns
  <1>3. CASE FailsOn(name, "schema")
    BY <1>1, <1>3, FailsOnHolds
  <1>4. CASE /\ opened' = [opened EXCEPT ![name] = table] /\ pc' = "queue"
             /\ pending' = pending /\ failure' = failure /\ outcome' = outcome
    <2>1. Looked /\ Looked' /\ Opened /\ Opened'
      BY <1>1, <1>4 DEF Looked, Opened
    <2>2. Shaped(opened) /\ SameSchema(opened, seen)
      BY <2>1 DEF IInv, SchemaStays
    <2>3. \A target \in Targets : target.table # name
      BY TargetsAreTables
    <2> HIDE DEF name
    <2>4. \A target \in Targets : opened'[target.table] = opened[target.table]
      BY <1>4, <2>2, <2>3 DEF Shaped
    <2>5. opened' = [n \in DOMAIN opened' |-> opened'[n]] /\ DOMAIN opened' = DOMAIN opened
      BY <1>4, <2>2 DEF Shaped
    <2>6. Shaped(opened') /\ SameSchema(opened', seen)
      BY <2>2, <2>4, <2>5 DEF Shaped, SameSchema
    <2>7. SchemaStays'
      BY <1>1, <1>4, <2>1, <2>6 DEF IInv, SchemaStays, Shaped, SameSchema
    <2>8. PlanIsExact'
      BY <1>1, <2>1, MoveDecides DEF IInv, PlanIsExact
    <2>9. \A target \in StateTables : target \in Targets
      BY DEF Targets, StateTables
    <2>10. OthersUntouched'
      BY <1>1, <2>1, <2>4, <2>9, MoveDecides DEF IInv, OthersUntouched
    <2>11. RowsInProgress'
      <3> SUFFICES ASSUME NEW target \in StateTables, NEW r, Kept(target, r)'
                   PROVE  RowInProgress(target, r)'
        BY DEF RowsInProgress
      <3>1. Kept(target, r)
        BY <1>1, MoveDecides DEF Kept
      <3>2. RowInProgress(target, r)
        BY <2>1, <3>1 DEF IInv, RowsInProgress, Kept
      <3>3. opened'[target.table] = opened[target.table]
        BY <2>4, <2>9
      <3>4. QED
        BY <1>1, <1>4, <3>2, <3>3, MoveDecides DEF RowInProgress, KeyOf
    <2>12. Asked' /\ Ordered'
      BY <1>1, <1>4, <2>1, MoveDecides DEF IInv, Ordered
    <2>13. QED
      BY <2>7, <2>8, <2>10, <2>11, <2>12 DEF IInv
  <1>5. QED BY <1>2, <1>3, <1>4

LEMMA NextHolds == IInv /\ [Next]_vars => IInv'
  <1> SUFFICES ASSUME IInv, [Next]_vars PROVE IInv'
    OBVIOUS
  <1>1. CASE Plan
    BY <1>1, PlanHolds
  <1>2. CASE RefusePlan
    <2>1. move' = move /\ pc' = "done" /\ failure' = failure
      BY <1>2 DEF RefusePlan, Refuse, End, rowVars
    <2>2. QED BY <2>1, Over DEF IInv, Ordered
  <1>3. CASE SessionWritesLines
    <2>1. UNCHANGED dbVars /\ pc = "planned" /\ pc' = pc /\ outcome' = outcome
      BY <1>3 DEF SessionWritesLines, SessionAppends, rowVars, dbVars
    <2>2. QED BY <2>1, DatabasesAside DEF IInv, Ordered, Looked, Opened
  <1>4. CASE SessionChangesRows
    BY <1>4, SessionHolds
  <1>5. CASE DirectoryLeaves
    <2>1. UNCHANGED dbVars /\ pc = "planned" /\ pc' = pc /\ outcome' = outcome
      BY <1>5 DEF DirectoryLeaves, OtherToolMoves, rowVars, dbVars
    <2>2. QED BY <2>1, DatabasesAside DEF IInv, Ordered, Looked, Opened
  <1>6. CASE OpenDatabases
    BY <1>6, OpenHolds
  <1>7. CASE WriteStateRow
    <2>1. PICK w \in pending : WriteRow(w)
      BY <1>7 DEF WriteStateRow
    <2>2. Opened /\ UNCHANGED <<move, store, rowPlan, seen, removed>>
      BY <1>7 DEF WriteStateRow, Opened
    <2>3. QED BY <2>1, <2>2, WriteRowHolds
  <1>8. CASE rewriteStage1TextColumns
    BY <1>8, MemoriesHold
  <1>9. CASE WriteQueueRow
    <2>1. PICK w \in pending : WriteRow(w)
      BY <1>9 DEF WriteQueueRow
    <2>2. Opened /\ UNCHANGED <<move, store, rowPlan, seen, removed>>
      BY <1>9 DEF WriteQueueRow, Opened
    <2>3. QED BY <2>1, <2>2, WriteRowHolds
  <1>10. CASE RewriteRollout
    <2>1. UNCHANGED dbVars /\ pc = "queue" /\ pc' = "applied" /\ outcome' = outcome
          /\ pending = {}
      BY <1>10 DEF RewriteRollout, Apply, rowVars, dbVars
    <2>2. QED BY <2>1, DatabasesAside DEF IInv, Ordered, Looked, Opened
  <1>11. CASE Commit
    <2>1. move' = move /\ pc' = "done" /\ failure' = failure
      BY <1>11 DEF Commit, End
    <2>2. QED BY <2>1, Over DEF IInv, Ordered
  <1>12. CASE Fail
    <2>1. move' = move /\ pc' = "done" /\ failure' = failure
      BY <1>12 DEF Fail, RestoreRollout, End
    <2>2. QED BY <2>1, Over DEF IInv, Ordered
  <1>13. CASE UNCHANGED vars
    <2>1. UNCHANGED dbVars /\ pc' = pc /\ outcome' = outcome /\ removed' = removed
      BY <1>13 DEF vars, rolloutVars, rowVars, dbVars
    <2>2. QED BY <2>1, DatabasesAside DEF IInv, Ordered, Looked, Opened
  <1>14. QED
    BY <1>1, <1>2, <1>3, <1>4, <1>5, <1>6, <1>7, <1>8, <1>9, <1>10, <1>11, <1>12, <1>13
    DEF Next

(* The databases keep their schema, the captured rewrites are those of the  *)
(* rows the plan read of the project, and each transaction has written what *)
(* its surfaces are through with, and nothing else.                         *)
THEOREM ReferencesInvariant == Spec => []IInv
  <1>1. Init => IInv
    BY InitHolds
  <1>2. IInv /\ [Next]_vars => IInv'
    BY NextHolds
  <1>3. QED
    BY <1>1, <1>2, PTL DEF Spec

(* The apply never meets a schema it refuses in a state or queue database:  *)
(* the plan, which asked first, refused the move.                           *)
THEOREM SchemasAreSettled == Spec => []SchemaRefusedByThePlan
  <1>1. IInv => SchemaRefusedByThePlan
    BY DEF IInv, Ordered, SchemaRefusedByThePlan
  <1>2. QED
    BY <1>1, ReferencesInvariant, PTL

\* A move succeeds in one step only.
LEMMA OnlyCommitMoves ==
    ASSUME IInv, Next, outcome' = "moved"
    PROVE  pc = "applied" /\ store' = opened
  <1>1. outcome = "moved" => pc = "done"
    BY DEF IInv, Ordered
  <1>2. CASE Commit
    BY <1>2 DEF Commit
  <1>3. CASE Plan \/ SessionWritesLines \/ SessionChangesRows \/ DirectoryLeaves
             \/ OpenDatabases \/ RewriteRollout
    <2>1. outcome' = outcome /\ pc # "done"
      BY <1>3 DEF Plan, PlanRollout, SessionWritesLines, SessionAppends, SessionChangesRows,
                  DirectoryLeaves, OtherToolMoves, OpenDatabases, RewriteRollout, Apply,
                  rolloutVars
    <2>2. QED BY <2>1, <1>1
  <1>4. CASE WriteStateRow \/ WriteQueueRow
    <2>1. pc # "done" /\ \E w \in pending : WriteRow(w)
      BY <1>4 DEF WriteStateRow, WriteQueueRow
    <2>2. outcome' = outcome \/ outcome' = "failed"
      BY <2>1 DEF WriteRow, FailsOn, End
    <2>3. QED BY <2>1, <2>2, <1>1
  <1>5. CASE rewriteStage1TextColumns
    BY <1>5, <1>1 DEF rewriteStage1TextColumns, FailsOn, End
  <1>6. CASE RefusePlan \/ Fail
    BY <1>6 DEF RefusePlan, Refuse, Fail, RestoreRollout, End
  <1>7. QED
    BY <1>2, <1>3, <1>4, <1>5, <1>6 DEF Next

(* Every row that named the project when the plan looked and still did when *)
(* it was written names the same directory at its new place after the move, *)
(* by whatever name it called it and wherever the directory is by then.     *)
THEOREM RowsAreMoved == Spec => RowsFollowTheMove
  <1> DEFINE followed ==
                \A target \in stateDBPathColumns :
                    LET rows == store[target.table].rows
                        then == seen[target.table].rows
                    IN \A r \in DOMAIN rows \cap DOMAIN then :
                          rows[r] = then[r] /\ InProject(rows[r][target.column]) =>
                              store'[target.table].rows[r][target.column]
                                  = MovedTo(rows[r][target.column])
  <1>1. ASSUME IInv, Next, outcome' = "moved", NEW target \in StateTables, NEW r,
               Kept(target, r)
        PROVE  store'[target.table].rows[r][target.column]
                   = MovedTo(store[target.table].rows[r][target.column])
    <2>1. pc = "applied" /\ store' = opened
      BY <1>1, OnlyCommitMoves
    <2>2. Opened /\ r \in DOMAIN store[target.table].rows
      BY <2>1, <1>1 DEF Opened, Kept
    <2>3. RowInProgress(target, r)
      BY <2>2, <1>1 DEF IInv, RowsInProgress
    <2>4. RewriteOf(target, r).target = target
      BY DEF RewriteOf
    <2>5. RewriteOf(target, r) \notin pending
      BY <2>1, <2>4, <1>1 DEF IInv, Ordered
    <2>6. QED
      BY <2>1, <2>3, <2>5 DEF RowInProgress
  <1>2. IInv /\ [Next]_vars => [outcome' = "moved" => followed]_vars
    BY <1>1 DEF Kept, StateTables
  <1>3. QED
    BY <1>2, ReferencesInvariant, PTL DEF Spec, RowsFollowTheMove

(* A row of another directory is as it was, also where it has taken the     *)
(* rowid of one the plan knew.                                              *)
THEOREM OtherRowsAreLeft == Spec => OtherRowsStay
  <1> DEFINE left ==
                \A target \in stateDBPathColumns :
                    \A r \in DOMAIN store[target.table].rows :
                        LET row == store[target.table].rows[r] IN
                        outcome' = "moved" /\ ~InProject(row[target.column]) =>
                            store'[target.table].rows[r] = row
  <1>1. ASSUME IInv, Next, outcome' = "moved", NEW target \in StateTables,
               NEW r \in DOMAIN store[target.table].rows,
               ~InProject(store[target.table].rows[r][target.column])
        PROVE  store'[target.table].rows[r] = store[target.table].rows[r]
    <2>1. Opened /\ store' = opened
      BY <1>1, OnlyCommitMoves DEF Opened
    <2>2. QED
      BY <2>1, <1>1 DEF IInv, OthersUntouched
  <1>2. IInv /\ [Next]_vars => [left]_vars
    BY <1>1 DEF StateTables
  <1>3. QED
    BY <1>2, ReferencesInvariant, PTL DEF Spec, OtherRowsStay

(***************************************************************************)
(* The bytes of a text                                                     *)
(***************************************************************************)

(* A set of natural numbers has a least one, which is all the induction     *)
(* that loops over a text need.                                             *)
LEMMA LeastNatural ==
    ASSUME NEW T, T \subseteq Nat, T # {}
    PROVE  \E x \in T : \A y \in T : x <= y
  <1> DEFINE R == OpToRel(<, Nat)
  <1>1. \A i, j \in Nat : <<i, j>> \in R <=> i < j
    BY DEF OpToRel
  <1>2. IsWellFoundedOn(R, Nat)
    BY NatLessThanWellFounded
  <1> HIDE DEF R
  <1>3. PICK x \in T : \A y \in T : ~ (<<y, x>> \in R)
    BY <1>2, WFMin
  <1>4. \A y \in T : ~(y < x)
    BY <1>1, <1>3
  <1>5. \A y \in T : x \in Nat /\ y \in Nat
    OBVIOUS
  <1>6. QED
    BY <1>4, <1>5

(* A set that has 0 and every successor of a member has all numbers.        *)
LEMMA Induction ==
    ASSUME NEW S, 0 \in S, \A n \in Nat : n \in S => n + 1 \in S
    PROVE  Nat \subseteq S
  <1>1. SUFFICES ASSUME ~(Nat \subseteq S) PROVE FALSE
    OBVIOUS
  <1> DEFINE T == Nat \ S
  <1>2. T \subseteq Nat /\ T # {}
    BY <1>1
  <1>3. PICK x \in T : \A y \in T : x <= y
    <2> HIDE DEF T
    <2>1. QED BY <1>2, LeastNatural
  <1>4. x - 1 \in Nat /\ x - 1 \notin T
    BY <1>3
  <1>5. QED
    BY <1>4

LEMMA TextsHaveBytes ==
    ASSUME NEW text, IsText(text)
    PROVE  /\ Len(text) \in Nat
           /\ DOMAIN text = 1..Len(text)
           /\ text \in Seq({text[i] : i \in DOMAIN text})
  BY DEF IsText

(* What is left of a text from a place on is its byte there and the rest.   *)
LEMMA RestOfText ==
    ASSUME NEW text, IsText(text), NEW i \in 1..Len(text)
    PROVE  <<text[i]>> \o SubSeq(text, i + 1, Len(text)) = SubSeq(text, i, Len(text))
  <1> DEFINE S == {text[j] : j \in DOMAIN text}
  <1>1. text \in Seq(S) /\ Len(text) \in Nat
    BY TextsHaveBytes
  <1> HIDE DEF S
  <1>2. QED
    BY <1>1, SubSeqRecursiveFirst

LEMMA NothingLeft ==
    ASSUME NEW text, IsText(text), NEW i \in Nat, i > Len(text)
    PROVE  SubSeq(text, i, Len(text)) = <<>>
  <1>1. text \in Seq({text[j] : j \in DOMAIN text}) /\ Len(text) \in Nat
    BY TextsHaveBytes
  <1>2. QED
    BY <1>1, SubSeqEmpty

(* A text that holds the path nowhere is given back as it is: bytes, count  *)
(* and all (ReplacePathInBytes).                                            *)
LEMMA NothingReplaced ==
    ASSUME NEW text, IsText(text), NEW path, Len(path) \in Nat, NEW new,
           \A i \in 1..Len(text) : ~BoundedAt(text, path, i)
    PROVE  ReplacePathInBytes(text, path, new) = [data |-> text, count |-> 0]
  <1> DEFINE n == Len(text)
             last == Len(text) + Len(path) + 1
             rest(i) == [data |-> SubSeq(text, i, Len(text)), count |-> 0]
             Body(f, i) ==
               IF i > Len(text) THEN [data |-> <<>>, count |-> 0]
               ELSE IF BoundedAt(text, path, i)
               THEN LET tail == f[i + Len(path)]
                    IN [data |-> new \o tail.data, count |-> tail.count + 1]
               ELSE LET tail == f[i + 1]
                    IN [data |-> <<text[i]>> \o tail.data, count |-> tail.count]
             Solves(f) == f = [i \in 1..(Len(text) + Len(path) + 1) |-> Body(f, i)]
             loop == CHOOSE f : Solves(f)
  <1>1. n \in Nat /\ last \in Nat /\ n < last
    BY TextsHaveBytes
  <1>2. \A f : \A i \in Nat : i > n => Body(f, i) = rest(i)
    BY NothingLeft
  <1>3. \A f : \A i \in 1..n : f[i + 1] = rest(i + 1) => Body(f, i) = rest(i)
    <2>1. ASSUME NEW f, NEW i \in 1..n, f[i + 1] = rest(i + 1)
          PROVE  Body(f, i) = rest(i)
      <3>1. <<text[i]>> \o SubSeq(text, i + 1, Len(text)) = SubSeq(text, i, Len(text))
        BY RestOfText
      <3>2. f[i + 1].data = SubSeq(text, i + 1, Len(text)) /\ f[i + 1].count = 0
        BY <2>1
      <3>3. ~(i > Len(text)) /\ ~BoundedAt(text, path, i)
        BY <1>1
      <3>4. QED BY <3>1, <3>2, <3>3
    <2>2. QED BY <2>1
  <1> DEFINE found == [i \in 1..last |-> rest(i)]
  <1>4. Solves(found)
    <2>1. \A i \in 1..last : Body(found, i) = rest(i)
      <3>1. ASSUME NEW i \in 1..last PROVE Body(found, i) = rest(i)
        <4>1. CASE i > n
          BY <1>2, <4>1
        <4>2. CASE i <= n
          <5>1. i \in 1..n /\ i + 1 \in 1..last
            BY <1>1, <4>2
          <5>2. found[i + 1] = rest(i + 1)
            BY <5>1
          <5> HIDE DEF Body, rest, found, last, n
          <5>3. QED BY <1>3, <5>1, <5>2
        <4>3. QED BY <1>1, <4>1, <4>2
      <3>2. QED BY <3>1
    <2> HIDE DEF Body, rest
    <2>2. QED BY <2>1
  <1>5. Solves(loop)
    <2> HIDE DEF Solves
    <2>1. QED BY <1>4
  <1> HIDE DEF loop
  <1>6. \A i \in 1..last : loop[i] = Body(loop, i)
    <2> HIDE DEF Body
    <2>1. QED BY <1>5
  <1> DEFINE T == {k \in Nat : k <= n => loop[n + 1 - k] = rest(n + 1 - k)}
  <1>7. Nat \subseteq T
    <2> HIDE DEF Body, rest, n, last
    <2>1. 0 \in T
      <3>1. n + 1 - 0 \in 1..last /\ n + 1 - 0 > n /\ n + 1 - 0 \in Nat
        BY <1>1
      <3>2. QED BY <1>2, <1>6, <3>1
    <2>2. ASSUME NEW k \in Nat, k \in T PROVE k + 1 \in T
      <3>1. SUFFICES ASSUME k + 1 <= n PROVE loop[n + 1 - (k + 1)] = rest(n + 1 - (k + 1))
        OBVIOUS
      <3>2. /\ n + 1 - (k + 1) \in 1..n /\ n + 1 - (k + 1) \in 1..last
            /\ (n + 1 - (k + 1)) + 1 = n + 1 - k /\ k <= n
        BY <1>1, <3>1
      <3>3. loop[n + 1 - k] = rest(n + 1 - k)
        BY <2>2, <3>2
      <3>4. QED BY <1>3, <1>6, <3>2, <3>3
    <2> HIDE DEF T
    <2>3. QED BY <2>1, <2>2, Induction
  <1>8. loop[1] = rest(1)
    <2> HIDE DEF rest
    <2>1. n \in T /\ n + 1 - n = 1
      BY <1>1, <1>7
    <2>2. QED BY <1>1, <2>1
  <1>9. ReplacePathInBytes(text, path, new) = loop[1]
    BY DEF ReplacePathInBytes, loop
  <1>10. SubSeq(text, 1, Len(text)) = text
    BY TextsHaveBytes, SubSeqFull
  <1>11. QED
    BY <1>8, <1>9, <1>10

(* Where the name goes on, a match ends inside of a longer name.            *)
LEMMA LongerNamesStay ==
    ASSUME NEW text, IsText(text), NEW path, Len(path) \in Nat,
           NEW i \in 1..Len(text), NameGoesOn(text, i + Len(path))
    PROVE  ~BoundedAt(text, path, i)
  <1> DEFINE next == i + Len(path)
  <1>1. Len(text) \in Nat /\ next \in Nat
    BY TextsHaveBytes
  <1>2. PICK j \in next..Len(text) : /\ isPathContinuationByte(text[j])
                                     /\ \A k \in next..(j - 1) : text[k] = Dot
    BY DEF NameGoesOn
  <1>3. next <= Len(text) /\ j \in Nat
    BY <1>1, <1>2
  <1>4. text[j] # Dot
    BY <1>2 DEF isPathContinuationByte
  <1> DEFINE rest == {k \in next..Len(text) : text[k] # Dot}
  <1>5. j \in rest /\ \A k \in rest : j <= k /\ k \in Nat
    BY <1>1, <1>2, <1>4
  <1>6. Min(rest) = j
    <2> HIDE DEF rest
    <2>1. \A x \in rest : (\A y \in rest : x <= y) => x = j
      BY <1>3, <1>5
    <2>2. QED BY <1>5, <2>1 DEF Min
  <1>7. isExtensionDotAt(text, next)
    <2> HIDE DEF next
    <2>1. QED BY <1>2, <1>5, <1>6 DEF isExtensionDotAt
  <1>8. text[next] # Dot => j = next
    BY <1>1, <1>2, <1>3
  <1>9. QED
    BY <1>2, <1>3, <1>7, <1>8 DEF BoundedAt

(* The pieces of a flattened sequence stand one after another.              *)
PiecesStand(seqs, flat, at) ==
    /\ at \in [1..(Len(seqs) + 1) -> Nat \ {0}]
    /\ at[1] = 1 /\ at[Len(seqs) + 1] = Len(flat) + 1
    /\ \A k \in 1..Len(seqs) :
          /\ at[k + 1] = at[k] + Len(seqs[k])
          /\ \A j \in 1..Len(seqs[k]) : flat[at[k] + j - 1] = seqs[k][j]

(* A chain of concatenations exists, as long as the sequence.               *)
LEMMA ChainExists ==
    ASSUME NEW seqs, Len(seqs) \in Nat
    PROVE  \E f : f = [i \in 1..Len(seqs) |->
                          IF i = 1 THEN seqs[i] ELSE f[i - 1] \o seqs[i]]
  <1> DEFINE Body(f, i) == IF i = 1 THEN seqs[i] ELSE f[i - 1] \o seqs[i]
             Solves(f, k) == f = [i \in 1..k |-> Body(f, i)]
             T == {k \in Nat : \E f : Solves(f, k)}
  <1>1. 0 \in T
    <2>1. Solves(<<>>, 0)
      OBVIOUS
    <2>2. QED BY <2>1
  <1>2. ASSUME NEW k \in Nat, k \in T PROVE k + 1 \in T
    <2>1. PICK f : Solves(f, k)
      BY <1>2
    <2> DEFINE g == [i \in 1..(k + 1) |-> IF i = k + 1 THEN Body(f, i) ELSE f[i]]
    <2>2. \A i \in 1..k : f[i] = Body(f, i)
      <3> HIDE DEF Body
      <3>1. QED BY <2>1
    <2>3. \A i \in 1..(k + 1) : g[i] = Body(f, i)
      <3> HIDE DEF Body
      <3>1. QED BY <2>2
    <2>4. \A i \in 1..(k + 1) : Body(g, i) = Body(f, i)
      <3>1. ASSUME NEW i \in 1..(k + 1), i # 1 PROVE g[i - 1] = f[i - 1]
        <4>1. i - 1 \in 1..(k + 1) /\ i - 1 # k + 1
          BY <3>1
        <4> HIDE DEF Body
        <4>2. QED BY <4>1
      <3> HIDE DEF g
      <3>2. QED BY <3>1
    <2>5. g = [i \in 1..(k + 1) |-> g[i]]
      OBVIOUS
    <2>6. Solves(g, k + 1)
      <3> HIDE DEF Body, g
      <3>1. QED BY <2>3, <2>4, <2>5
    <2> HIDE DEF Solves
    <2>7. QED BY <2>6
  <1> HIDE DEF T
  <1>3. Len(seqs) \in T
    BY <1>1, <1>2, Induction
  <1>4. QED
    BY <1>3 DEF T

LEMMA FlattenedPieces ==
    ASSUME NEW X, NEW seqs \in Seq(Seq(X))
    PROVE  /\ FlattenSeq(seqs) \in Seq(X)
           /\ \E at : PiecesStand(seqs, FlattenSeq(seqs), at)
  <1> DEFINE n == Len(seqs)
             Solves(f) == f = [i \in 1..Len(seqs) |->
                                  IF i = 1 THEN seqs[i] ELSE f[i - 1] \o seqs[i]]
             chain == CHOOSE f : Solves(f)
             upTo == [k \in 0..n |-> IF k = 0 THEN <<>> ELSE chain[k]]
             Seqs == Seq(X)
  <1>1. n \in Nat /\ \A k \in 1..n : seqs[k] \in Seqs /\ Len(seqs[k]) \in Nat
    <2>1. n \in Nat /\ \A k \in 1..n : seqs[k] \in Seqs
      OBVIOUS
    <2>2. \A s \in Seqs : Len(s) \in Nat
      OBVIOUS
    <2> HIDE DEF Seqs, n
    <2>3. QED BY <2>1, <2>2
  <1>2. Solves(chain)
    <2>1. \E f : Solves(f)
      BY <1>1, ChainExists
    <2> HIDE DEF Solves
    <2>2. QED BY <2>1
  <1> HIDE DEF chain
  <1>3. \A k \in 1..n : chain[k] = IF k = 1 THEN seqs[k] ELSE chain[k - 1] \o seqs[k]
    BY <1>2
  <1>4. FlattenSeq(seqs) = upTo[n]
    <2>1. n = 0 => seqs = <<>>
      BY EmptySeq
    <2>2. n # 0 => FlattenSeq(seqs) = chain[n]
      BY DEF FlattenSeq, chain
    <2>3. n = 0 => FlattenSeq(seqs) = <<>>
      BY <2>1 DEF FlattenSeq
    <2>4. n \in 0..n
      BY <1>1
    <2>5. QED BY <2>2, <2>3, <2>4
  <1>5. \A s \in Seqs : <<>> \o s = s
    BY ConcatEmptySeq
  <1>6. \A k \in 1..n : upTo[k] = upTo[k - 1] \o seqs[k]
    <2>1. ASSUME NEW k \in 1..n PROVE upTo[k] = upTo[k - 1] \o seqs[k]
      <3>1. k \in 0..n /\ k - 1 \in 0..n /\ k # 0
        BY <1>1
      <3>2. CASE k = 1
        BY <1>1, <1>3, <1>5, <3>1, <3>2
      <3>3. CASE k # 1
        <4>1. k - 1 # 0
          BY <3>3
        <4>2. QED BY <1>3, <3>1, <3>3, <4>1
      <3>4. QED BY <3>2, <3>3
    <2>2. QED BY <2>1
  <1>7. upTo[0] = <<>>
    BY <1>1
  <1> HIDE DEF upTo, n
  <1> DEFINE S == {k \in Nat : k <= n => upTo[k] \in Seqs}
  <1>8. Nat \subseteq S
    <2>1. 0 \in S
      <3>1. <<>> \in Seqs
        BY EmptySeq
      <3>2. QED BY <1>7, <3>1
    <2>2. ASSUME NEW k \in Nat, k \in S PROVE k + 1 \in S
      <3>1. SUFFICES ASSUME k + 1 <= n PROVE upTo[k + 1] \in Seqs
        OBVIOUS
      <3>2. k <= n /\ k + 1 \in 1..n /\ (k + 1) - 1 = k
        BY <1>1, <3>1
      <3>3. upTo[k] \in Seqs /\ seqs[k + 1] \in Seqs /\ upTo[k + 1] = upTo[k] \o seqs[k + 1]
        BY <1>1, <1>6, <2>2, <3>2
      <3>4. QED BY <3>3, ConcatProperties
    <2> HIDE DEF S
    <2>3. QED BY <2>1, <2>2, Induction
  <1>9. \A k \in 0..n : upTo[k] \in Seqs /\ Len(upTo[k]) \in Nat
    <2>1. \A k \in 0..n : upTo[k] \in Seqs
      BY <1>1, <1>8
    <2>2. QED BY <2>1
  <1>10. \A k \in 1..n :
            /\ Len(upTo[k]) = Len(upTo[k - 1]) + Len(seqs[k])
            /\ \A x \in 1..Len(upTo[k - 1]) : upTo[k][x] = upTo[k - 1][x]
            /\ \A x \in 1..Len(seqs[k]) : upTo[k][Len(upTo[k - 1]) + x] = seqs[k][x]
    <2>1. ASSUME NEW k \in 1..n
          PROVE  /\ Len(upTo[k]) = Len(upTo[k - 1]) + Len(seqs[k])
                 /\ \A x \in 1..Len(upTo[k - 1]) : upTo[k][x] = upTo[k - 1][x]
                 /\ \A x \in 1..Len(seqs[k]) : upTo[k][Len(upTo[k - 1]) + x] = seqs[k][x]
      <3>1. /\ upTo[k - 1] \in Seq(X) /\ seqs[k] \in Seq(X)
            /\ upTo[k] = upTo[k - 1] \o seqs[k]
        <4>1. k - 1 \in 0..n
          BY <1>1
        <4>2. QED BY <1>1, <1>6, <1>9, <4>1
      <3> DEFINE one == upTo[k - 1]
                 two == seqs[k]
      <3>2. /\ Len(one) \in Nat /\ Len(two) \in Nat
            /\ Len(one \o two) = Len(one) + Len(two)
            /\ \A x \in 1..(Len(one) + Len(two)) :
                  (one \o two)[x] = IF x <= Len(one) THEN one[x] ELSE two[x - Len(one)]
        <4>1. one \in Seq(X) /\ two \in Seq(X)
          BY <3>1
        <4> HIDE DEF one, two
        <4>2. QED BY <4>1, ConcatProperties
      <3> HIDE DEF one, two
      <3>3. \A x \in 1..Len(one) : (one \o two)[x] = one[x]
        BY <3>2
      <3>4. ASSUME NEW x \in 1..Len(two) PROVE (one \o two)[Len(one) + x] = two[x]
        <4>1. /\ Len(one) + x \in 1..(Len(one) + Len(two))
              /\ ~(Len(one) + x <= Len(one)) /\ (Len(one) + x) - Len(one) = x
          BY <3>2
        <4>2. QED BY <3>2, <4>1
      <3>5. QED BY <3>1, <3>2, <3>3, <3>4 DEF one, two
    <2>2. QED BY <2>1
  <1> DEFINE Keeps(m) == \A k \in 0..m : /\ Len(upTo[k]) <= Len(upTo[m])
                                         /\ \A x \in 1..Len(upTo[k]) : upTo[m][x] = upTo[k][x]
             K == {m \in Nat : m <= n => Keeps(m)}
  <1>11. Nat \subseteq K
    <2>1. 0 \in K
      <3>1. Keeps(0)
        BY <1>1, <1>9
      <3>2. QED BY <3>1
    <2>2. ASSUME NEW m \in Nat, m \in K PROVE m + 1 \in K
      <3> HIDE DEF Keeps
      <3>1. SUFFICES ASSUME m + 1 <= n PROVE Keeps(m + 1)
        OBVIOUS
      <3> USE DEF Keeps
      <3>2. Keeps(m) /\ m + 1 \in 1..n /\ (m + 1) - 1 = m /\ m \in 0..n /\ m + 1 \in 0..n
        BY <1>1, <2>2, <3>1
      <3>3. /\ Len(upTo[m + 1]) = Len(upTo[m]) + Len(seqs[m + 1])
            /\ \A x \in 1..Len(upTo[m]) : upTo[m + 1][x] = upTo[m][x]
            /\ Len(seqs[m + 1]) \in Nat
        <4> DEFINE k == m + 1
        <4>1. k \in 1..n /\ k - 1 = m
          BY <3>2
        <4> HIDE DEF k
        <4>2. /\ Len(upTo[k]) = Len(upTo[k - 1]) + Len(seqs[k])
              /\ \A x \in 1..Len(upTo[k - 1]) : upTo[k][x] = upTo[k - 1][x]
              /\ Len(seqs[k]) \in Nat
          BY <1>1, <1>10, <4>1
        <4>3. QED BY <4>1, <4>2 DEF k
      <3>4. ASSUME NEW k \in 0..(m + 1)
            PROVE  /\ Len(upTo[k]) <= Len(upTo[m + 1])
                   /\ \A x \in 1..Len(upTo[k]) : upTo[m + 1][x] = upTo[k][x]
        <4>1. CASE k = m + 1
          <5>1. Len(upTo[k]) \in Nat
            BY <1>9, <3>2, <4>1
          <5>2. QED BY <4>1, <5>1
        <4>2. CASE k \in 0..m
          <5>1. Len(upTo[k]) \in Nat /\ Len(upTo[m]) \in Nat
            BY <1>9, <3>2, <4>2
          <5>2. /\ Len(upTo[k]) <= Len(upTo[m])
                /\ \A x \in 1..Len(upTo[k]) : upTo[m][x] = upTo[k][x]
            BY <3>2, <4>2
          <5>3. \A x \in 1..Len(upTo[k]) : x \in 1..Len(upTo[m])
            BY <5>1, <5>2
          <5>4. Len(upTo[m]) <= Len(upTo[m + 1])
            <6> DEFINE one == Len(upTo[m])
                       two == Len(seqs[m + 1])
                       both == Len(upTo[m + 1])
            <6>1. one \in Nat /\ two \in Nat /\ both = one + two
              BY <3>3, <5>1
            <6> HIDE DEF one, two, both
            <6>2. one <= both
              BY <6>1
            <6>3. QED BY <6>2 DEF one, both
          <5>5. Len(upTo[k]) <= Len(upTo[m + 1])
            BY <1>9, <3>2, <5>1, <5>2, <5>4
          <5>6. QED BY <3>3, <5>2, <5>3, <5>5
        <4>3. QED BY <4>1, <4>2
      <3>5. QED BY <3>4
    <2> HIDE DEF K
    <2>3. QED BY <2>1, <2>2, Induction
  <1>12. Keeps(n)
    BY <1>1, <1>11
  <1> DEFINE flat == upTo[n]
             at == [k \in 1..(n + 1) |-> Len(upTo[k - 1]) + 1]
  <1>13. PiecesStand(seqs, flat, at)
    <2>1. \A k \in 1..(n + 1) : k - 1 \in 0..n /\ Len(upTo[k - 1]) \in Nat
      BY <1>1, <1>9
    <2>2. at \in [1..(n + 1) -> Nat \ {0}]
      BY <2>1
    <2>3. at[1] = 1 /\ at[n + 1] = Len(flat) + 1
      <3>1. 1 \in 1..(n + 1) /\ n + 1 \in 1..(n + 1) /\ 1 - 1 = 0 /\ (n + 1) - 1 = n
        BY <1>1
      <3>2. QED BY <1>7, <3>1
    <2>4. ASSUME NEW k \in 1..n
          PROVE  /\ at[k + 1] = at[k] + Len(seqs[k])
                 /\ \A j \in 1..Len(seqs[k]) : flat[at[k] + j - 1] = seqs[k][j]
      <3>1. /\ k \in 1..(n + 1) /\ k + 1 \in 1..(n + 1) /\ (k + 1) - 1 = k
            /\ k \in 0..n /\ k - 1 \in 0..n
        BY <1>1
      <3>2. /\ Len(upTo[k]) = Len(upTo[k - 1]) + Len(seqs[k])
            /\ Len(upTo[k]) \in Nat /\ Len(upTo[k - 1]) \in Nat /\ Len(seqs[k]) \in Nat
        BY <1>1, <1>9, <1>10, <3>1
      <3>3. at[k + 1] = Len(upTo[k]) + 1 /\ at[k] = Len(upTo[k - 1]) + 1
        BY <3>1
      <3> HIDE DEF at
      <3>4. ASSUME NEW j \in 1..Len(seqs[k]) PROVE flat[at[k] + j - 1] = seqs[k][j]
        <4>1. /\ at[k] + j - 1 = Len(upTo[k - 1]) + j
              /\ Len(upTo[k - 1]) + j \in 1..Len(upTo[k])
          <5> DEFINE one == Len(upTo[k - 1])
                     two == Len(seqs[k])
                     both == Len(upTo[k])
          <5>1. /\ one \in Nat /\ two \in Nat /\ both = one + two /\ at[k] = one + 1
                /\ j \in 1..two
            BY <3>2, <3>3
          <5> HIDE DEF one, two, both
          <5>2. at[k] + j - 1 = one + j /\ one + j \in 1..both
            BY <5>1
          <5>3. QED BY <5>2 DEF one, both
        <4>2. flat[Len(upTo[k - 1]) + j] = upTo[k][Len(upTo[k - 1]) + j]
          BY <1>12, <3>1, <4>1
        <4>3. upTo[k][Len(upTo[k - 1]) + j] = seqs[k][j]
          BY <1>10
        <4>4. QED BY <4>1, <4>2, <4>3
      <3>5. at[k + 1] = at[k] + Len(seqs[k])
        <4> DEFINE one == Len(upTo[k - 1])
                   two == Len(seqs[k])
                   both == Len(upTo[k])
        <4>1. /\ one \in Nat /\ two \in Nat /\ both = one + two
              /\ at[k] = one + 1 /\ at[k + 1] = both + 1
          BY <3>2, <3>3
        <4> HIDE DEF one, two, both
        <4>2. at[k + 1] = at[k] + two
          BY <4>1
        <4>3. QED BY <4>2 DEF two
      <3>6. QED BY <3>4, <3>5
    <2> HIDE DEF at, flat
    <2>5. QED BY <2>2, <2>3, <2>4 DEF PiecesStand, n
  <1>14. upTo[n] \in Seq(X)
    BY <1>1, <1>9
  <1>15. QED
    BY <1>4, <1>13, <1>14

(* A path occurs in a text where each of its bytes does.                    *)
LEMMA OccursByteForByte ==
    ASSUME NEW text, IsText(text), NEW path, IsText(path), path # <<>>,
           NEW i \in Nat \ {0}
    PROVE  OccursAt(text, path, i) <=>
               /\ i + Len(path) - 1 <= Len(text)
               /\ \A k \in 1..Len(path) : text[i + k - 1] = path[k]
  <1> DEFINE n == Len(text)
             l == Len(path)
             S == {text[j] : j \in DOMAIN text}
             P == {path[j] : j \in DOMAIN path}
             part == SubSeq(text, i, i + l - 1)
  <1>1. n \in Nat /\ l \in Nat /\ DOMAIN text = 1..n /\ path \in Seq(P) /\ DOMAIN path = 1..l
    BY TextsHaveBytes
  <1>2. SUFFICES ASSUME i + l - 1 <= n
                 PROVE  part = path <=> \A k \in 1..l : text[i + k - 1] = path[k]
    BY <1>1 DEF OccursAt
  <1>3. \A k \in i..(i + l - 1) : text[k] \in S
    BY <1>1, <1>2
  <1>4. /\ part \in Seq(S)
        /\ Len(part) = IF i <= i + l - 1 THEN (i + l - 1) - i + 1 ELSE 0
        /\ \A k \in 1..((i + l - 1) - i + 1) : part[k] = text[i + k - 1]
    <2> DEFINE end == i + l - 1
    <2>1. i \in Int /\ end \in Int /\ \A k \in i..end : text[k] \in S
      BY <1>1, <1>3
    <2> HIDE DEF end, S
    <2>2. /\ SubSeq(text, i, end) \in Seq(S)
          /\ Len(SubSeq(text, i, end)) = IF i <= end THEN end - i + 1 ELSE 0
          /\ \A k \in 1..(end - i + 1) : SubSeq(text, i, end)[k] = text[i + k - 1]
      BY <2>1, SubSeqProperties
    <2>3. QED BY <2>2 DEF end
  <1> HIDE DEF part, n, l, S, P
  <1>5. (i + l - 1) - i + 1 = l /\ Len(part) = l
    BY <1>1, <1>4
  <1>6. \A k \in 1..l : part[k] = text[i + k - 1]
    BY <1>4, <1>5
  <1>7. (\A k \in 1..l : part[k] = path[k]) => part = path
    <2>1. part \in Seq(S \cup P) /\ path \in Seq(S \cup P)
      BY <1>1, <1>4, SeqMonotonic
    <2>2. l = Len(path)
      BY DEF l
    <2>3. QED BY <1>5, <2>1, <2>2, SeqEqual
  <1>8. QED
    BY <1>6, <1>7

(* How a text is read: a backslash ahead of a slash is passed over, every   *)
(* other byte is the next one of what the text denotes.                     *)
IsPassedOver(text, k) ==
    text[k] = Backslash /\ k < Len(text) /\ text[k + 1] = Slash

Reads(text, read, at) ==
    /\ at \in [1..(Len(text) + 1) -> Nat \ {0}]
    /\ at[Len(text) + 1] = Len(read) + 1
    /\ \A k \in 1..Len(text) :
          \/ IsPassedOver(text, k) /\ at[k + 1] = at[k]
          \/ ~IsPassedOver(text, k) /\ at[k + 1] = at[k] + 1 /\ read[at[k]] = text[k]

LEMMA TextsAreRead ==
    ASSUME NEW text, IsText(text)
    PROVE  IsText(Decoded(text)) /\ \E at : Reads(text, Decoded(text), at)
  <1> DEFINE X == {text[i] : i \in DOMAIN text}
             n == Len(text)
             pieces == [i \in DOMAIN text |->
                           IF text[i] = Backslash /\ i < Len(text) /\ text[i + 1] = Slash
                           THEN <<>> ELSE <<text[i]>>]
  <1>1. n \in Nat /\ DOMAIN text = 1..n
    BY TextsHaveBytes
  <1>2. \A i \in 1..n : pieces[i] = IF IsPassedOver(text, i) THEN <<>> ELSE <<text[i]>>
    BY <1>1 DEF IsPassedOver
  <1>3. pieces \in Seq(Seq(X)) /\ Len(pieces) = n
    <2>1. \A i \in 1..n : text[i] \in X
      BY <1>1
    <2>2. \A i \in 1..n : pieces[i] \in Seq(X)
      <3> HIDE DEF pieces, X
      <3>1. \A x \in X : <<x>> \in Seq(X)
        OBVIOUS
      <3>2. <<>> \in Seq(X)
        BY EmptySeq
      <3>3. QED BY <1>2, <2>1, <3>1, <3>2
    <2>3. pieces \in [1..n -> Seq(X)]
      <3>1. pieces = [i \in 1..n |-> pieces[i]]
        BY <1>1
      <3> HIDE DEF pieces
      <3>2. QED BY <2>2, <3>1
    <2> HIDE DEF pieces, X, n
    <2>4. QED BY <1>1, <2>3
  <1>4. Decoded(text) = FlattenSeq(pieces)
    BY DEF Decoded
  <1> HIDE DEF pieces, X
  <1>5. FlattenSeq(pieces) \in Seq(X)
    BY <1>3, FlattenedPieces
  <1>6. PICK at : PiecesStand(pieces, FlattenSeq(pieces), at)
    BY <1>3, FlattenedPieces
  <1>7. IsText(Decoded(text))
    <2> DEFINE read == Decoded(text)
    <2>1. read \in Seq(X)
      BY <1>4, <1>5
    <2> HIDE DEF read
    <2>2. read \in [1..Len(read) -> {read[i] : i \in DOMAIN read}] /\ Len(read) \in Nat
      BY <2>1
    <2>3. read \in Seq({read[i] : i \in DOMAIN read})
      BY <2>2
    <2>4. QED BY <2>3 DEF IsText, read
  <1>8. Reads(text, Decoded(text), at)
    <2> DEFINE read == Decoded(text)
    <2>1. /\ at \in [1..(n + 1) -> Nat \ {0}]
          /\ at[n + 1] = Len(read) + 1
          /\ \A k \in 1..n :
                /\ at[k + 1] = at[k] + Len(pieces[k])
                /\ \A j \in 1..Len(pieces[k]) : read[at[k] + j - 1] = pieces[k][j]
      BY <1>3, <1>4, <1>6 DEF PiecesStand
    <2> HIDE DEF read, n
    <2>2. ASSUME NEW k \in 1..n
          PROVE  \/ IsPassedOver(text, k) /\ at[k + 1] = at[k]
                 \/ ~IsPassedOver(text, k) /\ at[k + 1] = at[k] + 1 /\ read[at[k]] = text[k]
      <3>1. at[k] \in Nat
        BY <1>1, <2>1
      <3>2. CASE IsPassedOver(text, k)
        <4>1. pieces[k] = <<>>
          BY <1>2, <3>2
        <4>2. Len(pieces[k]) = 0
          BY <4>1, EmptySeq
        <4>3. QED BY <2>1, <3>1, <3>2, <4>2
      <3>3. CASE ~IsPassedOver(text, k)
        <4>1. pieces[k] = <<text[k]>>
          BY <1>2, <3>3
        <4>2. Len(pieces[k]) = 1 /\ pieces[k][1] = text[k]
          BY <4>1
        <4>3. read[at[k] + 1 - 1] = text[k]
          BY <2>1, <4>2
        <4>4. at[k] + 1 - 1 = at[k]
          BY <3>1
        <4>5. QED BY <2>1, <3>3, <4>2, <4>3, <4>4
      <3>4. QED BY <3>2, <3>3
    <2>3. QED BY <2>1, <2>2 DEF Reads, read, n
  <1>9. QED
    BY <1>7, <1>8

LEMMA GrowingStepByStep ==
    ASSUME NEW n \in Nat, NEW at, \A k \in 1..(n + 1) : at[k] \in Nat,
           \A k \in 1..n : at[k] <= at[k + 1]
    PROVE  \A k, m \in 1..(n + 1) : k <= m => at[k] <= at[m]
  <1> DEFINE T == {d \in Nat : \A k \in 1..(n + 1) : k + d <= n + 1 => at[k] <= at[k + d]}
  <1>1. Nat \subseteq T
    <2>1. 0 \in T
      OBVIOUS
    <2>2. ASSUME NEW d \in Nat, d \in T PROVE d + 1 \in T
      <3>1. ASSUME NEW k \in 1..(n + 1), k + (d + 1) <= n + 1
            PROVE  at[k] <= at[k + (d + 1)]
        <4> DEFINE m == k + d
        <4>1. m \in 1..n /\ m \in 1..(n + 1) /\ m + 1 = k + (d + 1) /\ m + 1 \in 1..(n + 1)
          BY <3>1
        <4>2. at[k] <= at[m]
          BY <2>2, <4>1
        <4> HIDE DEF m
        <4>3. at[m] <= at[m + 1] /\ at[k] \in Nat /\ at[m] \in Nat /\ at[m + 1] \in Nat
          BY <4>1
        <4>4. QED BY <4>1, <4>2, <4>3
      <3>2. QED BY <3>1
    <2> HIDE DEF T
    <2>3. QED BY <2>1, <2>2, Induction
  <1>2. ASSUME NEW k \in 1..(n + 1), NEW m \in 1..(n + 1), k <= m PROVE at[k] <= at[m]
    <2>1. m - k \in Nat /\ k + (m - k) = m /\ m <= n + 1
      BY <1>2
    <2>2. m - k \in T
      BY <1>1, <2>1
    <2>3. QED BY <2>1, <2>2
  <1>3. QED
    BY <1>2

LEMMA ReadingIsMonotone ==
    ASSUME NEW text, IsText(text), NEW read, NEW at, Reads(text, read, at)
    PROVE  \A k, m \in 1..(Len(text) + 1) : k <= m => at[k] <= at[m]
  <1> DEFINE n == Len(text)
  <1>1. n \in Nat /\ \A k \in 1..(n + 1) : at[k] \in Nat
    BY TextsHaveBytes DEF Reads
  <1>2. ASSUME NEW k \in 1..n PROVE at[k] <= at[k + 1]
    <2>1. at[k + 1] = at[k] \/ at[k + 1] = at[k] + 1
      BY DEF Reads
    <2>2. at[k] \in Nat
      BY <1>1
    <2>3. QED BY <2>1, <2>2
  <1> HIDE DEF n
  <1>3. \A k, m \in 1..(n + 1) : k <= m => at[k] <= at[m]
    BY <1>1, <1>2, GrowingStepByStep
  <1>4. QED
    BY <1>3 DEF n

(* Where a path occurs in a text as it is written, it occurs in what the    *)
(* text denotes, and what follows is what follows there.                    *)
MatchRead(text, read, at, path, i, end) ==
    /\ end \in 1..(Len(text) + 1)
    /\ at[i] \in 1..Len(read)
    /\ OccursAt(read, path, at[i])
    /\ at[end] = at[i] + Len(path)

LEMMA MatchesAreRead ==
    ASSUME NEW text, IsText(text), NEW read, IsText(read), NEW at, Reads(text, read, at),
           NEW path, IsPath(path), NEW i \in 1..Len(text), OccursAt(text, path, i)
    PROVE  MatchRead(text, read, at, path, i, i + Len(path))
  <1> DEFINE n == Len(text)
             l == Len(path)
  <1>1. /\ n \in Nat /\ l \in Nat /\ l > 0 /\ IsText(path) /\ path # <<>>
        /\ Len(read) \in Nat /\ DOMAIN path = 1..l
    BY TextsHaveBytes, PathsHaveBytes DEF IsPath
  <1>2. i + l - 1 <= n /\ \A k \in 1..l : text[i + k - 1] = path[k]
    BY <1>1, OccursByteForByte
  <1>3. \A k \in 1..l : path[k] # Backslash
    BY <1>1 DEF IsPath
  <1>4. \A k \in 1..n : ~IsPassedOver(text, k) =>
            at[k + 1] = at[k] + 1 /\ read[at[k]] = text[k]
    BY DEF Reads
  <1>5. /\ \A k \in 1..(n + 1) : at[k] \in Nat \ {0}
        /\ at[n + 1] = Len(read) + 1
    BY DEF Reads
  <1>6. \A k, m \in 1..(n + 1) : k <= m => at[k] <= at[m]
    BY ReadingIsMonotone
  <1> HIDE DEF n, l
  <1>7. ASSUME NEW k \in 1..l
        PROVE  /\ i + k - 1 \in 1..n
               /\ at[(i + k - 1) + 1] = at[i + k - 1] + 1
               /\ read[at[i + k - 1]] = path[k]
    <2>1. i + k - 1 \in 1..n
      BY <1>1, <1>2
    <2>2. text[i + k - 1] = path[k] /\ path[k] # Backslash
      BY <1>2, <1>3
    <2>3. ~IsPassedOver(text, i + k - 1)
      BY <2>2 DEF IsPassedOver
    <2>4. QED BY <1>4, <2>1, <2>2, <2>3
  <1> DEFINE T == {k \in Nat : k <= l => at[i + k] = at[i] + k}
  <1>8. Nat \subseteq T
    <2>0. at[i] \in Nat
      BY <1>1, <1>2, <1>5
    <2>1. 0 \in T
      BY <2>0
    <2>2. ASSUME NEW k \in Nat, k \in T PROVE k + 1 \in T
      <3>1. SUFFICES ASSUME k + 1 <= l PROVE at[i + (k + 1)] = at[i] + (k + 1)
        OBVIOUS
      <3>2. k + 1 \in 1..l /\ i + (k + 1) - 1 = i + k /\ (i + k) + 1 = i + (k + 1)
        BY <1>1, <3>1
      <3>3. at[(i + k) + 1] = at[i + k] + 1
        BY <1>7, <3>2
      <3>4. at[i + k] = at[i] + k
        BY <1>1, <2>2, <3>2
      <3>5. QED BY <2>0, <3>2, <3>3, <3>4
    <2> HIDE DEF T
    <2>3. QED BY <2>1, <2>2, Induction
  <1>9. \A k \in 0..l : at[i + k] = at[i] + k
    BY <1>1, <1>8
  <1> DEFINE end == i + l
             x == at[i]
  <1>10. end \in 1..(n + 1) /\ i \in 1..(n + 1) /\ n + 1 \in 1..(n + 1) /\ end <= n + 1
    BY <1>1, <1>2
  <1>11. at[end] = x + l /\ x \in Nat \ {0}
    BY <1>1, <1>5, <1>9, <1>10
  <1>12. at[end] <= at[n + 1]
    BY <1>6, <1>10
  <1>13. \A k \in 1..l : read[x + k - 1] = path[k]
    <2>1. ASSUME NEW k \in 1..l PROVE read[x + k - 1] = path[k]
      <3>1. k - 1 \in 0..l /\ i + (k - 1) = i + k - 1 /\ x + (k - 1) = x + k - 1
        BY <1>1, <1>11
      <3>2. at[i + k - 1] = x + k - 1
        BY <1>9, <3>1
      <3>3. QED BY <1>7, <3>2
    <2>2. QED BY <2>1
  <1> HIDE DEF end, x
  <1>14. x + l - 1 <= Len(read)
    BY <1>1, <1>5, <1>11, <1>12
  <1>15. OccursAt(read, path, x)
    BY <1>1, <1>11, <1>13, <1>14, OccursByteForByte DEF l
  <1>16. x \in 1..Len(read)
    BY <1>1, <1>11, <1>14
  <1>17. QED
    BY <1>10, <1>11, <1>15, <1>16 DEF MatchRead, n, l, end, x

(* A path with its slashes escaped, byte for byte.                          *)
Escapes(path, escaped, on) ==
    /\ on \in [1..(Len(path) + 1) -> Nat \ {0}]
    /\ on[1] = 1 /\ on[Len(path) + 1] = Len(escaped) + 1
    /\ \A k \in 1..Len(path) :
          \/ /\ path[k] = Slash /\ on[k + 1] = on[k] + 2
             /\ escaped[on[k]] = Backslash /\ escaped[on[k] + 1] = Slash
          \/ /\ path[k] # Slash /\ on[k + 1] = on[k] + 1
             /\ escaped[on[k]] = path[k]

LEMMA SlashesAreEscaped ==
    ASSUME NEW path, IsText(path)
    PROVE  /\ IsText(EscapeSlashes(path))
           /\ \E on : Escapes(path, EscapeSlashes(path), on)
  <1> DEFINE X == {path[i] : i \in DOMAIN path} \cup {Slash, Backslash}
             n == Len(path)
             pieces == [i \in DOMAIN path |->
                           IF path[i] = Slash THEN <<Backslash, Slash>> ELSE <<path[i]>>]
  <1>1. n \in Nat /\ DOMAIN path = 1..n
    BY TextsHaveBytes
  <1>2. \A i \in 1..n : pieces[i] = IF path[i] = Slash THEN <<Backslash, Slash>> ELSE <<path[i]>>
    BY <1>1
  <1>3. pieces \in Seq(Seq(X)) /\ Len(pieces) = n
    <2>1. \A i \in 1..n : path[i] \in X
      BY <1>1
    <2>2. \A i \in 1..n : pieces[i] \in Seq(X)
      <3>1. Slash \in X /\ Backslash \in X
        OBVIOUS
      <3> HIDE DEF pieces, X
      <3>2. \A x, y \in X : <<x>> \in Seq(X) /\ <<x, y>> \in Seq(X)
        OBVIOUS
      <3>3. QED BY <1>2, <2>1, <3>1, <3>2
    <2>3. pieces \in [1..n -> Seq(X)]
      <3>1. pieces = [i \in 1..n |-> pieces[i]]
        BY <1>1
      <3> HIDE DEF pieces
      <3>2. QED BY <2>2, <3>1
    <2> HIDE DEF pieces, X, n
    <2>4. QED BY <1>1, <2>3
  <1>4. EscapeSlashes(path) = FlattenSeq(pieces)
    BY DEF EscapeSlashes
  <1> HIDE DEF pieces, X
  <1>5. FlattenSeq(pieces) \in Seq(X)
    BY <1>3, FlattenedPieces
  <1>6. PICK on : PiecesStand(pieces, FlattenSeq(pieces), on)
    BY <1>3, FlattenedPieces
  <1>7. IsText(EscapeSlashes(path))
    <2> DEFINE escaped == EscapeSlashes(path)
    <2>1. escaped \in Seq(X)
      BY <1>4, <1>5
    <2> HIDE DEF escaped
    <2>2. escaped \in [1..Len(escaped) -> {escaped[i] : i \in DOMAIN escaped}]
          /\ Len(escaped) \in Nat
      BY <2>1
    <2>3. escaped \in Seq({escaped[i] : i \in DOMAIN escaped})
      BY <2>2
    <2>4. QED BY <2>3 DEF IsText, escaped
  <1>8. Escapes(path, EscapeSlashes(path), on)
    <2> DEFINE escaped == EscapeSlashes(path)
    <2>1. /\ on \in [1..(n + 1) -> Nat \ {0}]
          /\ on[1] = 1 /\ on[n + 1] = Len(escaped) + 1
          /\ \A k \in 1..n :
                /\ on[k + 1] = on[k] + Len(pieces[k])
                /\ \A j \in 1..Len(pieces[k]) : escaped[on[k] + j - 1] = pieces[k][j]
      BY <1>3, <1>4, <1>6 DEF PiecesStand
    <2> HIDE DEF escaped, n
    <2>2. ASSUME NEW k \in 1..n
          PROVE  \/ /\ path[k] = Slash /\ on[k + 1] = on[k] + 2
                    /\ escaped[on[k]] = Backslash /\ escaped[on[k] + 1] = Slash
                 \/ /\ path[k] # Slash /\ on[k + 1] = on[k] + 1
                    /\ escaped[on[k]] = path[k]
      <3>1. on[k] \in Nat /\ on[k] + 1 - 1 = on[k] /\ on[k] + 2 - 1 = on[k] + 1
        BY <1>1, <2>1
      <3>2. CASE path[k] = Slash
        <4>1. pieces[k] = <<Backslash, Slash>>
          BY <1>2, <3>2
        <4>2. Len(pieces[k]) = 2 /\ pieces[k][1] = Backslash /\ pieces[k][2] = Slash
          BY <4>1
        <4>3. 1 \in 1..Len(pieces[k]) /\ 2 \in 1..Len(pieces[k])
          BY <4>2
        <4>4. /\ escaped[on[k] + 1 - 1] = Backslash
              /\ escaped[on[k] + 2 - 1] = Slash
          <5>1. \A j \in 1..Len(pieces[k]) : escaped[on[k] + j - 1] = pieces[k][j]
            BY <2>1
          <5>2. escaped[on[k] + 1 - 1] = pieces[k][1] /\ escaped[on[k] + 2 - 1] = pieces[k][2]
            BY <4>3, <5>1
          <5>3. QED BY <4>2, <5>2
        <4>5. QED BY <2>1, <3>1, <3>2, <4>2, <4>4
      <3>3. CASE path[k] # Slash
        <4>1. pieces[k] = <<path[k]>>
          BY <1>2, <3>3
        <4>2. Len(pieces[k]) = 1 /\ pieces[k][1] = path[k]
          BY <4>1
        <4>3. escaped[on[k] + 1 - 1] = path[k]
          BY <2>1, <4>2
        <4>4. QED BY <2>1, <3>1, <3>3, <4>2, <4>3
      <3>4. QED BY <3>2, <3>3
    <2>3. QED BY <2>1, <2>2 DEF Escapes, escaped, n
  <1>9. QED
    BY <1>7, <1>8

LEMMA EscapedMatchesAreRead ==
    ASSUME NEW text, IsText(text), NEW read, IsText(read), NEW at, Reads(text, read, at),
           NEW path, IsPath(path), NEW i \in 1..Len(text),
           OccursAt(text, EscapeSlashes(path), i)
    PROVE  MatchRead(text, read, at, path, i, i + Len(EscapeSlashes(path)))
  <1> DEFINE escaped == EscapeSlashes(path)
             n == Len(text)
             l == Len(path)
             e == Len(escaped)
  <1>1. /\ n \in Nat /\ l \in Nat /\ l > 0 /\ e \in Nat
        /\ IsText(path) /\ path # <<>> /\ IsText(escaped)
        /\ Len(read) \in Nat /\ DOMAIN path = 1..l
    BY TextsHaveBytes, PathsHaveBytes, SlashesAreEscaped DEF IsPath
  <1>2. PICK on : Escapes(path, escaped, on)
    BY <1>1, SlashesAreEscaped
  <1> HIDE DEF escaped
  <1>3. /\ \A k \in 1..(l + 1) : on[k] \in Nat \ {0}
        /\ on[1] = 1 /\ on[l + 1] = e + 1
        /\ \A k \in 1..l :
              \/ /\ path[k] = Slash /\ on[k + 1] = on[k] + 2
                 /\ escaped[on[k]] = Backslash /\ escaped[on[k] + 1] = Slash
              \/ /\ path[k] # Slash /\ on[k + 1] = on[k] + 1
                 /\ escaped[on[k]] = path[k]
    BY <1>2 DEF Escapes
  <1>4. i + e - 1 <= n /\ \A k \in 1..e : text[i + k - 1] = escaped[k]
    <2>1. escaped # <<>>
      BY DEF OccursAt, escaped
    <2>2. QED BY <1>1, <2>1, OccursByteForByte DEF escaped
  <1>5. \A k \in 1..l : path[k] # Backslash
    BY <1>1 DEF IsPath
  <1>6. \A k \in 1..n : \/ IsPassedOver(text, k) /\ at[k + 1] = at[k]
                        \/ ~IsPassedOver(text, k) /\ at[k + 1] = at[k] + 1 /\ read[at[k]] = text[k]
    BY DEF Reads
  <1>7. /\ \A k \in 1..(n + 1) : at[k] \in Nat \ {0}
        /\ at[n + 1] = Len(read) + 1
    BY DEF Reads
  <1>8. \A k, m \in 1..(n + 1) : k <= m => at[k] <= at[m]
    BY ReadingIsMonotone
  <1>9. \A k, m \in 1..(l + 1) : k <= m => on[k] <= on[m]
    <2>1. \A k \in 1..(l + 1) : on[k] \in Nat
      BY <1>3
    <2> HIDE DEF l
    <2>2. ASSUME NEW k \in 1..l PROVE on[k] <= on[k + 1]
      <3>1. on[k + 1] = on[k] + 2 \/ on[k + 1] = on[k] + 1
        BY <1>3
      <3>2. on[k] \in Nat
        BY <1>1, <2>1
      <3>3. QED BY <3>1, <3>2
    <2>3. QED BY <1>1, <2>1, <2>2, GrowingStepByStep
  <1>10. n = Len(text)
    OBVIOUS
  <1> HIDE DEF n, l, e
  <1>11. ASSUME NEW k \in 1..l
         PROVE  LET here == i + on[k] - 1 IN
                /\ here \in 1..n /\ i + on[k + 1] - 1 \in 1..(n + 1)
                /\ at[i + on[k + 1] - 1] = at[here] + 1
                /\ read[at[here]] = path[k]
    <2> DEFINE here == i + on[k] - 1
    <2>1. /\ k \in 1..(l + 1) /\ k + 1 \in 1..(l + 1) /\ l + 1 \in 1..(l + 1) /\ k + 1 <= l + 1
          /\ on[k] \in Nat \ {0} /\ on[k + 1] \in Nat /\ on[k + 1] <= e + 1
      <3>1. /\ k \in 1..(l + 1) /\ k + 1 \in 1..(l + 1) /\ l + 1 \in 1..(l + 1) /\ k + 1 <= l + 1
        BY <1>1
      <3>2. QED BY <1>3, <1>9, <3>1
    <2>2. CASE path[k] = Slash
      <3>1. on[k + 1] = on[k] + 2 /\ escaped[on[k]] = Backslash /\ escaped[on[k] + 1] = Slash
        BY <1>3, <2>2
      <3>2. on[k] \in 1..e /\ on[k] + 1 \in 1..e
        <4> DEFINE o == on[k]
                   p == on[k + 1]
        <4>1. o \in Nat \ {0} /\ p = o + 2 /\ p <= e + 1 /\ e \in Nat
          BY <1>1, <2>1, <3>1
        <4> HIDE DEF o, p
        <4>2. o \in 1..e /\ o + 1 \in 1..e
          BY <4>1
        <4>3. QED BY <4>2 DEF o
      <3>3. /\ here \in 1..n /\ here + 1 \in 1..n /\ here < n
            /\ i + (on[k] + 1) - 1 = here + 1
            /\ i + on[k + 1] - 1 = (here + 1) + 1
        <4> DEFINE o == on[k]
                   p == on[k + 1]
        <4>1. /\ o \in Nat \ {0} /\ p = o + 2 /\ o + 1 <= e /\ i + e - 1 <= n
              /\ i \in Nat \ {0} /\ n \in Nat /\ e \in Nat
          BY <1>1, <1>4, <1>10, <2>1, <3>1, <3>2
        <4> HIDE DEF o, p
        <4>2. /\ i + o - 1 \in 1..n /\ (i + o - 1) + 1 \in 1..n /\ i + o - 1 < n
              /\ i + (o + 1) - 1 = (i + o - 1) + 1
              /\ i + p - 1 = ((i + o - 1) + 1) + 1
          BY <4>1
        <4>3. QED BY <4>2 DEF o, p
      <3>4. text[here] = Backslash /\ text[here + 1] = Slash
        <4>1. text[i + on[k] - 1] = Backslash /\ text[i + (on[k] + 1) - 1] = Slash
          BY <1>4, <3>1, <3>2
        <4>2. QED BY <3>3, <4>1
      <3> HIDE DEF here
      <3>5. IsPassedOver(text, here)
        BY <1>10, <3>3, <3>4 DEF IsPassedOver
      <3>6. ~IsPassedOver(text, here + 1)
        BY <3>4 DEF IsPassedOver, Slash, Backslash
      <3>7. at[here + 1] = at[here]
        BY <1>6, <3>3, <3>5
      <3>8. at[(here + 1) + 1] = at[here + 1] + 1 /\ read[at[here + 1]] = Slash
        BY <1>6, <3>3, <3>4, <3>6
      <3>9. (here + 1) + 1 \in 1..(n + 1)
        BY <1>1, <3>3
      <3>10. QED BY <2>2, <3>3, <3>7, <3>8, <3>9 DEF here
    <2>3. CASE path[k] # Slash
      <3>1. on[k + 1] = on[k] + 1 /\ escaped[on[k]] = path[k]
        BY <1>3, <2>3
      <3>2. on[k] \in 1..e
        <4> DEFINE o == on[k]
                   p == on[k + 1]
        <4>1. o \in Nat \ {0} /\ p = o + 1 /\ p <= e + 1 /\ e \in Nat
          BY <1>1, <2>1, <3>1
        <4> HIDE DEF o, p
        <4>2. o \in 1..e
          BY <4>1
        <4>3. QED BY <4>2 DEF o
      <3>3. /\ here \in 1..n /\ i + on[k + 1] - 1 = here + 1 /\ here + 1 \in 1..(n + 1)
        <4> DEFINE o == on[k]
                   p == on[k + 1]
        <4>1. /\ o \in Nat \ {0} /\ p = o + 1 /\ o <= e /\ i + e - 1 <= n
              /\ i \in Nat \ {0} /\ n \in Nat /\ e \in Nat
          BY <1>1, <1>4, <1>10, <2>1, <3>1, <3>2
        <4> HIDE DEF o, p
        <4>2. /\ i + o - 1 \in 1..n /\ i + p - 1 = (i + o - 1) + 1
              /\ (i + o - 1) + 1 \in 1..(n + 1)
          BY <4>1
        <4>3. QED BY <4>2 DEF o, p
      <3>4. text[here] = path[k] /\ path[k] # Backslash
        BY <1>4, <1>5, <3>1, <3>2
      <3> HIDE DEF here
      <3>5. ~IsPassedOver(text, here)
        BY <3>4 DEF IsPassedOver
      <3>6. at[here + 1] = at[here] + 1 /\ read[at[here]] = path[k]
        BY <1>6, <3>3, <3>4, <3>5
      <3>7. QED BY <3>3, <3>6 DEF here
    <2>4. QED BY <2>2, <2>3
  <1> DEFINE T == {k \in Nat : k <= l => at[i + on[k + 1] - 1] = at[i] + k}
  <1>12. at[i] \in Nat \ {0} /\ i + on[1] - 1 = i
    BY <1>1, <1>3, <1>7, <1>10
  <1>13. Nat \subseteq T
    <2>1. 0 \in T
      <3>1. i + on[0 + 1] - 1 = i
        BY <1>12
      <3>2. QED BY <1>12, <3>1
    <2>2. ASSUME NEW k \in Nat, k \in T PROVE k + 1 \in T
      <3>1. SUFFICES ASSUME k + 1 <= l PROVE at[i + on[(k + 1) + 1] - 1] = at[i] + (k + 1)
        OBVIOUS
      <3>2. k + 1 \in 1..l /\ k <= l
        BY <1>1, <3>1
      <3>3. at[i + on[(k + 1) + 1] - 1] = at[i + on[k + 1] - 1] + 1
        BY <1>11, <3>2
      <3>4. at[i + on[k + 1] - 1] = at[i] + k
        BY <2>2, <3>2
      <3>5. QED BY <1>12, <3>3, <3>4
    <2> HIDE DEF T
    <2>3. QED BY <2>1, <2>2, Induction
  <1>14. \A k \in 0..l : at[i + on[k + 1] - 1] = at[i] + k
    BY <1>1, <1>13
  <1> DEFINE end == i + e
             x == at[i]
  <1>15. /\ end \in 1..(n + 1) /\ n + 1 \in 1..(n + 1) /\ end <= n + 1
         /\ i + on[l + 1] - 1 = end
    BY <1>1, <1>3, <1>4
  <1>16. at[end] = x + l /\ x \in Nat \ {0}
    <2>1. l \in 0..l
      BY <1>1
    <2>2. at[i + on[l + 1] - 1] = at[i] + l
      BY <1>14, <2>1
    <2>3. QED BY <1>12, <1>15, <2>2
  <1>17. at[end] <= at[n + 1]
    BY <1>8, <1>15
  <1>18. \A k \in 1..l : read[x + k - 1] = path[k]
    <2>1. ASSUME NEW k \in 1..l PROVE read[x + k - 1] = path[k]
      <3>1. k - 1 \in 0..l /\ (k - 1) + 1 = k /\ x + (k - 1) = x + k - 1
        BY <1>1, <1>16
      <3>2. at[i + on[(k - 1) + 1] - 1] = at[i] + (k - 1)
        BY <1>14, <3>1
      <3>3. at[i + on[k] - 1] = x + k - 1
        BY <3>1, <3>2
      <3>4. read[at[i + on[k] - 1]] = path[k]
        BY <1>11
      <3>5. QED BY <3>3, <3>4
    <2>2. QED BY <2>1
  <1> HIDE DEF end, x
  <1>19. x + l - 1 <= Len(read)
    BY <1>1, <1>7, <1>16, <1>17
  <1>20. OccursAt(read, path, x)
    BY <1>1, <1>16, <1>18, <1>19, OccursByteForByte DEF l
  <1>21. x \in 1..Len(read)
    BY <1>1, <1>16, <1>19
  <1>22. QED
    BY <1>15, <1>16, <1>20, <1>21 DEF MatchRead, n, l, e, escaped, end, x

(* A name that goes on in what a text denotes goes on as it is written.     *)
LEMMA NamesGoOnAsWritten ==
    ASSUME NEW text, IsText(text), NEW read, IsText(read), NEW at, Reads(text, read, at),
           NEW end \in 1..(Len(text) + 1), NameGoesOn(read, at[end])
    PROVE  NameGoesOn(text, end)
  <1> DEFINE n == Len(text)
             x == at[end]
  <1>1. /\ n \in Nat /\ Len(read) \in Nat /\ end \in 1..(n + 1)
        /\ \A k \in 1..(n + 1) : at[k] \in Nat \ {0}
        /\ at[n + 1] = Len(read) + 1
    BY TextsHaveBytes DEF Reads
  <1>2. \A k \in 1..n : \/ IsPassedOver(text, k) /\ at[k + 1] = at[k]
                        \/ ~IsPassedOver(text, k) /\ at[k + 1] = at[k] + 1 /\ read[at[k]] = text[k]
    BY DEF Reads
  <1>3. PICK j \in x..Len(read) : /\ isPathContinuationByte(read[j])
                                  /\ \A k \in x..(j - 1) : read[k] = Dot
    BY DEF NameGoesOn
  <1>4. \A k \in x..j : read[k] # Slash
    <2>1. read[j] # Slash
      BY <1>3 DEF isPathContinuationByte
    <2>2. \A k \in x..(j - 1) : read[k] # Slash
      BY <1>3 DEF Dot, Slash
    <2>3. \A k \in x..j : k = j \/ k \in x..(j - 1)
      BY <1>1, <1>3
    <2>4. QED BY <2>1, <2>2, <2>3
  <1>5. \A k \in 1..n : IsPassedOver(text, k) =>
            text[k] = Backslash /\ k + 1 \in 1..n /\ text[k + 1] = Slash
    BY <1>1 DEF IsPassedOver
  <1> HIDE DEF n
  <1>6. ASSUME NEW place \in 1..(n + 1), at[place] \in x..j
        PROVE  place \in 1..n /\ at[place + 1] = at[place] + 1 /\ read[at[place]] = text[place]
    <2>1. place # n + 1
      BY <1>1, <1>3, <1>6
    <2>2. place \in 1..n
      BY <1>1, <2>1
    <2>3. CASE IsPassedOver(text, place)
      <3>1. at[place + 1] = at[place] /\ place + 1 \in 1..n /\ text[place + 1] = Slash
        BY <1>2, <1>5, <2>2, <2>3, <1>1
      <3>2. ~IsPassedOver(text, place + 1)
        BY <3>1 DEF IsPassedOver, Slash, Backslash
      <3>3. read[at[place + 1]] = Slash
        BY <1>2, <3>1, <3>2
      <3>4. QED BY <1>4, <1>6, <3>1, <3>3
    <2>4. CASE ~IsPassedOver(text, place)
      BY <1>2, <2>2, <2>4
    <2>5. QED BY <2>3, <2>4
  <1> DEFINE m == j - x
             T == {k \in Nat : k <= m => end + k \in 1..n /\ at[end + k] = x + k}
  <1>7. x \in Nat \ {0} /\ j \in Nat /\ m \in Nat /\ x + m = j
    BY <1>1, <1>3
  <1> HIDE DEF x, m
  <1>8. Nat \subseteq T
    <2>1. 0 \in T
      <3>1. end + 0 = end /\ at[end] = x /\ x \in x..j
        BY <1>1, <1>3, <1>7 DEF x
      <3>2. end \in 1..n
        BY <1>1, <1>6, <3>1
      <3>3. QED BY <1>7, <3>1, <3>2
    <2>2. ASSUME NEW k \in Nat, k \in T PROVE k + 1 \in T
      <3>1. SUFFICES ASSUME k + 1 <= m
                     PROVE  end + (k + 1) \in 1..n /\ at[end + (k + 1)] = x + (k + 1)
        OBVIOUS
      <3>2. end + k \in 1..n /\ at[end + k] = x + k
        BY <1>7, <2>2, <3>1
      <3>3. x + k \in x..j /\ x + (k + 1) \in x..j /\ (x + k) + 1 = x + (k + 1)
        BY <1>7, <3>1
      <3>4. end + k \in 1..(n + 1) /\ (end + k) + 1 = end + (k + 1) /\ end + (k + 1) \in 1..(n + 1)
        BY <1>1, <3>2
      <3>5. at[(end + k) + 1] = at[end + k] + 1
        BY <1>6, <3>2, <3>3, <3>4
      <3>6. at[end + (k + 1)] = x + (k + 1)
        BY <3>2, <3>3, <3>4, <3>5
      <3>7. end + (k + 1) \in 1..n
        BY <1>6, <3>3, <3>4, <3>6
      <3>8. QED BY <3>6, <3>7
    <2> HIDE DEF T
    <2>3. QED BY <2>1, <2>2, Induction
  <1>9. \A k \in 0..m : end + k \in 1..n /\ at[end + k] = x + k /\ text[end + k] = read[x + k]
    <2>1. ASSUME NEW k \in 0..m
          PROVE  end + k \in 1..n /\ at[end + k] = x + k /\ text[end + k] = read[x + k]
      <3>1. end + k \in 1..n /\ at[end + k] = x + k
        BY <1>7, <1>8
      <3>2. x + k \in x..j /\ end + k \in 1..(n + 1)
        BY <1>1, <1>7, <3>1
      <3>3. QED BY <1>6, <3>1, <3>2
    <2>2. QED BY <2>1
  <1> DEFINE last == end + m
  <1>10. last \in end..n /\ text[last] = read[j]
    <2>1. m \in 0..m
      BY <1>7
    <2>2. end + m \in 1..n /\ text[end + m] = read[x + m]
      BY <1>9, <2>1
    <2>3. QED BY <1>1, <1>7, <2>2
  <1>11. \A k \in end..(last - 1) : text[k] = Dot
    <2>1. ASSUME NEW k \in end..(last - 1) PROVE text[k] = Dot
      <3>1. k - end \in 0..m /\ end + (k - end) = k /\ x + (k - end) \in x..(j - 1)
        BY <1>1, <1>7
      <3>2. text[end + (k - end)] = read[x + (k - end)]
        BY <1>9, <3>1
      <3>3. QED BY <1>3, <3>1, <3>2 DEF x
    <2>2. QED BY <2>1
  <1> HIDE DEF last
  <1>12. QED
    BY <1>3, <1>10, <1>11 DEF NameGoesOn, n

(* No spelling of a foreign text holds a name of the project.               *)
LEMMA ForeignTextsHoldNoName ==
    ASSUME NEW setup \in Setups, NEW path \in NamesOfTheProject(setup),
           NEW text, IsText(text), Decoded(text) \in Foreign
    PROVE  /\ \A i \in 1..Len(text) : /\ ~BoundedAt(text, path, i)
                                      /\ ~BoundedAt(text, EscapeSlashes(path), i)
           /\ \A i \in 1..Len(Decoded(text)) : ~BoundedAt(Decoded(text), path, i)
  <1> DEFINE read == Decoded(text)
  <1>1. IsText(read) /\ \E at : Reads(text, read, at)
    BY TextsAreRead
  <1>2. PICK at : Reads(text, read, at)
    BY <1>1
  <1>3. read \in Foreign
    OBVIOUS
  <1> HIDE DEF read
  <1>4. /\ IsPath(path) /\ IsText(path) /\ DOMAIN read = 1..Len(read) /\ Len(path) \in Nat
        /\ IsText(EscapeSlashes(path)) /\ Len(EscapeSlashes(path)) \in Nat
    <2>1. IsPath(path)
      BY ForeignAssumption
    <2>2. QED BY <1>1, <2>1, TextsHaveBytes, SlashesAreEscaped DEF IsPath
  <1>5. \A i \in 1..Len(read) : OccursAt(read, path, i) => NameGoesOn(read, i + Len(path))
    BY <1>3, <1>4, ForeignAssumption
  <1>6. ASSUME NEW i \in 1..Len(text), NEW end,
               MatchRead(text, read, at, path, i, end)
        PROVE  NameGoesOn(text, end)
    <2>1. /\ end \in 1..(Len(text) + 1) /\ at[i] \in 1..Len(read)
          /\ OccursAt(read, path, at[i]) /\ at[end] = at[i] + Len(path)
      BY <1>6 DEF MatchRead
    <2>2. NameGoesOn(read, at[end])
      BY <1>5, <2>1
    <2>3. QED BY <1>1, <1>2, <2>1, <2>2, NamesGoOnAsWritten
  <1>7. ASSUME NEW i \in 1..Len(text) PROVE ~BoundedAt(text, path, i)
    <2>1. CASE OccursAt(text, path, i)
      <3>1. NameGoesOn(text, i + Len(path))
        BY <1>1, <1>2, <1>4, <1>6, <2>1, MatchesAreRead
      <3>2. QED BY <1>4, <3>1, LongerNamesStay
    <2>2. QED BY <2>1 DEF BoundedAt
  <1>8. ASSUME NEW i \in 1..Len(text) PROVE ~BoundedAt(text, EscapeSlashes(path), i)
    <2>1. CASE OccursAt(text, EscapeSlashes(path), i)
      <3>1. NameGoesOn(text, i + Len(EscapeSlashes(path)))
        BY <1>1, <1>2, <1>4, <1>6, <2>1, EscapedMatchesAreRead
      <3>2. QED BY <1>4, <3>1, LongerNamesStay
    <2>2. QED BY <2>1 DEF BoundedAt
  <1>9. ASSUME NEW i \in 1..Len(read) PROVE ~BoundedAt(read, path, i)
    <2>1. CASE OccursAt(read, path, i)
      BY <1>1, <1>4, <1>5, <2>1, LongerNamesStay
    <2>2. QED BY <2>1 DEF BoundedAt
  <1>10. QED
    BY <1>7, <1>8, <1>9 DEF read

(* So neither replacer touches a foreign text.                              *)
Untouched(text) == [data |-> text, count |-> 0]

LEMMA ForeignTextsAreLeft ==
    ASSUME NEW setup \in Setups, NEW path \in NamesOfTheProject(setup), NEW new,
           NEW text, IsText(text), Decoded(text) \in Foreign
    PROVE  /\ ReplacePathInBytes(Decoded(text), path, new) = Untouched(Decoded(text))
           /\ ReplacePathInBytesWithJSONEscape(text, path, new) = Untouched(text)
  <1>1. /\ IsPath(path) /\ IsText(path) /\ Len(path) \in Nat
        /\ IsText(EscapeSlashes(path)) /\ Len(EscapeSlashes(path)) \in Nat
        /\ IsText(Decoded(text))
    <2>1. IsPath(path)
      BY ForeignAssumption
    <2>2. QED BY <2>1, TextsHaveBytes, SlashesAreEscaped, TextsAreRead DEF IsPath
  <1>2. ReplacePathInBytes(Decoded(text), path, new) = Untouched(Decoded(text))
    BY <1>1, ForeignTextsHoldNoName, NothingReplaced DEF Untouched
  <1>3. ReplacePathInBytes(text, path, new) = Untouched(text)
    BY <1>1, ForeignTextsHoldNoName, NothingReplaced DEF Untouched
  <1>4. ReplacePathInBytes(text, EscapeSlashes(path), EscapeSlashes(new)) = Untouched(text)
    BY <1>1, ForeignTextsHoldNoName, NothingReplaced DEF Untouched
  <1>5. Untouched(text).data = text /\ Untouched(text).count = 0
    BY DEF Untouched
  <1>6. ReplacePathInBytesWithJSONEscape(text, path, new) = Untouched(text)
    BY <1>3, <1>4, <1>5 DEF ReplacePathInBytesWithJSONEscape, Untouched
  <1>7. QED
    BY <1>2, <1>6

(* A finite set of numbers has a greatest.                                  *)
LEMMA GreatestPlace ==
    ASSUME NEW n \in Nat, NEW s \in SUBSET (1..n), s # {}
    PROVE  Max(s) \in s
  <1> DEFINE T == {n - x : x \in s}
  <1>1. T \subseteq Nat /\ T # {}
    <2>1. PICK x \in s : TRUE
      OBVIOUS
    <2>2. n - x \in T
      OBVIOUS
    <2>3. \A z \in s : n - z \in Nat
      OBVIOUS
    <2>4. QED BY <2>2, <2>3
  <1>2. PICK y \in T : \A z \in T : y <= z
    <2> HIDE DEF T
    <2>1. QED BY <1>1, LeastNatural
  <1>3. PICK x \in s : y = n - x
    BY <1>2
  <1>4. \A z \in s : z <= x
    <2>1. ASSUME NEW z \in s PROVE z <= x
      <3>1. y <= n - z /\ z \in Nat /\ x \in Nat
        BY <1>2
      <3>2. QED BY <1>3, <3>1
    <2>2. QED BY <2>1
  <1>5. \A z \in s : x >= z
    BY <1>3, <1>4
  <1>6. QED
    BY <1>3, <1>5 DEF Max

(* A fold of which no step changes anything ends where it began.            *)
LEMMA FoldStays ==
    ASSUME NEW n \in Nat, NEW base, NEW fold, fold[{}] = base,
           \A s \in SUBSET (1..n) :
               s # {} /\ fold[s \ {Max(s)}] = base => fold[s] = base
    PROVE  fold[1..n] = base
  <1> DEFINE T == {k \in Nat : k <= n => fold[1..k] = base}
  <1>1. 0 \in T
    <2>1. 1..0 = {}
      OBVIOUS
    <2>2. QED BY <2>1
  <1>2. ASSUME NEW k \in Nat, k \in T PROVE k + 1 \in T
    <2>1. SUFFICES ASSUME k + 1 <= n PROVE fold[1..(k + 1)] = base
      OBVIOUS
    <2> DEFINE s == 1..(k + 1)
    <2>2. s \in SUBSET (1..n) /\ k + 1 \in s /\ s # {} /\ \A x \in s : x <= k + 1 /\ x \in Nat
      BY <2>1
    <2>3. s \ {k + 1} = 1..k
      OBVIOUS
    <2> HIDE DEF s
    <2>4. Max(s) = k + 1
      <3>1. ASSUME NEW x \in s, \A y \in s : x >= y PROVE x = k + 1
        <4>1. x >= k + 1 /\ x <= k + 1 /\ x \in Nat
          BY <2>2, <3>1
        <4>2. QED BY <4>1
      <3>2. \A y \in s : k + 1 >= y
        BY <2>2
      <3>3. QED BY <2>2, <3>1, <3>2 DEF Max
    <2>5. fold[1..k] = base
      BY <1>2, <2>1
    <2>6. QED BY <2>2, <2>3, <2>4, <2>5 DEF s
  <1> HIDE DEF T
  <1>3. Nat \subseteq T
    BY <1>1, <1>2, Induction
  <1>4. QED
    BY <1>3 DEF T

(* A text that no substitution changes is changed by none of them in turn.  *)
LEMMA NothingSubstituted ==
    ASSUME NEW text, NEW substitutions, Len(substitutions) \in Nat,
           DOMAIN substitutions = 1..Len(substitutions),
           \A i \in DOMAIN substitutions :
               ReplacePathInBytes(text, substitutions[i].from, substitutions[i].to)
                   = Untouched(text)
    PROVE  Substituted(text, substitutions, ReplacePathInBytes) = Untouched(text)
  <1> DEFINE n == Len(substitutions)
             Step(done, s) == LET next == ReplacePathInBytes(done.data, s.from, s.to)
                              IN [data |-> next.data, count |-> done.count + next.count]
             Body(f, s) == IF s = {} THEN [data |-> text, count |-> 0]
                           ELSE LET x == Max(s) IN Step(f[s \ {x}], substitutions[x])
             Solves(f) == f = [s \in SUBSET (1..n) |-> Body(f, s)]
             fold == CHOOSE f : Solves(f)
             same == Untouched(text)
             stays == [s \in SUBSET (1..n) |-> same]
  <1>1. Substituted(text, substitutions, ReplacePathInBytes) = fold[1..n]
    BY DEF Substituted, FoldLeft, MapThenFoldSet
  <1>2. same.data = text /\ same.count = 0 /\ same = [data |-> text, count |-> 0]
    BY DEF Untouched
  <1> HIDE DEF same
  <1>3. \A x \in 1..n : Step(same, substitutions[x]) = same
    <2>1. \A x \in 1..n :
              ReplacePathInBytes(text, substitutions[x].from, substitutions[x].to) = same
      BY DEF same
    <2>2. 0 + 0 = 0
      OBVIOUS
    <2>3. QED BY <1>2, <2>1, <2>2
  <1> HIDE DEF Step
  <1>4. Solves(stays)
    <2>1. ASSUME NEW s \in SUBSET (1..n) PROVE Body(stays, s) = same
      <3>1. CASE s = {}
        BY <1>2, <3>1
      <3>2. CASE s # {}
        <4>1. Max(s) \in 1..n /\ s \ {Max(s)} \in SUBSET (1..n)
          BY <3>2, GreatestPlace
        <4>2. QED BY <1>3, <3>2, <4>1
      <3>3. QED BY <3>1, <3>2
    <2> HIDE DEF Body
    <2>2. QED BY <2>1
  <1>5. Solves(fold)
    <2> HIDE DEF Solves, stays
    <2>1. QED BY <1>4
  <1> HIDE DEF fold
  <1>6. \A s \in SUBSET (1..n) : fold[s] = Body(fold, s)
    <2> HIDE DEF Body
    <2>1. QED BY <1>5
  <1>7. fold[{}] = same
    BY <1>2, <1>6
  <1>8. \A s \in SUBSET (1..n) : s # {} /\ fold[s \ {Max(s)}] = same => fold[s] = same
    <2>1. ASSUME NEW s \in SUBSET (1..n), s # {}, fold[s \ {Max(s)}] = same
          PROVE  fold[s] = same
      <3>1. Max(s) \in 1..n
        BY <2>1, GreatestPlace
      <3>2. Body(fold, s) = Step(fold[s \ {Max(s)}], substitutions[Max(s)])
        BY <2>1
      <3>3. fold[s] = Body(fold, s)
        BY <1>6
      <3> HIDE DEF Body
      <3>4. QED BY <1>3, <2>1, <3>1, <3>2, <3>3
    <2>2. QED BY <2>1
  <1>9. QED
    BY <1>1, <1>7, <1>8, FoldStays DEF same

LEMMA NothingSubstitutedAsWritten ==
    ASSUME NEW text, NEW substitutions, Len(substitutions) \in Nat,
           DOMAIN substitutions = 1..Len(substitutions),
           \A i \in DOMAIN substitutions :
               ReplacePathInBytesWithJSONEscape(text, substitutions[i].from, substitutions[i].to)
                   = Untouched(text)
    PROVE  Substituted(text, substitutions, ReplacePathInBytesWithJSONEscape) = Untouched(text)
  <1> DEFINE n == Len(substitutions)
             Step(done, s) == LET next == ReplacePathInBytesWithJSONEscape(done.data, s.from, s.to)
                              IN [data |-> next.data, count |-> done.count + next.count]
             Body(f, s) == IF s = {} THEN [data |-> text, count |-> 0]
                           ELSE LET x == Max(s) IN Step(f[s \ {x}], substitutions[x])
             Solves(f) == f = [s \in SUBSET (1..n) |-> Body(f, s)]
             fold == CHOOSE f : Solves(f)
             same == Untouched(text)
             stays == [s \in SUBSET (1..n) |-> same]
  <1>1. Substituted(text, substitutions, ReplacePathInBytesWithJSONEscape) = fold[1..n]
    BY DEF Substituted, FoldLeft, MapThenFoldSet
  <1>2. same.data = text /\ same.count = 0 /\ same = [data |-> text, count |-> 0]
    BY DEF Untouched
  <1> HIDE DEF same
  <1>3. \A x \in 1..n : Step(same, substitutions[x]) = same
    <2>1. \A x \in 1..n : ReplacePathInBytesWithJSONEscape(
                               text, substitutions[x].from, substitutions[x].to) = same
      BY DEF same
    <2>2. 0 + 0 = 0
      OBVIOUS
    <2>3. QED BY <1>2, <2>1, <2>2
  <1> HIDE DEF Step
  <1>4. Solves(stays)
    <2>1. ASSUME NEW s \in SUBSET (1..n) PROVE Body(stays, s) = same
      <3>1. CASE s = {}
        BY <1>2, <3>1
      <3>2. CASE s # {}
        <4>1. Max(s) \in 1..n /\ s \ {Max(s)} \in SUBSET (1..n)
          BY <3>2, GreatestPlace
        <4>2. QED BY <1>3, <3>2, <4>1
      <3>3. QED BY <3>1, <3>2
    <2> HIDE DEF Body
    <2>2. QED BY <2>1
  <1>5. Solves(fold)
    <2> HIDE DEF Solves, stays
    <2>1. QED BY <1>4
  <1> HIDE DEF fold
  <1>6. \A s \in SUBSET (1..n) : fold[s] = Body(fold, s)
    <2> HIDE DEF Body
    <2>1. QED BY <1>5
  <1>7. fold[{}] = same
    BY <1>2, <1>6
  <1>8. \A s \in SUBSET (1..n) : s # {} /\ fold[s \ {Max(s)}] = same => fold[s] = same
    <2>1. ASSUME NEW s \in SUBSET (1..n), s # {}, fold[s \ {Max(s)}] = same
          PROVE  fold[s] = same
      <3>1. Max(s) \in 1..n
        BY <2>1, GreatestPlace
      <3>2. Body(fold, s) = Step(fold[s \ {Max(s)}], substitutions[Max(s)])
        BY <2>1
      <3>3. fold[s] = Body(fold, s)
        BY <1>6
      <3> HIDE DEF Body
      <3>4. QED BY <1>3, <2>1, <3>1, <3>2, <3>3
    <2>2. QED BY <2>1
  <1>9. QED
    BY <1>1, <1>7, <1>8, FoldStays DEF same

(***************************************************************************)
(* The substitutions of a rollout                                          *)
(***************************************************************************)

LEMMA LongerFirstExists ==
    ASSUME NEW S, IsFiniteSet(S), \A x \in S : Len(x) \in Nat
    PROVE  \E s \in SetToSeqs(S) : \A i, j \in DOMAIN s : i < j => Len(s[i]) >= Len(s[j])
  <1> DEFINE Sorts(s, n, R) == /\ s \in [1..n -> R]
                               /\ \A i, j \in 1..n : i # j => s[i] # s[j]
                               /\ \A i, j \in 1..n : i < j => Len(s[i]) >= Len(s[j])
             T == {n \in Nat : \A R \in SUBSET S :
                      Cardinality(R) = n => \E s : Sorts(s, n, R)}
  <1>1. 0 \in T
    <2>1. ASSUME NEW R \in SUBSET S, Cardinality(R) = 0 PROVE \E s : Sorts(s, 0, R)
      <3>1. Sorts(<<>>, 0, R)
        OBVIOUS
      <3>2. QED BY <3>1
    <2>2. QED BY <2>1
  <1>2. ASSUME NEW n \in Nat, n \in T PROVE n + 1 \in T
    <2>1. ASSUME NEW R \in SUBSET S, Cardinality(R) = n + 1 PROVE \E s : Sorts(s, n + 1, R)
      <3>1. IsFiniteSet(R)
        BY FS_Subset
      <3>2. R # {}
        BY <2>1, FS_EmptySet
      <3> DEFINE L == {Len(x) : x \in R}
      <3>3. L \subseteq Nat /\ L # {}
        <4>1. PICK x \in R : TRUE
          BY <3>2
        <4>2. Len(x) \in L
          OBVIOUS
        <4>3. L \subseteq Nat
          OBVIOUS
        <4>4. QED BY <4>2, <4>3
      <3>4. PICK least \in L : \A l \in L : least <= l
        <4> HIDE DEF L
        <4>1. QED BY <3>3, LeastNatural
      <3>5. PICK m \in R : Len(m) = least
        BY <3>4
      <3>6. \A x \in R : Len(m) <= Len(x)
        BY <3>4, <3>5
      <3> DEFINE Q == R \ {m}
      <3>7. Q \in SUBSET S /\ Cardinality(Q) = n
        <4>1. Cardinality(R \ {m}) = Cardinality(R) - 1
          BY <3>1, <3>5, FS_RemoveElement
        <4>2. Cardinality(R \ {m}) = (n + 1) - 1
          BY <2>1, <4>1
        <4>3. (n + 1) - 1 = n
          OBVIOUS
        <4>4. QED BY <4>2, <4>3
      <3>8. PICK s : Sorts(s, n, Q)
        <4> HIDE DEF Sorts, Q
        <4>1. QED BY <1>2, <3>7
      <3> DEFINE t == [i \in 1..(n + 1) |-> IF i = n + 1 THEN m ELSE s[i]]
      <3>9. \A i \in 1..(n + 1) : i = n + 1 \/ i \in 1..n
        OBVIOUS
      <3>10. /\ \A i \in 1..n : t[i] = s[i] /\ s[i] \in Q /\ s[i] \in R /\ s[i] # m
             /\ t[n + 1] = m
             /\ n + 1 \notin 1..n
        <4>1. \A i \in 1..n : i \in 1..(n + 1) /\ i # n + 1
          OBVIOUS
        <4>2. \A i \in 1..n : s[i] \in Q
          BY <3>8
        <4>3. QED BY <4>1, <4>2
      <3>11. t \in [1..(n + 1) -> R]
        <4>1. \A i \in 1..(n + 1) : (IF i = n + 1 THEN m ELSE s[i]) \in R
          BY <3>9, <3>10, <3>5
        <4>2. QED BY <4>1
      <3> HIDE DEF t, Q
      <3>12. \A i, j \in 1..(n + 1) : i # j => t[i] # t[j]
        BY <3>8, <3>9, <3>10
      <3>13. ASSUME NEW i \in 1..(n + 1), NEW j \in 1..(n + 1), i < j
             PROVE  Len(t[i]) >= Len(t[j])
        <4>1. i \in 1..n
          BY <3>13
        <4>2. CASE j = n + 1
          <5>1. t[j] = m /\ t[i] = s[i] /\ s[i] \in R /\ m \in R
            BY <3>5, <3>10, <4>1, <4>2
          <5>2. Len(m) <= Len(s[i]) /\ Len(m) \in Nat /\ Len(s[i]) \in Nat
            BY <3>6, <5>1
          <5>3. QED BY <5>1, <5>2
        <4>3. CASE j \in 1..n
          BY <3>8, <3>10, <3>13, <4>1, <4>3
        <4>4. QED BY <3>9, <4>2, <4>3
      <3>14. Sorts(t, n + 1, R)
        BY <3>11, <3>12, <3>13
      <3> HIDE DEF Sorts
      <3>15. QED BY <3>14
    <2>2. QED BY <2>1
  <1> DEFINE n == Cardinality(S)
  <1>3. n \in Nat
    BY FS_CardinalityType
  <1>4. \E s : Sorts(s, n, S)
    <2> HIDE DEF Sorts
    <2>1. Nat \subseteq T
      <3> HIDE DEF T
      <3>1. QED BY <1>1, <1>2, Induction
    <2>2. QED BY <1>3, <2>1
  <1>5. PICK s : Sorts(s, n, S)
    BY <1>4
  <1>6. s \in SetToSeqs(S) /\ DOMAIN s = 1..n
    BY <1>5 DEF SetToSeqs
  <1>7. QED
    BY <1>5, <1>6

(* The sources a plan derives are the names of the project in its file.     *)
LEMMA RecordedAreFinite ==
    ASSUME NEW file, NEW n \in Nat, DOMAIN file = 1..n
    PROVE  IsFiniteSet(RecordedCWDs(file))
  <1> DEFINE places == {j \in DOMAIN file : /\ file[j].type \in MetaTypes
                                            /\ "cwd" \in DOMAIN file[j].fields}
             cwd == [i \in places |-> Decoded(file[i].fields["cwd"])]
  <1>1. IsFiniteSet(places)
    <2>1. IsFiniteSet(1..n)
      BY FS_Interval
    <2>2. places \in SUBSET (1..n)
      OBVIOUS
    <2> HIDE DEF places
    <2>3. QED BY <2>1, <2>2, FS_Subset
  <1>2. RecordedCWDs(file) = {cwd[i] : i \in places}
    BY DEF RecordedCWDs
  <1>3. cwd \in Surjection(places, {cwd[i] : i \in places})
    BY DEF Surjection
  <1> HIDE DEF places, cwd
  <1>4. IsFiniteSet({cwd[i] : i \in places})
    BY <1>1, <1>3, FS_Surjection
  <1>5. QED
    BY <1>2, <1>4

\* The substitutions replace names of the project that the setup's file tells.
FromNames(substitutions, setup) ==
    /\ Len(substitutions) \in Nat
    /\ DOMAIN substitutions = 1..Len(substitutions)
    /\ \A i \in DOMAIN substitutions : substitutions[i].from \in NamesOfTheProject(setup)

LEMMA SourcesAreNames ==
    ASSUME NEW setup \in Setups, move = setup.move, removed = FALSE
    PROVE  FromNames(rolloutFileSubstitutions(setup.lines), setup)
  <1> DEFINE names == NamesOfTheProject(setup)
             file == setup.lines
             sources == rolloutSubstitutionSources(file, move.old)
  <1>1. \A path : pathMatchesProject(path, move.old) <=> NamesProject(setup.move, path)
    BY DEF pathMatchesProject, canonicalizePath, NamesProject
  <1>2. names = {move.old} \cup {cwd \in RecordedCWDs(file) : pathMatchesProject(cwd, move.old)}
    BY <1>1 DEF NamesOfTheProject
  <1>3. IsFiniteSet(names)
    <2>1. Len(file) \in Nat /\ DOMAIN file = 1..Len(file)
      BY LinesAssumption
    <2>2. IsFiniteSet(RecordedCWDs(file))
      BY <2>1, RecordedAreFinite
    <2> DEFINE matching == {cwd \in RecordedCWDs(file) : pathMatchesProject(cwd, move.old)}
    <2>3. IsFiniteSet(matching)
      <3>1. matching \in SUBSET RecordedCWDs(file)
        OBVIOUS
      <3> HIDE DEF matching
      <3>2. QED BY <2>2, <3>1, FS_Subset
    <2>4. names = matching \cup {move.old}
      BY <1>2
    <2> HIDE DEF matching, names
    <2>5. QED BY <2>3, <2>4, FS_AddElement
  <1>4. \A path \in names : Len(path) \in Nat
    BY ForeignAssumption, PathsHaveBytes
  <1>5. sources = CHOOSE s \in SetToSeqs(names) :
                      \A i, j \in DOMAIN s : i < j => Len(s[i]) >= Len(s[j])
    BY <1>2 DEF rolloutSubstitutionSources, LongerFirst
  <1>6. sources \in SetToSeqs(names)
    <2> HIDE DEF names, sources
    <2>1. QED BY <1>3, <1>4, <1>5, LongerFirstExists
  <1>7. /\ Len(sources) \in Nat /\ DOMAIN sources = 1..Len(sources)
        /\ \A i \in DOMAIN sources : sources[i] \in names
    <2>1. Cardinality(names) \in Nat
      BY <1>3, FS_CardinalityType
    <2> HIDE DEF names, sources
    <2>2. sources \in [1..Cardinality(names) -> names]
      BY <1>6 DEF SetToSeqs
    <2>3. QED BY <2>1, <2>2
  <1> DEFINE made == rolloutSubstitutions(sources, move.old, move.new)
  <1>8. DOMAIN made = DOMAIN sources /\ \A i \in DOMAIN sources : made[i].from = sources[i]
    BY DEF rolloutSubstitutions
  <1> HIDE DEF made, sources, names
  <1>9. FromNames(made, setup)
    <2>1. Len(made) = Len(sources)
      <3>1. DOMAIN made = 1..Len(sources) /\ Len(sources) \in Nat
        BY <1>7, <1>8
      <3>2. made = [i \in 1..Len(sources) |-> made[i]]
        BY <3>1 DEF made, rolloutSubstitutions
      <3>3. QED BY <3>1, <3>2
    <2>2. QED BY <1>7, <1>8, <2>1 DEF FromNames, names
  <1>10. FromNames(<<>>, setup)
    BY DEF FromNames
  <1>11. QED
    BY <1>9, <1>10 DEF rolloutFileSubstitutions, made, sources

(***************************************************************************)
(* The lines                                                               *)
(***************************************************************************)

\* The field pass leaves a field that is not among the names, or that holds
\* no name of the project.
LEMMA FieldPassLeaves ==
    ASSUME NEW line, line = [type |-> line.type, fields |-> line.fields],
           NEW names, NEW substitutions, NEW n \in DOMAIN line.fields,
           n \in names =>
               Substituted(Decoded(line.fields[n]), substitutions, ReplacePathInBytes)
                   = Untouched(Decoded(line.fields[n]))
    PROVE  rewriteStructuredRolloutFields(line, names, substitutions).line.fields[n]
               = line.fields[n]
  <1> DEFINE result(m) == Substituted(Decoded(line.fields[m]), substitutions,
                                      ReplacePathInBytes)
             results == [m \in names |-> result(m)]
             fields == [m \in DOMAIN line.fields |->
                           IF m \in names /\ results[m].count > 0 THEN results[m].data
                           ELSE line.fields[m]]
  <1>1. rewriteStructuredRolloutFields(line, names, substitutions).line
            = [line EXCEPT !.fields = fields]
    BY DEF rewriteStructuredRolloutFields
  <1>2. ~(n \in names /\ results[n].count > 0)
    <2>1. n \in names => results[n] = result(n)
      OBVIOUS
    <2>2. n \in names => result(n) = Untouched(Decoded(line.fields[n]))
      OBVIOUS
    <2>3. n \in names => results[n].count = 0
      <3> HIDE DEF results, result
      <3>1. QED BY <2>1, <2>2 DEF Untouched
    <2> HIDE DEF results, result
    <2>4. QED BY <2>3
  <1>3. fields[n] = line.fields[n]
    <2> HIDE DEF results, result
    <2>1. QED BY <1>2
  <1> HIDE DEF fields, results, result
  <1>4. [line EXCEPT !.fields = fields].fields = fields
    OBVIOUS
  <1>5. QED
    BY <1>1, <1>3, <1>4

LEMMA LineKeepsField ==
    ASSUME NEW setup \in Setups, NEW substitutions, FromNames(substitutions, setup),
           NEW line, IsLine(line), NEW n \in DOMAIN line.fields, NEW deep,
           \/ line.type = "malformed"
           \/ Decoded(line.fields[n]) \in Foreign
           \/ ~deep /\ n \notin structuredRolloutFieldPaths(line)
    PROVE  rewriteRolloutLine(line, substitutions, deep).line.fields[n] = line.fields[n]
  <1> DEFINE structured == structuredRolloutFieldPaths(line)
             text == line.fields[n]
             bytes == [m \in DOMAIN line.fields |->
                          Substituted(line.fields[m], substitutions,
                                      ReplacePathInBytesWithJSONEscape)]
             written == [m \in DOMAIN line.fields |-> bytes[m].data]
             updated == [line EXCEPT !.fields = written]
             untouched == {m \in structured : bytes[m].data = line.fields[m]}
             foreign == Decoded(text) \in Foreign
  <1>1. line = [type |-> line.type, fields |-> line.fields] /\ IsText(text)
    BY DEF IsLine
  <1>2. foreign =>
            /\ Substituted(Decoded(text), substitutions, ReplacePathInBytes)
                   = Untouched(Decoded(text))
            /\ Substituted(text, substitutions, ReplacePathInBytesWithJSONEscape)
                   = Untouched(text)
    <2>1. SUFFICES ASSUME foreign
                   PROVE  /\ Substituted(Decoded(text), substitutions, ReplacePathInBytes)
                                 = Untouched(Decoded(text))
                          /\ Substituted(text, substitutions, ReplacePathInBytesWithJSONEscape)
                                 = Untouched(text)
      OBVIOUS
    <2> HIDE DEF text
    <2>2. \A i \in DOMAIN substitutions :
              /\ ReplacePathInBytes(Decoded(text), substitutions[i].from, substitutions[i].to)
                     = Untouched(Decoded(text))
              /\ ReplacePathInBytesWithJSONEscape(text, substitutions[i].from,
                                                  substitutions[i].to) = Untouched(text)
      BY <1>1, <2>1, ForeignTextsAreLeft DEF FromNames
    <2>3. Len(substitutions) \in Nat /\ DOMAIN substitutions = 1..Len(substitutions)
      BY DEF FromNames
    <2>4. Substituted(Decoded(text), substitutions, ReplacePathInBytes)
              = Untouched(Decoded(text))
      BY <2>2, <2>3, NothingSubstituted
    <2>5. Substituted(text, substitutions, ReplacePathInBytesWithJSONEscape) = Untouched(text)
      BY <2>2, <2>3, NothingSubstitutedAsWritten
    <2>6. QED BY <2>4, <2>5
  <1>3. CASE line.type = "malformed"
    <2>1. rewriteRolloutLine(line, substitutions, deep) = [line |-> line, count |-> 0]
      BY <1>3 DEF rewriteRolloutLine
    <2>2. QED BY <2>1
  <1>4. CASE line.type # "malformed" /\ ~deep
    <2>1. rewriteRolloutLine(line, substitutions, deep)
              = rewriteStructuredRolloutFields(line, structured, substitutions)
      BY <1>4 DEF rewriteRolloutLine
    <2>2. n \in structured => foreign
      BY <1>4
    <2> HIDE DEF structured, foreign
    <2>3. QED
      BY <1>1, <1>2, <2>1, <2>2, FieldPassLeaves
  <1>5. CASE line.type # "malformed" /\ deep
    <2> DEFINE pass == rewriteStructuredRolloutFields(updated, untouched, substitutions)
    <2>1. rewriteRolloutLine(line, substitutions, deep).line = pass.line
      BY <1>5 DEF rewriteRolloutLine
    <2>2. foreign
      BY <1>5
    <2>3. bytes[n] = Untouched(text)
      BY <1>2, <2>2
    <2>4. written[n] = text
      <3>1. written[n] = bytes[n].data
        OBVIOUS
      <3> HIDE DEF written, bytes, text
      <3>2. QED BY <2>3, <3>1 DEF Untouched
    <2>5. updated = [type |-> line.type, fields |-> written]
      <3> HIDE DEF written
      <3>1. QED BY <1>1
    <2>6. n \in DOMAIN written
      OBVIOUS
    <2>7. /\ updated.fields = written
          /\ updated = [type |-> updated.type, fields |-> updated.fields]
      <3> HIDE DEF updated, written
      <3>1. QED BY <2>5
    <2>8. Substituted(Decoded(updated.fields[n]), substitutions, ReplacePathInBytes)
              = Untouched(Decoded(updated.fields[n]))
      <3> HIDE DEF updated, written, text, foreign
      <3>1. QED BY <1>2, <2>2, <2>4, <2>7
    <2>9. pass.line.fields[n] = updated.fields[n]
      <3>1. n \in DOMAIN updated.fields
        <4> HIDE DEF updated, written
        <4>1. QED BY <2>6, <2>7
      <3> HIDE DEF updated, written, untouched
      <3>2. QED BY <2>7, <2>8, <3>1, FieldPassLeaves
    <2>10. updated.fields[n] = text
      <3> HIDE DEF updated, written, text
      <3>1. QED BY <2>4, <2>7
    <2> HIDE DEF pass, updated, written
    <2>11. QED BY <2>1, <2>9, <2>10
  <1>6. QED
    BY <1>3, <1>4, <1>5

(***************************************************************************)
(* The file                                                                *)
(***************************************************************************)

IsFile(file) ==
    /\ file \in Seq({file[i] : i \in DOMAIN file})
    /\ \A i \in DOMAIN file : IsLine(file[i])

Untaken == pc \in {"plan", "planned", "state", "queue"}
Taken == pc = "applied" \/ outcome = "moved"

\* The plan replaces names of the project as the setup tells it.
NamesArePlanned ==
    \E setup \in Setups :
        /\ move = setup.move
        /\ pc = "plan" => lines = setup.lines /\ removed = FALSE
        /\ FromNames(plan.substitutions, setup)

(* What a file holds: lines until it is rewritten, and then those lines or  *)
(* what the planned substitutions make of them.                             *)
FileInv ==
    /\ NamesArePlanned
    /\ Untaken => IsFile(lines)
    /\ Taken => /\ IsFile(before)
                /\ \/ lines = before
                   \/ lines = rewriteRolloutLines(before, plan.substitutions, move.deep).lines
    /\ outcome = "moved" => pc = "done"

LEMMA FileInit == Init => FileInv
  <1> SUFFICES ASSUME Init PROVE FileInv
    OBVIOUS
  <1>1. PICK setup \in Setups : InitRollout(setup)
    BY DEF Init
  <1>2. /\ move = setup.move /\ lines = setup.lines /\ removed = FALSE
        /\ plan = NoPlan /\ outcome = "none" /\ pc = "plan"
    BY <1>1 DEF InitRollout
  <1>3. FromNames(plan.substitutions, setup)
    <2>1. plan.substitutions = <<>>
      BY <1>2 DEF NoPlan
    <2>2. QED BY <2>1 DEF FromNames
  <1>4. NamesArePlanned
    BY <1>2, <1>3 DEF NamesArePlanned
  <1>5. IsFile(lines)
    BY <1>2, LinesAssumption DEF IsFile
  <1>6. QED
    BY <1>2, <1>4, <1>5 DEF FileInv, Taken

\* A step that leaves the file and the plan alone and does not go back.
LEMMA FileAside ==
    ASSUME FileInv, UNCHANGED <<move, lines, plan, before>>,
           pc' # "plan", Untaken' => Untaken, Taken' => Taken,
           outcome' = "moved" => pc' = "done"
    PROVE  FileInv'
  <1>1. NamesArePlanned'
    BY DEF FileInv, NamesArePlanned
  <1>2. Untaken' => IsFile(lines)'
    BY DEF FileInv, IsFile
  <1>3. Taken' => /\ IsFile(before)'
                  /\ \/ lines' = before'
                     \/ lines' = rewriteRolloutLines(before, plan.substitutions,
                                                     move.deep).lines
    BY DEF FileInv, IsFile
  <1>4. rewriteRolloutLines(before, plan.substitutions, move.deep)'
            = rewriteRolloutLines(before, plan.substitutions, move.deep)
    OBVIOUS
  <1>5. QED
    BY <1>1, <1>2, <1>3, <1>4 DEF FileInv

LEMMA FilePlanned == FileInv /\ Plan => FileInv'
  <1> SUFFICES ASSUME FileInv, Plan PROVE FileInv'
    OBVIOUS
  <1>1. /\ pc = "plan" /\ pc' = "planned" /\ outcome' = outcome /\ before' = before
        /\ move' = move /\ lines' = lines
        /\ plan'.substitutions = rolloutFileSubstitutions(lines)
    BY DEF Plan, PlanRollout
  <1>2. PICK setup \in Setups : /\ move = setup.move
                                /\ lines = setup.lines /\ removed = FALSE
    BY <1>1 DEF FileInv, NamesArePlanned
  <1>3. FromNames(plan'.substitutions, setup)
    BY <1>1, <1>2, SourcesAreNames
  <1>4. NamesArePlanned'
    BY <1>1, <1>2, <1>3 DEF NamesArePlanned
  <1>5. IsFile(lines)'
    BY <1>1 DEF FileInv, Untaken, IsFile
  <1>6. ~Taken' /\ outcome' # "moved"
    BY <1>1 DEF FileInv, Taken
  <1>7. QED
    BY <1>4, <1>5, <1>6 DEF FileInv

LEMMA FileGrows == FileInv /\ SessionWritesLines => FileInv'
  <1> SUFFICES ASSUME FileInv, SessionWritesLines PROVE FileInv'
    OBVIOUS
  <1>1. /\ pc = "planned" /\ UNCHANGED <<move, removed, plan, outcome, pc, before>>
        /\ \E line \in move.newLines : lines' = Append(lines, line)
    BY DEF SessionWritesLines, SessionAppends
  <1>2. PICK setup \in Setups : move = setup.move /\ FromNames(plan.substitutions, setup)
    BY DEF FileInv, NamesArePlanned
  <1>3. PICK line \in move.newLines : lines' = Append(lines, line)
    BY <1>1
  <1>4. IsLine(line)
    BY <1>2, <1>3, LinesAssumption
  <1>5. IsFile(lines)
    BY <1>1 DEF FileInv, Untaken
  <1>6. IsFile(lines')
    <2> DEFINE S == {lines[i] : i \in DOMAIN lines}
               T == S \cup {line}
               longer == Append(lines, line)
    <2>1. lines \in Seq(T)
      <3>1. lines \in Seq(S)
        BY <1>5 DEF IsFile
      <3> HIDE DEF S
      <3>2. QED BY <3>1
    <2>2. /\ Len(lines) \in Nat /\ DOMAIN lines = 1..Len(lines)
          /\ Len(longer) = Len(lines) + 1 /\ DOMAIN longer = 1..(Len(lines) + 1)
          /\ \A i \in 1..Len(lines) : longer[i] = lines[i]
          /\ longer[Len(lines) + 1] = line
      <3> HIDE DEF T
      <3>1. QED BY <2>1
    <2>3. \A i \in DOMAIN longer : IsLine(longer[i])
      <3>1. \A i \in DOMAIN lines : IsLine(lines[i])
        BY <1>5 DEF IsFile
      <3> DEFINE k == Len(lines)
      <3>2. \A i \in 1..(k + 1) : i \in 1..k \/ i = k + 1
        BY <2>2
      <3> HIDE DEF k, longer
      <3>3. QED BY <1>4, <2>2, <3>1, <3>2 DEF k
    <2>4. longer \in Seq({longer[i] : i \in DOMAIN longer})
      <3> DEFINE k == Len(lines) + 1
                 L == {longer[i] : i \in DOMAIN longer}
      <3>1. longer = [i \in 1..k |-> longer[i]]
        <4>1. longer \in Seq(T)
          <5>1. line \in T
            OBVIOUS
          <5> HIDE DEF T
          <5>2. QED BY <2>1, <5>1
        <4>2. longer = [i \in DOMAIN longer |-> longer[i]]
          <5> HIDE DEF T, longer
          <5>1. QED BY <4>1
        <4>3. QED BY <2>2, <4>2
      <3>2. k \in Nat
        BY <2>2
      <3>3. \A i \in 1..k : longer[i] \in L
        BY <2>2
      <3> HIDE DEF k, L, longer
      <3>4. longer \in [1..k -> L]
        BY <3>1, <3>3
      <3>5. longer \in Seq(L)
        BY <3>2, <3>4
      <3>6. QED BY <3>5 DEF L
    <2>5. QED BY <1>3, <2>3, <2>4 DEF IsFile
  <1>7. NamesArePlanned'
    BY <1>1, <1>2 DEF NamesArePlanned
  <1>8. ~Taken' /\ outcome' # "moved"
    BY <1>1 DEF FileInv, Taken
  <1>9. IsFile(lines)'
    BY <1>6 DEF IsFile
  <1>10. QED
    BY <1>7, <1>8, <1>9 DEF FileInv

LEMMA FileRewritten == FileInv /\ RewriteRollout => FileInv'
  <1> SUFFICES ASSUME FileInv, RewriteRollout PROVE FileInv'
    OBVIOUS
  <1> DEFINE result == rewriteRolloutLines(lines, plan.substitutions, move.deep)
  <1>1. /\ pc = "queue" /\ pc' = "applied"
        /\ UNCHANGED <<move, removed, plan, outcome>>
        /\ before' = lines
        /\ lines' = lines \/ lines' = result.lines
    <2>1. pc = "queue" /\ Apply
      BY DEF RewriteRollout
    <2> HIDE DEF result
    <2>2. QED BY <2>1 DEF Apply, Captured, result
  <1>2. IsFile(lines)
    BY <1>1 DEF FileInv, Untaken
  <1>3. IsFile(before)'
    BY <1>1, <1>2 DEF IsFile
  <1>4. rewriteRolloutLines(before, plan.substitutions, move.deep)' = result
    BY <1>1
  <1> HIDE DEF result
  <1>5. \/ lines' = before'
        \/ lines' = rewriteRolloutLines(before, plan.substitutions, move.deep)'.lines
    BY <1>1, <1>4
  <1>6. NamesArePlanned'
    BY <1>1 DEF FileInv, NamesArePlanned
  <1>7. ~Untaken' /\ outcome' # "moved"
    BY <1>1 DEF FileInv, Untaken
  <1>8. QED
    BY <1>3, <1>5, <1>6, <1>7 DEF FileInv

LEMMA FileRestored == FileInv /\ Fail => FileInv'
  <1> SUFFICES ASSUME FileInv, Fail PROVE FileInv'
    OBVIOUS
  <1>1. pc' = "done" /\ outcome' = "failed" /\ UNCHANGED <<move, plan>>
    BY DEF Fail, RestoreRollout, End
  <1>2. NamesArePlanned'
    BY <1>1 DEF FileInv, NamesArePlanned
  <1>3. ~Untaken' /\ ~Taken' /\ outcome' # "moved"
    BY <1>1 DEF Untaken, Taken
  <1>4. QED
    BY <1>2, <1>3 DEF FileInv

LEMMA FileNext == FileInv /\ [Next]_vars => FileInv'
  <1> SUFFICES ASSUME FileInv, [Next]_vars PROVE FileInv'
    OBVIOUS
  <1>1. outcome = "moved" => pc = "done"
    BY DEF FileInv
  <1>2. CASE SessionChangesRows \/ DirectoryLeaves \/ OpenDatabases
    <2>1. /\ pc = "planned" /\ pc' \in {"planned", "state"}
          /\ UNCHANGED <<move, lines, plan, outcome, before>>
      BY <1>2 DEF SessionChangesRows, DirectoryLeaves, OtherToolMoves, OpenDatabases, rolloutVars
    <2>2. QED
      BY <1>1, <2>1, FileAside DEF Untaken, Taken
  <1>3. CASE WriteStateRow \/ WriteQueueRow
    <2>1. /\ pc \in {"state", "queue"} /\ UNCHANGED <<move, lines, plan, before>>
          /\ \E w \in pending : WriteRow(w)
      BY <1>3 DEF WriteStateRow, WriteQueueRow
    <2>2. \/ pc' = pc /\ outcome' = outcome
          \/ pc' = "done" /\ outcome' = "failed"
      BY <2>1 DEF WriteRow, FailsOn, End
    <2>3. QED
      BY <1>1, <2>1, <2>2, FileAside DEF Untaken, Taken
  <1>4. CASE rewriteStage1TextColumns
    <2>1. /\ pc = "state" /\ UNCHANGED <<move, lines, plan, before>>
          /\ \/ pc' = "queue" /\ outcome' = outcome
             \/ pc' = "done" /\ outcome' = "failed"
      BY <1>4 DEF rewriteStage1TextColumns, FailsOn, End
    <2>2. QED
      BY <1>1, <2>1, FileAside DEF Untaken, Taken
  <1>5. CASE Commit
    <2>1. /\ pc = "applied" /\ UNCHANGED <<move, lines, plan, before>>
          /\ pc' = "done" /\ outcome' = "moved"
      BY <1>5 DEF Commit, End
    <2>2. QED
      BY <2>1, FileAside DEF Untaken, Taken
  <1>6. CASE RefusePlan
    <2>1. /\ UNCHANGED <<move, lines, plan, before>>
          /\ pc' = "done" /\ outcome' = "refused"
      BY <1>6 DEF RefusePlan, Refuse, End
    <2>2. QED
      BY <2>1, FileAside DEF Untaken, Taken
  <1>7. CASE UNCHANGED vars
    <2>1. UNCHANGED <<move, lines, removed, plan, outcome, pc, before>>
      BY <1>7 DEF vars, rolloutVars
    <2>2. NamesArePlanned' /\ (Untaken <=> Untaken') /\ (Taken <=> Taken')
      BY <2>1 DEF FileInv, NamesArePlanned, Untaken, Taken
    <2>3. IsFile(lines)' = IsFile(lines) /\ IsFile(before)' = IsFile(before)
      BY <2>1 DEF IsFile
    <2>4. rewriteRolloutLines(before, plan.substitutions, move.deep)'
              = rewriteRolloutLines(before, plan.substitutions, move.deep)
      BY <2>1
    <2>5. QED
      BY <2>1, <2>2, <2>3, <2>4 DEF FileInv
  <1>8. QED
    BY <1>2, <1>3, <1>4, <1>5, <1>6, <1>7, FilePlanned, FileGrows, FileRewritten, FileRestored
    DEF Next

(* After a move, a field of another directory, of a malformed line or, by   *)
(* default, outside of the structured ones has the bytes it had: whatever   *)
(* the substitutions are, they replace names of the project only, and a     *)
(* text that only resembles one goes on where the name would have to end.   *)
THEOREM OthersAreLeftAlone == Spec => []OthersKeepTheirBytes
  <1>1. FileInv => OthersKeepTheirBytes
    <2> SUFFICES ASSUME FileInv, outcome = "moved",
                        NEW i \in DOMAIN before, NEW n \in DOMAIN before[i].fields,
                        \/ before[i].type = "malformed"
                        \/ Decoded(before[i].fields[n]) \in Foreign
                        \/ ~move.deep /\ n \notin structuredRolloutFieldPaths(before[i])
                 PROVE  lines[i].fields[n] = before[i].fields[n]
      BY DEF OthersKeepTheirBytes
    <2>1. PICK setup \in Setups : FromNames(plan.substitutions, setup)
      BY DEF FileInv, NamesArePlanned
    <2>2. IsLine(before[i])
      BY DEF FileInv, Taken, IsFile
    <2> DEFINE written == rewriteRolloutLine(before[i], plan.substitutions, move.deep).line
    <2>3. written.fields[n] = before[i].fields[n]
      BY <2>1, <2>2, LineKeepsField
    <2>4. \/ lines = before
          \/ lines = rewriteRolloutLines(before, plan.substitutions, move.deep).lines
      BY DEF FileInv, Taken
    <2>5. rewriteRolloutLines(before, plan.substitutions, move.deep).lines[i] = written
      BY DEF rewriteRolloutLines
    <2> HIDE DEF written
    <2>6. QED BY <2>3, <2>4, <2>5
  <1>2. QED
    BY <1>1, FileInit, FileNext, PTL DEF Spec

(***************************************************************************)
(* Counting and replacing                                                  *)
(***************************************************************************)

\* What a loop over n places computes that goes one or l places on.
Looped(f, n, l, S, none, step) ==
    /\ f \in [1..(n + l + 1) -> S]
    /\ \A i \in 1..(n + l + 1) :
          f[i] = IF i > n THEN none ELSE step[<<i, f[i + 1], f[i + l]>>]

(* Such a loop has a result, from the last place backwards.                 *)
LEMMA LoopsEnd ==
    ASSUME NEW n \in Nat, NEW l \in Nat, l > 0, NEW S, NEW none \in S,
           NEW step \in [(1..n) \X S \X S -> S]
    PROVE  \E f : Looped(f, n, l, S, none, step)
  <1> DEFINE last == n + l + 1
             Done(f, k) == /\ f \in [1..last -> S]
                           /\ \A i \in 1..last : i > k =>
                                 f[i] = IF i > n THEN none ELSE step[<<i, f[i + 1], f[i + l]>>]
             T == {d \in Nat : d <= n => \E f : Done(f, n - d)}
  <1>1. last \in Nat /\ \A i \in 1..n : i + 1 \in 1..last /\ i + l \in 1..last /\ i \in 1..last
    OBVIOUS
  <1>2. 0 \in T
    <2> DEFINE f == [i \in 1..last |-> none]
    <2>1. f \in [1..last -> S] /\ \A i \in 1..last : f[i] = none
      OBVIOUS
    <2>2. Done(f, n - 0)
      <3>1. n - 0 = n
        OBVIOUS
      <3> HIDE DEF f, last
      <3>2. QED BY <2>1, <3>1
    <2> HIDE DEF f, Done
    <2>3. QED BY <2>2
  <1>3. ASSUME NEW d \in Nat, d \in T PROVE d + 1 \in T
    <2> HIDE DEF Done
    <2>1. SUFFICES ASSUME d + 1 <= n PROVE \E f : Done(f, n - (d + 1))
      OBVIOUS
    <2> DEFINE k == n - d
    <2>2. k \in 1..n /\ k - 1 = n - (d + 1) /\ k \in Nat /\ d <= n
      BY <2>1
    <2>3. PICK f : Done(f, k)
      BY <1>3, <2>2
    <2> DEFINE here == step[<<k, f[k + 1], f[k + l]>>]
               g == [i \in 1..last |-> IF i = k THEN here ELSE f[i]]
    <2> HIDE DEF k, last
    <2>4. f \in [1..last -> S]
      BY <2>3 DEF Done
    <2>5. here \in S
      BY <1>1, <2>2, <2>4
    <2>6. g \in [1..last -> S]
      BY <2>4, <2>5
    <2> HIDE DEF here
    <2>7. \A i \in 1..last : i > k - 1 =>
              g[i] = IF i > n THEN none ELSE step[<<i, g[i + 1], g[i + l]>>]
      <3>1. ASSUME NEW i \in 1..last, i > k - 1
            PROVE  g[i] = IF i > n THEN none ELSE step[<<i, g[i + 1], g[i + l]>>]
        <4>1. CASE i = k
          <5>1. k + 1 # k /\ k + l # k /\ k + 1 \in 1..last /\ k + l \in 1..last /\ ~(k > n)
            BY <1>1, <2>2
          <5>2. g[k] = here /\ g[k + 1] = f[k + 1] /\ g[k + l] = f[k + l]
            BY <3>1, <4>1, <5>1
          <5>3. g[k] = step[<<k, g[k + 1], g[k + l]>>]
            BY <5>2 DEF here
          <5>4. QED BY <4>1, <5>1, <5>3
        <4>2. CASE i # k
          <5>1. i > k
            BY <2>2, <3>1, <4>2
          <5>2. g[i] = f[i]
            BY <4>2
          <5>3. f[i] = IF i > n THEN none ELSE step[<<i, f[i + 1], f[i + l]>>]
            BY <2>3, <5>1 DEF Done
          <5>4. CASE i > n
            BY <5>2, <5>3, <5>4
          <5>5. CASE ~(i > n)
            <6>1. i \in 1..n
              BY <5>5
            <6>2. i + 1 \in 1..last /\ i + l \in 1..last /\ i + 1 # k /\ i + l # k
              BY <1>1, <2>2, <5>1, <6>1
            <6>3. g[i + 1] = f[i + 1] /\ g[i + l] = f[i + l]
              BY <6>2
            <6> HIDE DEF g
            <6>4. QED BY <5>2, <5>3, <5>5, <6>3
          <5>6. QED BY <5>4, <5>5
        <4>3. QED BY <4>1, <4>2
      <3>2. QED BY <3>1
    <2>8. Done(g, k - 1)
      <3> HIDE DEF g
      <3>1. QED BY <2>6, <2>7 DEF Done
    <2> HIDE DEF g
    <2>9. QED BY <2>2, <2>8
  <1>4. n \in T
    <2>1. Nat \subseteq T
      <3> HIDE DEF T
      <3>1. QED BY <1>2, <1>3, Induction
    <2>2. QED BY <2>1
  <1>5. PICK f : Done(f, n - n)
    <2> HIDE DEF Done
    <2>1. QED BY <1>4
  <1>6. \A i \in 1..last : i > n - n
    OBVIOUS
  <1>7. Looped(f, n, l, S, none, step)
    BY <1>5, <1>6 DEF Looped
  <1>8. QED
    BY <1>7

(* What holds behind a text, and at a place if it holds one and l places    *)
(* on, holds at all places.                                                 *)
LEMMA FromTheEnd ==
    ASSUME NEW n \in Nat, NEW l \in Nat, l > 0, NEW P,
           \A i \in 1..(n + l + 1) : i > n => i \in P,
           \A i \in 1..n : i + 1 \in P /\ i + l \in P => i \in P
    PROVE  \A i \in 1..(n + l + 1) : i \in P
  <1> DEFINE last == n + l + 1
             T == {k \in Nat : k <= n => \A i \in 1..last : i > n - k => i \in P}
  <1>1. 0 \in T
    OBVIOUS
  <1>2. ASSUME NEW k \in Nat, k \in T PROVE k + 1 \in T
    <2>1. SUFFICES ASSUME k + 1 <= n, NEW i \in 1..last, i > n - (k + 1) PROVE i \in P
      OBVIOUS
    <2>2. CASE i > n - k
      BY <1>2, <2>1, <2>2
    <2>3. CASE ~(i > n - k)
      <3>1. i \in 1..n /\ i + 1 \in 1..last /\ i + l \in 1..last
            /\ i + 1 > n - k /\ i + l > n - k
        BY <2>1, <2>3
      <3>2. i + 1 \in P /\ i + l \in P
        BY <1>2, <2>1, <3>1
      <3>3. QED BY <3>1, <3>2
    <2>4. QED BY <2>2, <2>3
  <1>3. n \in T
    <2>1. Nat \subseteq T
      <3> HIDE DEF T
      <3>1. QED BY <1>1, <1>2, Induction
    <2>2. QED BY <2>1
  <1>4. \A i \in 1..last : i > n - n
    OBVIOUS
  <1>5. QED
    BY <1>3, <1>4

\* What the two loops have at each place.
Replaces(text, path, new, f) ==
    \A i \in 1..(Len(text) + Len(path) + 1) :
        /\ i > Len(text) => f[i] = [data |-> <<>>, count |-> 0]
        /\ ~(i > Len(text)) /\ BoundedAt(text, path, i) =>
               f[i] = [data |-> new \o f[i + Len(path)].data,
                       count |-> f[i + Len(path)].count + 1]
        /\ ~(i > Len(text)) /\ ~BoundedAt(text, path, i) =>
               f[i] = [data |-> <<text[i]>> \o f[i + 1].data, count |-> f[i + 1].count]

Counts(text, path, f) ==
    \A i \in 1..(Len(text) + Len(path) + 1) :
        /\ i > Len(text) => f[i] = 0
        /\ ~(i > Len(text)) /\ BoundedAt(text, path, i) => f[i] = 1 + f[i + Len(path)]
        /\ ~(i > Len(text)) /\ ~BoundedAt(text, path, i) => f[i] = f[i + 1]

LEMMA ReplacingEnds ==
    ASSUME NEW text, IsText(text), NEW path, Len(path) \in Nat, Len(path) > 0,
           NEW new, IsText(new)
    PROVE  \E f : Replaces(text, path, new, f) /\ ReplacePathInBytes(text, path, new) = f[1]
  <1> DEFINE n == Len(text)
             l == Len(path)
             B == {text[i] : i \in DOMAIN text} \cup {new[i] : i \in DOMAIN new}
             S == [data : Seq(B), count : Nat]
             none == [data |-> <<>>, count |-> 0]
             hit(b) == [data |-> new \o b.data, count |-> b.count + 1]
             miss(i, a) == [data |-> <<text[i]>> \o a.data, count |-> a.count]
             step == [t \in (1..n) \X S \X S |->
                         IF BoundedAt(text, path, t[1]) THEN hit(t[3]) ELSE miss(t[1], t[2])]
             Body(f, i) == IF i > n THEN none
                           ELSE IF BoundedAt(text, path, i) THEN hit(f[i + l])
                           ELSE miss(i, f[i + 1])
             Solves(f) == f = [i \in 1..(n + l + 1) |-> Body(f, i)]
             loop == CHOOSE f : Solves(f)
  <1>1. n \in Nat /\ text \in [1..n -> B] /\ new \in Seq(B)
    <2>1. n \in Nat /\ DOMAIN text = 1..n /\ text \in Seq({text[i] : i \in DOMAIN text})
          /\ new \in Seq({new[i] : i \in DOMAIN new})
      BY TextsHaveBytes
    <2>2. text \in Seq(B) /\ new \in Seq(B)
      <3> DEFINE A == {text[i] : i \in DOMAIN text}
                 C == {new[i] : i \in DOMAIN new}
      <3> HIDE DEF A, C
      <3>1. text \in Seq(A \cup C) /\ new \in Seq(A \cup C)
        BY <2>1 DEF A, C
      <3>2. QED BY <3>1 DEF A, C
    <2> HIDE DEF B
    <2>3. QED BY <2>1, <2>2
  <1>2. none \in S
    OBVIOUS
  <1>3. \A b \in S : hit(b) \in S
    <2> HIDE DEF B
    <2>1. QED BY <1>1
  <1>4. \A i \in 1..n : \A a \in S : miss(i, a) \in S
    <2> HIDE DEF B
    <2>1. \A i \in 1..n : text[i] \in B
      BY <1>1
    <2>2. \A i \in 1..n : <<text[i]>> \in Seq(B)
      BY <2>1
    <2>3. QED BY <2>2
  <1> HIDE DEF S, hit, miss, none
  <1>5. step \in [(1..n) \X S \X S -> S]
    BY <1>3, <1>4
  <1>6. \A i \in 1..n : \A a, b \in S :
            step[<<i, a, b>>] = IF BoundedAt(text, path, i) THEN hit(b) ELSE miss(i, a)
    OBVIOUS
  <1> HIDE DEF step, n, l
  <1>7. PICK f : Looped(f, n, l, S, none, step)
    BY <1>1, <1>2, <1>5, LoopsEnd DEF l
  <1>8. Solves(f)
    <2>1. \A i \in 1..(n + l + 1) : f[i] = Body(f, i)
      <3>1. ASSUME NEW i \in 1..(n + l + 1) PROVE f[i] = Body(f, i)
        <4>1. f[i] = IF i > n THEN none ELSE step[<<i, f[i + 1], f[i + l]>>]
          BY <1>7 DEF Looped
        <4>2. CASE i > n
          BY <4>1, <4>2
        <4>3. CASE ~(i > n)
          <5>1. i \in 1..n /\ i + 1 \in 1..(n + l + 1) /\ i + l \in 1..(n + l + 1)
            BY <1>1, <4>3 DEF l
          <5>2. f[i + 1] \in S /\ f[i + l] \in S
            BY <1>7, <5>1 DEF Looped
          <5>3. QED BY <1>6, <4>1, <4>3, <5>1, <5>2
        <4>4. QED BY <4>2, <4>3
      <3>2. QED BY <3>1
    <2>2. f = [i \in 1..(n + l + 1) |-> f[i]]
      BY <1>7 DEF Looped
    <2> HIDE DEF Body
    <2>3. QED BY <2>1, <2>2
  <1>9. Solves(loop)
    <2> HIDE DEF Solves
    <2>1. QED BY <1>8
  <1> HIDE DEF loop
  <1>10. \A i \in 1..(n + l + 1) : loop[i] = Body(loop, i)
    <2> HIDE DEF Body
    <2>1. QED BY <1>9
  <1>11. Replaces(text, path, new, loop)
    BY <1>10 DEF Replaces, n, l, none, hit, miss
  <1>12. ReplacePathInBytes(text, path, new) = loop[1]
    BY DEF ReplacePathInBytes, loop, n, l, none, hit, miss
  <1>13. QED
    BY <1>11, <1>12

LEMMA CountingEnds ==
    ASSUME NEW text, IsText(text), NEW path, Len(path) \in Nat, Len(path) > 0
    PROVE  \E f : Counts(text, path, f) /\ countBoundedPath(text, path) = f[1]
  <1> DEFINE n == Len(text)
             l == Len(path)
             step == [t \in (1..n) \X Nat \X Nat |->
                         IF BoundedAt(text, path, t[1]) THEN 1 + t[3] ELSE t[2]]
             Body(f, i) == IF i > n THEN 0
                           ELSE IF BoundedAt(text, path, i) THEN 1 + f[i + l]
                           ELSE f[i + 1]
             Solves(f) == f = [i \in 1..(n + l + 1) |-> Body(f, i)]
             loop == CHOOSE f : Solves(f)
  <1>1. n \in Nat
    BY TextsHaveBytes
  <1>2. step \in [(1..n) \X Nat \X Nat -> Nat]
    OBVIOUS
  <1>3. \A i \in 1..n : \A a, b \in Nat :
            step[<<i, a, b>>] = IF BoundedAt(text, path, i) THEN 1 + b ELSE a
    OBVIOUS
  <1> HIDE DEF step, n, l
  <1>4. PICK f : Looped(f, n, l, Nat, 0, step)
    BY <1>1, <1>2, LoopsEnd DEF l
  <1>5. Solves(f)
    <2>1. \A i \in 1..(n + l + 1) : f[i] = Body(f, i)
      <3>1. ASSUME NEW i \in 1..(n + l + 1) PROVE f[i] = Body(f, i)
        <4>1. f[i] = IF i > n THEN 0 ELSE step[<<i, f[i + 1], f[i + l]>>]
          BY <1>4 DEF Looped
        <4>2. CASE i > n
          BY <4>1, <4>2
        <4>3. CASE ~(i > n)
          <5>1. i \in 1..n /\ i + 1 \in 1..(n + l + 1) /\ i + l \in 1..(n + l + 1)
            BY <1>1, <4>3 DEF l
          <5>2. f[i + 1] \in Nat /\ f[i + l] \in Nat
            BY <1>4, <5>1 DEF Looped
          <5>3. QED BY <1>3, <4>1, <4>3, <5>1, <5>2
        <4>4. QED BY <4>2, <4>3
      <3>2. QED BY <3>1
    <2>2. f = [i \in 1..(n + l + 1) |-> f[i]]
      BY <1>4 DEF Looped
    <2> HIDE DEF Body
    <2>3. QED BY <2>1, <2>2
  <1>6. Solves(loop)
    <2> HIDE DEF Solves
    <2>1. QED BY <1>5
  <1> HIDE DEF loop
  <1>7. \A i \in 1..(n + l + 1) : loop[i] = Body(loop, i)
    <2> HIDE DEF Body
    <2>1. QED BY <1>6
  <1>8. Counts(text, path, loop)
    BY <1>7 DEF Counts, n, l
  <1>9. countBoundedPath(text, path) = loop[1]
    BY DEF countBoundedPath, loop, n, l
  <1>10. QED
    BY <1>8, <1>9

(* What a plan counts is what an apply replaces: countBoundedPath mirrors   *)
(* the loop of ReplacePathInBytes for every text, path and new path.        *)
THEOREM CountingAgrees ==
    ASSUME NEW text, IsText(text), NEW path, IsText(path), path # <<>>,
           NEW new, IsText(new)
    PROVE  countBoundedPath(text, path) = ReplacePathInBytes(text, path, new).count
  <1> DEFINE n == Len(text)
             l == Len(path)
  <1>1. n \in Nat /\ l \in Nat /\ l > 0
    <2>1. l # 0
      BY TextsHaveBytes, EmptySeq
    <2>2. QED BY <2>1, TextsHaveBytes
  <1>2. PICK f : Replaces(text, path, new, f) /\ ReplacePathInBytes(text, path, new) = f[1]
    BY <1>1, ReplacingEnds
  <1>3. PICK g : Counts(text, path, g) /\ countBoundedPath(text, path) = g[1]
    BY <1>1, CountingEnds
  <1> DEFINE P == {i \in 1..(n + l + 1) : g[i] \in Nat /\ f[i].count = g[i]}
  <1>4. \A i \in 1..(n + l + 1) : i > n => i \in P
    <2>1. ASSUME NEW i \in 1..(n + l + 1), i > n PROVE i \in P
      <3>1. f[i] = [data |-> <<>>, count |-> 0]
        BY <1>2, <2>1 DEF Replaces
      <3>2. g[i] = 0
        BY <1>3, <2>1 DEF Counts
      <3>3. f[i].count = 0
        BY <3>1
      <3>4. QED BY <3>2, <3>3
    <2>2. QED BY <2>1
  <1>5. ASSUME NEW i \in 1..n, i + 1 \in P, i + l \in P PROVE i \in P
    <2>1. i \in 1..(n + l + 1) /\ ~(i > n)
      BY <1>1
    <2>2. CASE BoundedAt(text, path, i)
      <3>1. f[i].count = f[i + l].count + 1 /\ g[i] = 1 + g[i + l]
        <4>1. f[i] = [data |-> new \o f[i + l].data, count |-> f[i + l].count + 1]
          BY <1>2, <2>1, <2>2 DEF Replaces
        <4>2. QED BY <1>3, <2>1, <2>2, <4>1 DEF Counts
      <3>2. QED BY <1>5, <2>1, <3>1
    <2>3. CASE ~BoundedAt(text, path, i)
      <3>1. f[i].count = f[i + 1].count /\ g[i] = g[i + 1]
        <4>1. f[i] = [data |-> <<text[i]>> \o f[i + 1].data, count |-> f[i + 1].count]
          BY <1>2, <2>1, <2>3 DEF Replaces
        <4>2. QED BY <1>3, <2>1, <2>3, <4>1 DEF Counts
      <3>2. QED BY <1>5, <2>1, <3>1
    <2>4. QED BY <2>2, <2>3
  <1>6. \A i \in 1..(n + l + 1) : i \in P
    <2> HIDE DEF P, n, l
    <2>1. QED BY <1>1, <1>4, <1>5, FromTheEnd
  <1>7. 1 \in P
    BY <1>1, <1>6
  <1>8. QED
    BY <1>2, <1>3, <1>7

(* A path moved to itself changes no byte.                                  *)
THEOREM MovedNowhere ==
    ASSUME NEW text, IsText(text), NEW path, IsText(path), path # <<>>
    PROVE  ReplacePathInBytes(text, path, path).data = text
  <1> DEFINE n == Len(text)
             l == Len(path)
             rest(i) == SubSeq(text, i, Len(text))
  <1>1. n \in Nat /\ l \in Nat /\ l > 0
    <2>1. l # 0
      BY TextsHaveBytes, EmptySeq
    <2>2. QED BY <2>1, TextsHaveBytes
  <1>2. PICK f : Replaces(text, path, path, f) /\ ReplacePathInBytes(text, path, path) = f[1]
    BY <1>1, ReplacingEnds
  <1> DEFINE P == {i \in 1..(n + l + 1) : f[i].data = rest(i)}
  <1>3. \A i \in 1..(n + l + 1) : i > n => i \in P
    <2>1. ASSUME NEW i \in 1..(n + l + 1), i > n PROVE i \in P
      <3>1. f[i].data = <<>>
        <4>1. f[i] = [data |-> <<>>, count |-> 0]
          BY <1>2, <2>1 DEF Replaces
        <4>2. QED BY <4>1
      <3>2. rest(i) = <<>>
        BY <1>1, <2>1, TextsHaveBytes, SubSeqEmpty
      <3>3. QED BY <3>1, <3>2
    <2>2. QED BY <2>1
  <1>4. ASSUME NEW i \in 1..n, i + 1 \in P, i + l \in P PROVE i \in P
    <2>1. i \in 1..(n + l + 1) /\ ~(i > n)
      BY <1>1
    <2>2. CASE BoundedAt(text, path, i)
      <3>1. f[i].data = path \o rest(i + l)
        <4>1. f[i] = [data |-> path \o f[i + l].data, count |-> f[i + l].count + 1]
          BY <1>2, <2>1, <2>2 DEF Replaces
        <4>2. f[i + l].data = rest(i + l)
          BY <1>4
        <4> HIDE DEF rest
        <4>3. QED BY <4>1, <4>2
      <3>2. i + l - 1 <= n /\ SubSeq(text, i, i + l - 1) = path
        BY <2>2 DEF BoundedAt, OccursAt
      <3>3. path \o rest(i + l) = rest(i)
        <4> DEFINE A == {text[j] : j \in DOMAIN text}
                   k == i + l - 1
        <4>1. text \in Seq(A)
          BY TextsHaveBytes
        <4>2. i \in 1..(n + 1) /\ n \in k..n /\ k \in (i - 1)..n /\ k + 1 = i + l
          BY <1>1, <3>2
        <4> HIDE DEF A, k
        <4>3. SubSeq(text, i, k) \o SubSeq(text, k + 1, n) = SubSeq(text, i, n)
          BY <4>1, <4>2, ConcatAdjacentSubSeq
        <4>4. QED BY <3>2, <4>2, <4>3 DEF k
      <3>4. QED BY <2>1, <3>1, <3>3
    <2>3. CASE ~BoundedAt(text, path, i)
      <3>1. f[i].data = <<text[i]>> \o rest(i + 1)
        <4>1. f[i] = [data |-> <<text[i]>> \o f[i + 1].data, count |-> f[i + 1].count]
          BY <1>2, <2>1, <2>3 DEF Replaces
        <4>2. f[i + 1].data = rest(i + 1)
          BY <1>4
        <4> HIDE DEF rest
        <4>3. QED BY <4>1, <4>2
      <3>2. QED BY <2>1, <3>1, RestOfText
    <2>4. QED BY <2>2, <2>3
  <1>5. \A i \in 1..(n + l + 1) : i \in P
    <2> HIDE DEF P, n, l
    <2>1. QED BY <1>1, <1>3, <1>4, FromTheEnd
  <1>6. 1 \in P
    BY <1>1, <1>5
  <1>7. rest(1) = text
    BY TextsHaveBytes, SubSeqFull
  <1>8. QED
    BY <1>2, <1>6, <1>7

(* A text is said to name a path exactly where a bounded match stands in    *)
(* it: no skipped byte hides one from ContainsBoundedPath.                  *)
THEOREM FindingIsBounded ==
    ASSUME NEW text, IsText(text), NEW path, IsText(path), path # <<>>
    PROVE  ContainsBoundedPath(text, path) <=>
               \E i \in 1..Len(text) : BoundedAt(text, path, i)
  <1> DEFINE n == Len(text)
             l == Len(path)
             Ahead(i) == \E j \in 1..n : j >= i /\ BoundedAt(text, path, j)
  <1>1. n \in Nat /\ l \in Nat /\ l > 0
    <2>1. l # 0
      BY TextsHaveBytes, EmptySeq
    <2>2. QED BY <2>1, TextsHaveBytes
  <1>2. PICK f : Replaces(text, path, path, f) /\ ReplacePathInBytes(text, path, path) = f[1]
    BY <1>1, ReplacingEnds
  <1> DEFINE P == {i \in 1..(n + l + 1) : /\ f[i].count \in Nat
                                          /\ Ahead(i) => f[i].count > 0}
  <1>3. \A i \in 1..(n + l + 1) : i > n => i \in P
    <2>1. ASSUME NEW i \in 1..(n + l + 1), i > n PROVE i \in P
      <3>1. f[i] = [data |-> <<>>, count |-> 0]
        BY <1>2, <2>1 DEF Replaces
      <3>2. f[i].count = 0
        BY <3>1
      <3>3. ~Ahead(i)
        BY <1>1, <2>1
      <3> HIDE DEF Ahead
      <3>4. QED BY <3>2, <3>3
    <2>2. QED BY <2>1
  <1>4. ASSUME NEW i \in 1..n, i + 1 \in P, i + l \in P PROVE i \in P
    <2>1. i \in 1..(n + l + 1) /\ ~(i > n)
      BY <1>1
    <2>2. CASE BoundedAt(text, path, i)
      <3>1. f[i] = [data |-> path \o f[i + l].data, count |-> f[i + l].count + 1]
        BY <1>2, <2>1, <2>2 DEF Replaces
      <3>2. f[i].count = f[i + l].count + 1 /\ f[i + l].count \in Nat
        BY <1>4, <3>1
      <3> HIDE DEF Ahead
      <3>3. QED BY <2>1, <3>2
    <2>3. CASE ~BoundedAt(text, path, i)
      <3>1. f[i] = [data |-> <<text[i]>> \o f[i + 1].data, count |-> f[i + 1].count]
        BY <1>2, <2>1, <2>3 DEF Replaces
      <3>2. f[i].count = f[i + 1].count
        BY <3>1
      <3>3. Ahead(i) => Ahead(i + 1)
        <4>1. \A j \in 1..n : j >= i /\ j # i => j >= i + 1
          BY <1>1
        <4> HIDE DEF n
        <4>2. QED BY <2>3, <4>1
      <3> HIDE DEF Ahead
      <3>4. QED BY <1>4, <2>1, <3>2, <3>3
    <2>4. QED BY <2>2, <2>3
  <1>5. 1 \in P
    <2>1. \A i \in 1..(n + l + 1) : i \in P
      <3> HIDE DEF P, n, l
      <3>1. QED BY <1>1, <1>3, <1>4, FromTheEnd
    <2>2. QED BY <1>1, <2>1
  <1>6. ASSUME NEW i \in 1..n, BoundedAt(text, path, i)
        PROVE  ContainsBoundedPath(text, path)
    <2>1. Ahead(1)
      BY <1>6
    <2> HIDE DEF Ahead
    <2>2. f[1].count > 0
      BY <1>5, <2>1
    <2>3. QED BY <1>2, <2>2 DEF ContainsBoundedPath
  <1>7. ASSUME \A i \in 1..n : ~BoundedAt(text, path, i)
        PROVE  ~ContainsBoundedPath(text, path)
    <2>1. ReplacePathInBytes(text, path, path) = [data |-> text, count |-> 0]
      BY <1>1, <1>7, NothingReplaced
    <2>2. ReplacePathInBytes(text, path, path).count = 0
      BY <2>1
    <2>3. QED BY <2>2 DEF ContainsBoundedPath
  <1>8. QED
    BY <1>6, <1>7

=============================================================================
