----------------------------- MODULE References -----------------------------
(***************************************************************************)
(* What names a project in the home of Codex, and how a move rewrites it:   *)
(* the rows of its databases (internal/tool/codex/statedb.go, queue.go and  *)
(* the memories of memories.go) together with a rollout file. Rows and      *)
(* rollouts are looked up before the lock is taken, by the canonical path   *)
(* that only then can be resolved; the captured rewrites are applied later, *)
(* the rows in transactions that commit last.                               *)
(*                                                                         *)
(* One database of each family, as one function from table to Table.        *)
(***************************************************************************)
EXTENDS Rollout

CONSTANTS
    MaxRows,    \* bound on the rowids of a table
    MaxChanges  \* bound on the changes a session makes before the lock

VARIABLES
    store,      \* the databases
    rowPlan,    \* the captured rewrites of rows
    pending,    \* those of them that are not written yet
    opened,     \* the databases as the open transactions see them
    failure,    \* the table whose rewrite failed and why, or NoFailure
    changes,    \* changes a session has made
    seen        \* history: the databases the plan has read

rowVars == <<store, rowPlan, pending, opened, failure, changes, seen>>
vars == <<rolloutVars, rowVars>>

NoFailure == [table |-> "none", cause |-> "none"]

stateDBPathColumns ==
    {[table |-> "threads", column |-> "cwd", key |-> "id"],
     [table |-> "project_roots", column |-> "path", key |-> "rowid"]}

queueTarget == [table |-> "queued_items", column |-> "payload_json", key |-> "id"]
\* raw_memory stands for both columns of prose.
memories == [table |-> "stage1_outputs", column |-> "raw_memory", key |-> "thread_id"]

ASSUME PathsAssumption ==
    \A setup \in Setups :
        /\ IsPath(setup.move.old)
        /\ \A link \in DOMAIN setup.move.links : IsPath(link)
        /\ \A directory \in setup.move.directories : IsPath(directory)

(* Every row has the columns of its table, and no two rows have one value   *)
(* in the column that alone is the primary key.                             *)
IsTable(table) ==
    /\ table = [columns |-> table.columns, kind |-> table.kind,
                withoutRowID |-> table.withoutRowID, rows |-> table.rows]
    /\ \A r \in DOMAIN table.rows : DOMAIN table.rows[r] = DOMAIN table.columns

KeysAreUnique(target, table) ==
    requirePrimaryKeyAndColumns(table, target.key, {target.column}) =>
        \A r, q \in DOMAIN table.rows :
            table.rows[r][target.key] = table.rows[q][target.key] => r = q

ASSUME DatabasesAssumption ==
    \A setup \in Setups : \A target \in stateDBPathColumns \cup {queueTarget} :
        /\ setup.store = [name \in DOMAIN setup.store |-> setup.store[name]]
        /\ target.table \in DOMAIN setup.store
        /\ IsTable(setup.store[target.table])
        /\ KeysAreUnique(target, setup.store[target.table])

(* A bug to catch: the columns are there, whatever addresses the rows.      *)
requireColumnOnly(target, table) == requireColumns(table, {target.column})

(* What the update of the target will require, asked ahead of it.           *)
requireSchema(target, table) ==
    IF target.key = "rowid" THEN requireRowIDTableAndColumns(table, {target.column})
    ELSE requirePrimaryKeyAndColumns(table, target.key, {target.column})

(* Rows whose path is the project's by any name.                            *)
matchingColumnValues(target, table) ==
    {r \in DOMAIN table.rows :
        /\ table.rows[r][target.column] # Null
        /\ pathMatchesProject(table.rows[r][target.column], move.old)}

KeyOf(target, table, r) == IF target.key = "rowid" THEN r ELSE table.rows[r][target.key]

matchingPathRewrites(target, table) ==
    {[target |-> target, key |-> KeyOf(target, table, r),
      oldValue |-> table.rows[r][target.column],
      newValue |-> ReplaceBoundedPrefix(canonicalizePath(table.rows[r][target.column]),
                                        canonicalizePath(move.old), move.new)] :
        r \in matchingColumnValues(target, table)}

(* Skill paths are matched as they are spelled.                             *)
matchingQueuedItems(table) ==
    {[target |-> queueTarget, key |-> table.rows[r][queueTarget.key],
      oldValue |-> table.rows[r][queueTarget.column],
      newValue |-> ReplaceBoundedPrefix(table.rows[r][queueTarget.column],
                                        move.old, move.new)] :
        r \in {q \in DOMAIN table.rows :
                  IsBoundaryDescendant(move.old, table.rows[q][queueTarget.column])}}

stateDBKnowsProject ==
    \E target \in stateDBPathColumns :
        matchingColumnValues(target, store[target.table]) # {}

(* projectKnown, a trust key of the project being part of the request.      *)
projectKnown ==
    \/ stateDBKnowsProject
    \/ move.trusted
    \/ hasStructuredCwd(lines) /\ planRolloutFile(lines, FALSE) > 0

RefusedSchema ==
    \E target \in stateDBPathColumns : ~requireSchema(target, store[target.table])

(* moveIdentity, then captureMovePreflight.                                 *)
Plan ==
    /\ pc = "plan" /\ ~RefusedSchema
    /\ stateDBKnowsProject \/ move.trusted \/ ~Refused(lines, FALSE)
    /\ projectKnown
    /\ requireSchema(queueTarget, store[queueTarget.table])
    /\ PlanRollout
    /\ rowPlan' = (UNION {matchingPathRewrites(t, store[t.table]) : t \in stateDBPathColumns})
                  \cup matchingQueuedItems(store[queueTarget.table])
    /\ seen' = store
    /\ UNCHANGED <<store, pending, opened, failure, changes>>

RefusePlan ==
    /\ pc = "plan"
    /\ \/ RefusedSchema
       \/ /\ ~RefusedSchema
          /\ \/ ~stateDBKnowsProject /\ ~move.trusted /\ Refused(lines, FALSE)
             \/ projectKnown /\ ~requireSchema(queueTarget, store[queueTarget.table])
             \/ projectKnown /\ Refused(lines, move.deep)
             \/ ~projectKnown
    /\ Refuse /\ UNCHANGED rowVars

SessionWritesLines == SessionAppends /\ UNCHANGED rowVars

(* A session writes a row, in a free place or in that of a row that was     *)
(* removed, changes one or removes one.                                     *)
SessionChangesRows ==
    /\ pc = "planned" /\ ~removed /\ changes < MaxChanges
    /\ \E new \in move.newRows, r \in 1..MaxRows :
          LET rows == store[new.table].rows IN
          \/ /\ \A q \in DOMAIN rows \ {r} : rows[q][new.key] # new.row[new.key]
             /\ store' = [store EXCEPT ![new.table].rows =
                             [q \in DOMAIN rows \cup {r} |->
                                 IF q = r THEN new.row ELSE rows[q]]]
          \/ /\ r \in DOMAIN rows
             /\ store' = [store EXCEPT ![new.table].rows =
                             [q \in DOMAIN rows \ {r} |-> rows[q]]]
    /\ changes' = changes + 1
    /\ UNCHANGED <<rolloutVars, rowPlan, pending, opened, failure, seen>>

DirectoryLeaves == OtherToolMoves /\ UNCHANGED rowVars

Update(table, rewrite) ==
    LET values == [column \in {rewrite.target.column} |-> rewrite.newValue]
        expected == [column \in {rewrite.target.column} |-> rewrite.oldValue]
    IN IF rewrite.target.key = "rowid"
       THEN UpdateColumnsByRowID(table, rewrite.key, values, expected)
       ELSE UpdateColumnsByKey(table, rewrite.target.key, rewrite.key, values, expected)

(* A bug to catch: the rows are looked for again where they are rewritten.  *)
plannedAgain(rewrites) ==
    UNION {matchingPathRewrites(t, store[t.table]) : t \in stateDBPathColumns}

CapturedRows(rewrites) == rewrites

(* The surfaces of the state, memories and queue databases, in this order,  *)
(* in transactions that stay open; the restorer rolls them back if one      *)
(* fails.                                                                   *)
OpenDatabases ==
    /\ pc = "planned"
    /\ opened' = store /\ pending' = CapturedRows(rowPlan)
    /\ pc' = "state"
    /\ UNCHANGED <<move, lines, removed, plan, undo, counted, outcome, before,
                   store, rowPlan, failure, changes, seen>>

FailsOn(name, cause) ==
    /\ failure' = [table |-> name, cause |-> cause]
    /\ End("failed")
    /\ UNCHANGED <<pending, opened>>

(* One planned row; one that no longer holds what the plan read fails the   *)
(* apply.                                                                   *)
WriteRow(rewrite) ==
    LET name == rewrite.target.table
        updated == Update(opened[name], rewrite)
    IN \/ /\ updated.ok /\ updated.count > 0
          /\ opened' = [opened EXCEPT ![name] = updated.table]
          /\ pending' = pending \ {rewrite}
          /\ UNCHANGED <<failure, pc, outcome>>
       \/ ~updated.ok /\ FailsOn(name, "schema")
       \/ updated.ok /\ updated.count = 0 /\ FailsOn(name, "changed")

WriteStateRow ==
    /\ pc = "state"
    /\ \E rewrite \in pending : rewrite.target \in stateDBPathColumns /\ WriteRow(rewrite)
    /\ UNCHANGED <<move, lines, removed, plan, undo, counted, before,
                   store, rowPlan, changes, seen>>

rewriteStage1TextColumns ==
    LET name == memories.table
        rewritten == RewriteTextColumn(opened[name], memories.key, memories.column,
                                       move.old, move.new)
    IN /\ pc = "state"
       /\ \A rewrite \in pending : rewrite.target \notin stateDBPathColumns
       /\ \/ /\ rewritten.ok
             /\ opened' = [opened EXCEPT ![name] = rewritten.table]
             /\ pc' = "queue"
             /\ UNCHANGED <<pending, failure, outcome>>
          \/ ~rewritten.ok /\ FailsOn(name, "schema")
       /\ UNCHANGED <<move, lines, removed, plan, undo, counted, before,
                      store, rowPlan, changes, seen>>

WriteQueueRow ==
    /\ pc = "queue"
    /\ \E rewrite \in pending : WriteRow(rewrite)
    /\ UNCHANGED <<move, lines, removed, plan, undo, counted, before,
                   store, rowPlan, changes, seen>>

RewriteRollout == pc = "queue" /\ pending = {} /\ Apply /\ UNCHANGED rowVars

(* commit-databases, the last surface.                                      *)
Commit ==
    /\ pc = "applied" /\ End("moved")
    /\ store' = opened
    /\ UNCHANGED <<move, lines, removed, plan, undo, counted, before,
                   rowPlan, pending, opened, failure, changes, seen>>

(* A later surface fails, or a commit does when those ahead of it are       *)
(* through: the memories, the queue, then the state.                        *)
Fail ==
    /\ pc = "applied" /\ RestoreRollout
    /\ \E committed \in {{}, {memories.table}, {memories.table, queueTarget.table}} :
          store' = [name \in DOMAIN store |->
                       IF name \in committed THEN opened[name] ELSE store[name]]
    /\ UNCHANGED <<rowPlan, pending, opened, failure, changes, seen>>

Init ==
    /\ \E setup \in Setups : InitRollout(setup) /\ store = setup.store
    /\ rowPlan = {} /\ pending = {} /\ opened = <<>> /\ failure = NoFailure /\ changes = 0 /\ seen = <<>>

Next ==
    \/ Plan \/ RefusePlan
    \/ SessionWritesLines \/ SessionChangesRows \/ DirectoryLeaves
    \/ OpenDatabases \/ WriteStateRow \/ rewriteStage1TextColumns \/ WriteQueueRow
    \/ RewriteRollout \/ Commit \/ Fail

Spec == Init /\ [][Next]_vars

(***************************************************************************)
(* Properties                                                              *)
(***************************************************************************)

(* A move that succeeds has rewritten every row that named the project, by  *)
(* any of its names, when the plan looked and still did when the rows were  *)
(* written, although by then the directory may have left (statedb.go:430).  *)
RowsFollowTheMove ==
    [][outcome' = "moved" =>
        \A target \in stateDBPathColumns :
            LET rows == store[target.table].rows
                then == seen[target.table].rows
            IN \A r \in DOMAIN rows \cap DOMAIN then :
                  rows[r] = then[r] /\ InProject(rows[r][target.column]) =>
                      store'[target.table].rows[r][target.column]
                          = MovedTo(rows[r][target.column])]_vars

(* A row that names another directory is never written, not even where it   *)
(* has the rowid of a row that was removed (sqlrewrite.go:291).             *)
OtherRowsStay ==
    [][\A target \in stateDBPathColumns : \A r \in DOMAIN store[target.table].rows :
          LET row == store[target.table].rows[r] IN
          outcome' = "moved" /\ ~InProject(row[target.column]) =>
              store'[target.table].rows[r] = row]_vars

(* A schema that the apply would refuse in a state or queue database is     *)
(* refused by the plan, whether or not a row matches (statedb.go:107).      *)
SchemaRefusedByThePlan ==
    failure.cause = "schema" => failure.table = memories.table
=============================================================================
