---------------------------- MODULE CodexTransfer ---------------------------
(***************************************************************************)
(* A Codex project exported on one machine (CodexExport) and imported on    *)
(* another, as often as it takes: Stage and Finalize of                     *)
(* internal/tool/codex/export_import_stats.go around the promotion that     *)
(* Importer models, and Codex itself between two imports, whose backfill    *)
(* makes the rows that the sidecars need.                                   *)
(***************************************************************************)
EXTENDS CodexExport

CONSTANTS
    MaxRuns,        \* bound on imports
    MaxGeneration   \* the newest generation of state database

ASSUME GenerationsAssumption == MaxGeneration \in Nat

VARIABLES
    target,     \* the home that is imported into
    pending,    \* state databases not committed yet
    runs,       \* imports begun
    primed      \* history: Codex was started after an import that succeeded

transferVars == <<exportVars, target, pending, runs, primed>>

Idle == {"carried", "imported", "stopped"}

(* The archive is taken to the other machine.                               *)
CarryOver ==
    /\ pc = "exported" /\ pc' = "carried"
    /\ source' = <<>> /\ kept' = <<>> /\ found' = {} /\ lines' = <<>>
    /\ threadIDs' = {} /\ events' = 0
    /\ UNCHANGED <<setup, archive, target, pending, runs, primed>>

(****************************** One import *********************************)

codexImportResolutions ==
    {[key |-> ProjectKey, value |-> setup.to.project],
     [key |-> HomeKey, value |-> setup.to.home]}

Resolved(text) == ResolvePlaceholdersStream(text, codexImportResolutions)

validArchiveRolloutName(file) == file.name \notin OddNames

rolloutsStaged == DOMAIN archive.rollouts # {}

StagedRollouts ==
    [file \in DOMAIN archive.rollouts |->
        [i \in DOMAIN archive.rollouts[file] |->
            [archive.rollouts[file][i] EXCEPT !.cwd = Resolved(@), !.text = Resolved(@)]]]

ResolvedLines(chunk) == [i \in DOMAIN chunk |-> [chunk[i] EXCEPT !.text = Resolved(@)]]

(* One unknown entry refuses the archive; otherwise the rollouts land, over *)
(* what the files held, unless anything goes wrong on the way.              *)
Stage ==
    /\ pc \in Idle /\ runs < MaxRuns /\ runs' = runs + 1
    /\ \/ /\ \A file \in DOMAIN archive.rollouts : validArchiveRolloutName(file)
          /\ target' = [target EXCEPT !.files = Over(StagedRollouts, @)]
          /\ pc' = "merge history"
       \/ pc' = "stopped" /\ UNCHANGED target
    /\ UNCHANGED <<setup, source, found, lines, threadIDs, archive, kept, events,
                   pending, primed>>

(* The incoming lines whose key is new, each key once.                      *)
AppendLines(existing, incoming, Key(_)) ==
    LET seen(i) == {Key(existing[j]) : j \in DOMAIN existing}
                   \cup {Key(incoming[j]) : j \in 1..(i - 1)}
    IN Subsequence(incoming, {i \in DOMAIN incoming : Key(incoming[i]) \notin seen(i)})

(* An append stops after some of the lines, perhaps within one.             *)
CutShort(new) ==
    {SubSeq(new, 1, n) : n \in 0..(Len(new) - 1)}
    \cup {Append(SubSeq(new, 1, n), Malformed) : n \in 0..(Len(new) - 1)}

(* A bug to catch: two prompts of one second are taken for one.             *)
secondOfThread(line) == <<line.session, line.second>>

historyKey(line) == <<line.session, line.second, line.text>>

(* Every line the file holds must parse.                                    *)
appendUniqueHistory ==
    /\ pc = "merge history"
    /\ LET new == AppendLines(target.history, ResolvedLines(archive.history), historyKey)
       IN \/ /\ \A i \in DOMAIN target.history : target.history[i] # Malformed
             /\ target' = [target EXCEPT !.history = @ \o new]
             /\ pc' = "merge index"
          \/ /\ \A i \in DOMAIN target.history : target.history[i] # Malformed
             /\ \E some \in CutShort(new) : target' = [target EXCEPT !.history = @ \o some]
             /\ pc' = "stopped"
          \/ pc' = "stopped" /\ UNCHANGED target
    /\ UNCHANGED <<setup, source, found, lines, threadIDs, archive, kept, events,
                   pending, runs, primed>>

appendUniqueExact ==
    /\ pc = "merge index"
    /\ LET new == AppendLines(target.index, ResolvedLines(archive.index),
                              LAMBDA line : line)
       IN \/ /\ target' = [target EXCEPT !.index = @ \o new]
             /\ pending' = IF DOMAIN archive.sidecars # {} \/ rolloutsStaged
                           THEN DOMAIN target.dbs ELSE {}
             /\ pc' = "databases"
          \/ /\ \E some \in CutShort(new) \cup {<<>>} :
                   target' = [target EXCEPT !.index = @ \o some]
             /\ pc' = "stopped" /\ UNCHANGED pending
    /\ UNCHANGED <<setup, source, found, lines, threadIDs, archive, kept, events,
                   runs, primed>>

(* UpdateColumnsByKey writes rows that exist, and inserts none.             *)
WithSidecars(rows) ==
    [id \in DOMAIN rows |->
        IF id \in DOMAIN archive.sidecars
        THEN [rows[id] EXCEPT !.side = archive.sidecars[id]] ELSE rows[id]]

(* A bug to catch: only the status is reset.                                *)
keepsTheWatermark(db) == [db EXCEPT !.status = "pending"]

Rearmed(db) == [db EXCEPT !.status = "pending", !.watermark = "none"]

(* One transaction for each database; those committed stay when one fails.  *)
updateStateDatabase ==
    /\ pc = "databases" /\ pending # {}
    /\ \/ \E g \in pending :
             LET updated == [target.dbs[g] EXCEPT !.rows = WithSidecars(@)]
             IN /\ target' = [target EXCEPT !.dbs[g] =
                                 IF rolloutsStaged THEN Rearmed(updated) ELSE updated]
                \* Closing it after the commit may fail.
                /\ \/ pending' = pending \ {g} /\ UNCHANGED pc
                   \/ pending' = {} /\ pc' = "stopped"
       \/ pc' = "stopped" /\ pending' = {} /\ UNCHANGED target
    /\ UNCHANGED <<setup, source, found, lines, threadIDs, archive, kept, events,
                   runs, primed>>

Finalized ==
    /\ pc = "databases" /\ pending = {} /\ pc' = "imported"
    /\ UNCHANGED <<setup, source, found, lines, threadIDs, archive, kept, events,
                   target, pending, runs, primed>>

Import ==
    \/ Stage \/ appendUniqueHistory \/ appendUniqueExact \/ updateStateDatabase
    \/ Finalized

(*************************** Codex, in between ****************************)

ThreadsOnDisk == {ThreadIDOf(target.files[file]) : file \in DOMAIN target.files} \ {""}

NewRow == [cwd |-> setup.to.project, side |-> "none"]

(* The backfill is a gate: complete skips it, and a watermark leaves what   *)
(* sorts below it, as the paths of an import do.                            *)
Backfilled(db) ==
    [rows |-> IF db.status = "pending" /\ db.watermark = "none"
              THEN Over(db.rows, [id \in ThreadsOnDisk |-> NewRow]) ELSE db.rows,
     status |-> "complete", watermark |-> "last"]

NoDatabase == [rows |-> <<>>, status |-> "pending", watermark |-> "none"]

(* Codex uses its newest database, or the next generation after an update.  *)
CodexStarts ==
    /\ pc \in Idle /\ pc' = "carried" /\ events < MaxEvents /\ events' = events + 1
    /\ \E g \in 1..MaxGeneration :
          /\ \A other \in DOMAIN target.dbs : other <= g
          /\ LET db == IF g \in DOMAIN target.dbs THEN target.dbs[g] ELSE NoDatabase
             IN target' = [target EXCEPT !.dbs = Over([h \in {g} |-> Backfilled(db)], @)]
    /\ primed' = (primed \/ pc = "imported")
    /\ UNCHANGED <<setup, source, found, lines, threadIDs, archive, kept, pending, runs>>

(* A thread is archived or brought back, or goes on with a prompt that the  *)
(* archive holds too, from a copy of the history made by hand.              *)
CodexUsed ==
    /\ pc \in Idle /\ pc' = "carried" /\ events < MaxEvents /\ events' = events + 1
    /\ \/ \E file \in DOMAIN target.files : target' = Renamed(target, file)
       \/ /\ archive.history # <<>>
          /\ LET prompt == ResolvedLines(archive.history)[1]
             IN /\ \A i \in DOMAIN target.history : target.history[i] # prompt
                /\ target' = [target EXCEPT !.history = Append(@, prompt)]
    /\ UNCHANGED <<setup, source, found, lines, threadIDs, archive, kept, pending, runs,
                   primed>>

InitTransfer ==
    \E s \in Setups :
        /\ InitExport(s)
        /\ target = s.target
        /\ pending = {} /\ runs = 0 /\ primed = FALSE

Next ==
    \/ (Export \/ CodexRuns) /\ UNCHANGED <<target, pending, runs, primed>>
    \/ CarryOver \/ Import \/ CodexStarts \/ CodexUsed

Spec == InitTransfer /\ [][Next]_transferVars

(***************************************************************************)
(* Properties                                                              *)
(***************************************************************************)

Anchors == {[here |-> setup.from.project, there |-> setup.to.project],
            [here |-> setup.from.home, there |-> setup.to.home]}

(* A text as it should read on the other machine: where a path of the       *)
(* project or of the home stands, it is the one over there, and inside one  *)
(* another the longer path counts.                                          *)
Translated(text) ==
    LET at(i) == {a \in Anchors : BoundedAt(text, a.here, i)}
        longest(i) == CHOOSE a \in at(i) : \A b \in at(i) : Len(b.here) <= Len(a.here)
        from[i \in 1..(2 * Len(text) + 1)] ==
            IF i > Len(text) THEN <<>>
            ELSE IF at(i) = {} THEN <<text[i]>> \o from[i + 1]
            ELSE longest(i).there \o from[i + Len(longest(i).here)]
    IN from[1]

(* An import that succeeds has put every rollout of the export in its root, *)
(* line by line the same but for the paths, which are those of the machine  *)
(* it is on (archive/sink.go:44, archive/resolve.go:14).                    *)
ArrivesTranslated ==
    pc = "imported" =>
        \A file \in DOMAIN archive.origin :
            /\ file \in DOMAIN target.files
            /\ target.files[file] =
                  [i \in DOMAIN archive.origin[file] |->
                      [archive.origin[file][i] EXCEPT !.cwd = Translated(@),
                                                      !.text = Translated(@)]]

Places(some, line) == {i \in DOMAIN some : some[i] = line}

(* A line that was there stands where it stood, one that was not stands     *)
(* there once.                                                              *)
Merged(incoming, before, after) ==
    \A i \in DOMAIN incoming :
        LET line == ResolvedLines(incoming)[i]
        IN IF Places(before, line) = {} THEN Cardinality(Places(after, line)) = 1
           ELSE Places(after, line) = Places(before, line)

(* However often the archive is imported, was cut short or had some of its  *)
(* lines there before: a success leaves every prompt and every index line   *)
(* of it there, once or as often as the machine held it from the start      *)
(* (export_import_stats.go:726, 759, 799).                                  *)
MergedOnce ==
    pc = "imported" =>
        /\ Merged(archive.history, setup.target.history, target.history)
        /\ Merged(archive.index, setup.target.index, target.index)

(* Import, start Codex, import again, as the warning says: the database     *)
(* Codex uses then has the sidecar of every thread whose rollout is in the  *)
(* archive, whatever state it was in and whatever failed in between         *)
(* (export_import_stats.go:664, 958).                                       *)
SidecarsReachTheRows ==
    pc = "imported" /\ primed =>
        \A id \in DOMAIN archive.sidecars :
            LET newest == target.dbs[Max(DOMAIN target.dbs)].rows
            IN (\E file \in DOMAIN archive.origin :
                    ThreadIDOf(archive.origin[file]) = id) =>
               id \in DOMAIN newest /\ newest[id].side = archive.sidecars[id]
=============================================================================
