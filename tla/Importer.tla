------------------------------ MODULE Importer ------------------------------
(***************************************************************************)
(* One archive imported into the selected tools, as often as it takes:     *)
(* importer.Run behind its locks (RunGuard has those), the sibling temps of*)
(* archive.StageSibling, the pre-promotion recheck, the rename batch of    *)
(* rewrite.SafeRenamePromoter with its rollback, and the line merges of the*)
(* tools' Finalize.  Any file operation may fail, the run may be cancelled *)
(* or find a live writer, and the process may be killed between any two    *)
(* operations; the same archive may then be imported again.                *)
(***************************************************************************)
EXTENDS Integers, Sequences

CONSTANTS
  Files,      \* destinations that are staged and renamed
  Bodies,     \* whole file contents
  Absent,     \* no file
  Torn,       \* a temp whose writing stopped half way
  N,          \* tools with a block in the archive, in registry order
  Appenders,  \* tools whose merge appends line by line (Codex); the others
              \* replace the merged file by one rename (Claude)
  Lines,      \* lines of the tools' merged files
  Archives,   \* the archives that may be imported
  MaxRuns     \* bound: how often the archive is imported

Tools == 1 .. N
Content == Bodies \cup {Absent}

FileEntry == [kind : {"file"}, file : Files, body : Bodies]
LineEntry == [kind : {"line"}, tool : Tools, line : Lines]
Entry == FileEntry \cup LineEntry

ASSUME NAssumption == N \in Nat \ {0}
ASSUME AppendersAssumption == Appenders \subseteq Tools
ASSUME ContentAssumption == Absent \notin Bodies /\ Torn \notin Content
ASSUME ArchivesAssumption == Archives \subseteq Seq(Entry)
ASSUME MaxRunsAssumption == MaxRuns \in Nat

VARIABLES
  archive,   \* the archive's entries, in staging order
  final,     \* final[f]: content of destination f
  temp,      \* temp[f]: content of the staging temp beside f
  merged,    \* merged[t][x]: how often line x stands in tool t's merged file
  torn,      \* appending tools whose merged file holds half a line
  pc,        \* control state of the run
  at,        \* entries staged, renames done or still to undo, tools finalized
  staged,    \* the StagedSet: destinations in registration order
  backups,   \* backups[i]: what the i-th promoted rename displaced
  appends,   \* appends[t]: lines the run has collected for tool t
  pending,   \* lines the current merge still has to write
  trouble,   \* history: this run met a fault, a cancellation or a writer
  residue,   \* history: this run reports cleanup or rollback errors as well
  before,    \* history: final, temp and merged when the run began
  runs       \* runs begun

disk == <<final, temp, merged, torn>>
memory == <<staged, backups, appends, pending>>
history == <<trouble, residue, before, runs>>
vars == <<archive, disk, pc, at, memory, history>>

Control == {"idle", "stage", "cleanup", "recheck", "promote", "rollback", "finalize",
            "merge", "done", "refused", "unmerged", "killed"}
Over == {"idle", "done", "refused", "unmerged", "killed"}

TypeOK ==
  /\ archive \in Archives
  /\ final \in [Files -> Content]
  /\ temp \in [Files -> Content \cup {Torn}]
  /\ merged \in [Tools -> [Lines -> Nat]]
  /\ torn \subseteq Appenders
  /\ pc \in Control
  /\ at \in 0 .. Len(archive) + N
  /\ staged \in Seq(Files)
  /\ backups \in Seq(Content)
  /\ appends \in [Tools -> SUBSET Lines]
  /\ pending \subseteq Lines
  /\ trouble \in BOOLEAN /\ residue \in BOOLEAN
  /\ before.final \in [Files -> Content]
  /\ before.temp \in [Files -> Content \cup {Torn}]
  /\ before.merged \in [Tools -> [Lines -> Nat]]
  /\ runs \in 0 .. MaxRuns

Snapshot == [final |-> final, temp |-> temp, merged |-> merged]

Init ==
  /\ archive \in Archives
  /\ final \in [Files -> Content]
  /\ temp = [f \in Files |-> Absent]
  /\ merged \in [Tools -> [Lines -> {0, 1}]]
  /\ torn = {}
  /\ pc = "idle" /\ at = 0
  /\ staged = <<>> /\ backups = <<>> /\ pending = {}
  /\ appends = [t \in Tools |-> {}]
  /\ trouble = FALSE /\ residue = FALSE
  /\ before = Snapshot
  /\ runs = 0

-----------------------------------------------------------------------------
(* Starting and ending a run *)

Goto(label, place) == pc' = label /\ at' = place

\* A new process with the same archive.  It holds the locks and has passed the
\* preflights, none of which write.
Begin ==
  /\ pc \in Over /\ runs < MaxRuns
  /\ Goto("stage", 0)
  /\ staged' = <<>> /\ backups' = <<>> /\ pending' = {}
  /\ appends' = [t \in Tools |-> {}]
  /\ trouble' = FALSE /\ residue' = FALSE
  /\ before' = Snapshot
  /\ runs' = runs + 1
  /\ UNCHANGED <<archive, disk>>

\* Whatever stops an appending merge may leave half a line.
MergeStops ==
  torn' \in IF pc = "merge" /\ pending # {} /\ at + 1 \in Appenders
           THEN {torn, torn \cup {at + 1}} ELSE {torn}

\* Killed between two operations; a line being appended may stop half way.
Kill ==
  /\ pc \notin Over
  /\ Goto("killed", 0)
  /\ MergeStops
  /\ trouble' = TRUE
  /\ UNCHANGED <<archive, final, temp, merged, memory, residue, before, runs>>

-----------------------------------------------------------------------------
(* Staging *)

Current == archive[at + 1]

\* Mutant: the temp is recorded before and after streaming.
StageFileTwice ==
  /\ Current.kind = "file"
  /\ temp' = [temp EXCEPT ![Current.file] = Current.body]
  /\ staged' = staged \o <<Current.file, Current.file>>
  /\ UNCHANGED appends

\* The body is streamed over whatever the temp holds, and
\* the temp recorded.
StageFile ==
  /\ Current.kind = "file"
  /\ temp' = [temp EXCEPT ![Current.file] = Current.body]
  /\ staged' = Append(staged, Current.file)
  /\ UNCHANGED appends

\* Lines are kept in memory until Finalize.
StageLine ==
  /\ Current.kind = "line"
  /\ appends' = [appends EXCEPT ![Current.tool] = @ \cup {Current.line}]
  /\ UNCHANGED <<temp, staged>>

\* Mutant: an entry whose streaming failed is not recorded for cleanup.
StageFailsUnrecorded ==
  \/ /\ Current.kind = "file"
     /\ temp' \in {temp, [temp EXCEPT ![Current.file] = Torn]}
     /\ UNCHANGED <<staged, appends>>
  \/ UNCHANGED <<temp, staged, appends>>

\* Staging fails before it touches anything, or on the way to a whole temp; a
\* temp that may exist is recorded all the same.
StageFails ==
  \/ /\ Current.kind = "file"
     /\ temp' \in {temp, [temp EXCEPT ![Current.file] = Torn]}
     /\ staged' = Append(staged, Current.file)
     /\ UNCHANGED appends
  \/ UNCHANGED <<temp, staged, appends>>

Stage ==
  /\ pc = "stage"
  /\ \/ /\ at < Len(archive)
        /\ \/ (StageFile \/ StageLine) /\ Goto("stage", at + 1) /\ UNCHANGED trouble
           \/ StageFails /\ Goto("cleanup", 0) /\ trouble' = TRUE
     \/ /\ at = Len(archive)
        /\ Goto("recheck", 0)
        /\ UNCHANGED <<temp, staged, appends, trouble>>
  /\ UNCHANGED <<archive, final, merged, torn, backups, pending, residue, before, runs>>

\* cleanupStaged removes every recorded temp; what it cannot remove it reports.
Cleanup ==
  /\ pc = "cleanup"
  /\ \/ /\ at < Len(staged)
        /\ \/ temp' = [temp EXCEPT ![staged[at + 1]] = Absent] /\ UNCHANGED residue
           \/ residue' = TRUE /\ UNCHANGED temp
        /\ Goto("cleanup", at + 1)
     \/ /\ at = Len(staged)
        /\ Goto("refused", 0)
        /\ UNCHANGED <<temp, residue>>
  /\ UNCHANGED <<archive, final, merged, torn, memory, trouble, before, runs>>

\* A live writer, or a witness that cannot run, ends the run here.
Recheck ==
  /\ pc = "recheck"
  /\ \/ Goto("promote", 0) /\ UNCHANGED trouble
     \/ Goto("cleanup", 0) /\ trouble' = TRUE
  /\ UNCHANGED <<archive, disk, memory, residue, before, runs>>

-----------------------------------------------------------------------------
(* Promotion *)

\* Mutant: the displaced content is read once the rename has happened.
PromoteBackupLate(f) ==
  /\ final' = [final EXCEPT ![f] = temp[f]]
  /\ temp' = [temp EXCEPT ![f] = Absent]
  /\ backups' = Append(backups, temp[f])

\* One rename: keep what it displaces, then put the temp in its place.
PromoteOne(f) ==
  /\ final' = [final EXCEPT ![f] = temp[f]]
  /\ temp' = [temp EXCEPT ![f] = Absent]
  /\ backups' = Append(backups, final[f])

\* Renames happen in registration order; a rename without its temp fails, and
\* so may the backup read or the rename itself.  Any failure rolls back, from
\* the last registered entry.
Promote ==
  /\ pc = "promote"
  /\ \/ /\ at < Len(staged)
        /\ \/ /\ temp[staged[at + 1]] # Absent
              /\ PromoteOne(staged[at + 1])
              /\ Goto("promote", at + 1)
              /\ UNCHANGED trouble
           \/ /\ temp[staged[at + 1]] = Absent
              /\ Goto("rollback", Len(staged))
              /\ UNCHANGED <<final, temp, backups, trouble>>
           \/ /\ Goto("rollback", Len(staged))
              /\ trouble' = TRUE
              /\ UNCHANGED <<final, temp, backups>>
     \/ /\ at = Len(staged)
        /\ Goto("finalize", 0)
        /\ UNCHANGED <<final, temp, backups, trouble>>
  /\ UNCHANGED <<archive, merged, torn, staged, appends, pending, residue, before, runs>>

\* Undo entry i: put back what it displaced, or remove its unpromoted temp.
RollbackOne(i) ==
  \/ /\ i <= Len(backups)
     /\ final' = [final EXCEPT ![staged[i]] = backups[i]]
     /\ UNCHANGED temp
  \/ /\ i > Len(backups)
     /\ temp' = [temp EXCEPT ![staged[i]] = Absent]
     /\ UNCHANGED final

Rollback ==
  /\ pc = "rollback"
  /\ \/ /\ at > 0
        /\ \/ RollbackOne(at) /\ UNCHANGED residue
           \/ residue' = TRUE /\ UNCHANGED <<final, temp>>
        /\ Goto("rollback", at - 1)
     \/ /\ at = 0
        /\ Goto("refused", 0)
        /\ UNCHANGED <<final, temp, residue>>
  /\ UNCHANGED <<archive, merged, torn, memory, trouble, before, runs>>

-----------------------------------------------------------------------------
(* Finalize *)

\* Mutant: the merge trusts that the lines are new.
MissingUnchecked(t) == appends[t]

\* The lines of this run that the merged file does not hold yet.
Missing(t) == {x \in appends[t] : merged[t][x] = 0}

\* The tools' finalizers run in registry order.  An appending tool parses every
\* line of its file first, and cannot parse half a line.
Finalize ==
  /\ pc = "finalize"
  /\ \/ /\ at < N /\ at + 1 \notin torn
        /\ pending' = Missing(at + 1)
        /\ Goto("merge", at)
     \/ /\ at < N /\ at + 1 \in torn
        /\ Goto("unmerged", 0)
        /\ UNCHANGED pending
     \/ /\ at = N
        /\ Goto("done", 0)
        /\ UNCHANGED pending
  /\ UNCHANGED <<archive, disk, staged, backups, appends, history>>

Plus(t, new) == [merged EXCEPT ![t] = [x \in Lines |-> IF x \in new THEN @[x] + 1 ELSE @[x]]]

\* Write the missing lines, all in one rename or one append after the other.
\* A failure ends the run; nothing is taken back.
Merge ==
  /\ pc = "merge"
  /\ LET t == at + 1 IN
     \/ /\ pending # {}
        /\ \E new \in IF t \in Appenders THEN {{x} : x \in pending} ELSE {pending} :
             /\ merged' = Plus(t, new)
             /\ pending' = pending \ new
        /\ UNCHANGED <<torn, pc, at, trouble>>
     \/ /\ pending = {}
        /\ Goto("finalize", t)
        /\ UNCHANGED <<merged, torn, pending, trouble>>
     \/ /\ MergeStops
        /\ Goto("unmerged", 0)
        /\ trouble' = TRUE
        /\ UNCHANGED <<merged, pending>>
  /\ UNCHANGED <<archive, final, temp, staged, backups, appends, residue, before, runs>>

Next == Begin \/ Kill \/ Stage \/ Cleanup \/ Recheck \/ Promote \/ Rollback \/ Finalize \/ Merge

Spec == Init /\ [][Next]_vars

-----------------------------------------------------------------------------
(* Properties *)

\* What the archive has for file f: its last entry of that name.
LastBody(f) ==
  LET places == {i \in DOMAIN archive : archive[i].kind = "file" /\ archive[i].file = f}
  IN IF places = {} THEN Absent
     ELSE archive[CHOOSE i \in places : \A j \in places : j <= i].body

\* A run that is refused and reports no cleanup error has changed nothing: the
\* destinations and merged files are as the run found them, and of its temps
\* none is left, on staging, recheck and promotion failures alike
\* (cleanupStaged, SafeRenamePromoter.Rollback).
RefusedLeavesNoTrace ==
  pc = "refused" /\ ~residue =>
    /\ final = before.final
    /\ merged = before.merged
    /\ \A f \in Files : temp[f] \in {Absent, before.temp[f]}

\* Whatever earlier runs were killed or failed in, a run that succeeds has put
\* the archive's body in every file, left no temp of them, and each line stands
\* in its merged file exactly once, unless the user had it there twice.
SuccessConverges ==
  pc = "done" =>
    /\ \A f \in Files : LastBody(f) # Absent => final[f] = LastBody(f) /\ temp[f] = Absent
    /\ \A i \in DOMAIN archive :
         archive[i].kind = "line" => merged[archive[i].tool][archive[i].line] = 1

\* A run that meets no fault, no cancellation and no live writer gets through;
\* the one thing that still stops it is half a line an earlier run left.
RefusalHasCause ==
  /\ pc = "refused" => trouble
  /\ pc = "unmerged" => trouble \/ torn # {}

\* The import implements ImportBatch: what it reports about the destinations is
\* true, and a destination is never torn, whatever the process dies in.
Told ==
  CASE pc = "idle" -> "untouched"
    [] pc = "refused" -> IF residue THEN "unknown" ELSE "untouched"
    [] pc = "killed" -> "unknown"
    [] pc \in {"finalize", "merge", "done", "unmerged"} -> "landed"
    [] OTHER -> "running"

Promise == INSTANCE ImportBatch
             WITH files <- IF pc \in {"promote", "rollback"} THEN before.final ELSE final,
                  batch <- [f \in Files |-> LastBody(f)],
                  told <- Told

ImplementsImportBatch == Promise!Spec
=============================================================================
