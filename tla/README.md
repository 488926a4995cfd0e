# A verification project for cc-port

cc-port moves, exports, imports, synchronises and measures the state that Claude
Code and Codex keep about a project. The state belongs to other programs, which
may be running; it lives in plain files and SQLite databases, most of it has no
second copy, and cc-port rewrites it in place. What has to be right is therefore
less what a rewrite does to a byte than what is left when it stops half way,
meets another process, or is run again. This directory models that.

Paths below are relative to `src/` unless they name a module.

## Inventory

| Component | State it keeps | Operations | Hard behaviour | Correct means |
|---|---|---|---|---|
| lock guard `internal/lock` | one advisory lock file per tool; in memory, which sessions were ignored | `Acquire`, `Release`, `WithLock`, `RecheckActiveWriters` | processes lock several tools one by one; sessions start meanwhile; kills | writers exclude each other per tool; no running session is written under unnoticed; locks end with their process |
| move `internal/move` | prepared targets | `Apply`: surfaces, lock, recheck, per-tool apply with rollback | one tool fails, the next still runs; cancellation | a failed tool is as before; a successful one is complete |
| import `internal/importer` | the staged set, the batch of renames | `Run`: stage, recheck, promote, finalize | failures at each phase across tools; kill and re-run | refused leaves no trace; promotion all or nothing; re-import converges |
| rename promoter `internal/rewrite` | entries, backups, what was renamed | `StageFile`, `Promote`, `Rollback`, `SafeWriteFile` | a rename or a backup fails mid-batch | the batch is undone |
| path rewriting `internal/rewrite` | none | `ReplacePathInBytes`, `countBoundedPath`, the JSON-escaped form | the boundary after a match, a new path that holds the old one | counting agrees with replacing; a name that only begins like the path stays |
| row rewriting `internal/sqlrewrite` | an open transaction | schema checks, guarded updates, rewriting a column | a schema nobody declared; rows that change between plan and update | a row is rewritten from the value it was planned on, or the update fails |
| Restorer `internal/tool/restorer.go` | undo registrations, sibling files | `RegisterFile`, `ReplaceFile`, `RegisterUndo`, `Restore`, `Cleanup` | reverse order, failing undos, leftovers | see move |
| directory promotion `internal/rewrite`, `internal/fsutil` | staging directory | `PromoteDir`, `CopyDir` | kill or failure during the copy | a destination is always complete |
| Claude mover `internal/tool/claude/move.go` | Claude home, encoded directory, project | `MoveSurfaces` and their `Apply` | copy, then remove, with no journal | nothing is lost; retry converges |
| Codex home `internal/tool/codex/home.go`, `requirements.go` | the resolved database directory and its tier | `newHome`, `projectAbsenceError` | five configuration sources, signed cloud bundles, two property list formats; Codex rewrites sign-in and cache meanwhile | a project is called absent only when the directory is certain |
| Codex mover `internal/tool/codex` | several SQLite databases, rollouts, config, memories worktree with its git baseline | `MoveSurfaces`, `commitSurface` | transactions held open across file rewrites; commits are not atomic together | a partial commit stays discoverable |
| Codex rollouts `internal/tool/codex/rollout.go` | the substitutions captured by the plan | plan, apply, restore | spellings, aliases and a directory that is gone when the plan is applied | what names the project follows the move, in every field that is moved at all |
| Codex export `internal/tool/codex/export_import_stats.go` | lists and lines read so far | `Export` in five parts | no lock: Codex archives, compresses and appends between two reads | everything that stayed put is in the archive |
| importers of the tools | histories, transcripts, rows | `Stage`, `Finalize` | append-only merges, deduplication, torn lines | each line once; sidecars reach their rows at the latest in a second import |
| archive `internal/archive` | staged temps, size counters, resolutions | `Stage`, caps, placeholder resolution | duplicates, caps while streaming | last entry counts; nothing above the cap lands |
| export, sync `internal/export`, `internal/sync`, `cmd/cc-port/pushcmd.go` | the remote archive and its metadata | plan, push, pull | two machines; `Close` commits on the error path | a prior of another machine is not replaced unasked |
| pipeline, encryption, remote | open stages | open, close | order of closing | no truncated archive is published |
| manifest, statistics, terminal, credentials, progress | none that another part relies on | reading, rendering | none of state | not modelled |

How they interact: `move.Apply` and `importer.Run` take the guard of every
target, in registry order, around their work; `move.Apply` hands each tool's
surfaces a `Restorer` through which all their writes go; `importer.Run` hands all
tools' temps to one promoter and calls each tool's `Finalize` after it. The
tools' own sessions share the files with all of them and know nothing of the
locks: cc-port looks for them twice, with each lock and again before it writes.

## The modules

| Module | Models | State | Actions |
|---|---|---|---|
| `ExclusiveRuns` | what the guard promises: a run is waiting, writing or over, and writes exclude each other per tool | `wanted`, `phase` | `Enter`, `Refuse`, `Leave` |
| `RunGuard` | `move.Apply` and `importer.Run` down to `lock.Acquire`, for any number of processes | `flock` is the kernel's; per process the program counter, tools prepared, present, passed and ignored; `live` the sessions; `steady` is history | `Surfaces`, `AskWitness`, `TryLock`, `Stage`, `Recheck`, `WriteTool`, `WriteDone`, `Release`, `Exit`, `Kill`; `WriterStarts`, `WriterStops` |
| `RunGuard_proofs` | theorems about it | | |
| `ImportBatch` | what a batch of renames promises: all, or none, or killed half way | `files`, `phase` | |
| `Importer` | one `importer.Run` and its repetitions, with `SafeRenamePromoter` and the history merge | destination files, temps, backups, merged histories; staged set, batch position | `Begin`, `Stage`, `Recheck`, `Promote`, `Rollback`, `Finalize`, `Merge`, `Cleanup`, `Kill` |
| `ClaudeMove` | the apply bracket with its `Restorer`, the in-place rewrites and the project-directory surface | the three directories at old, staging and new place, entry by entry with siblings; undo registrations; `obstacles`, what the checks of names, identity and config find; `marred` is history | `Begin`, `Replace`, `Snapshot`, `Write`, `Staging`, `Promote`, `Copy`, `Verify`, `Remove`, `Cleanup`, `Restore`, `Kill`; `UserClearsStaging`, `UserDeletesDestination` |
| `CodexMove` | the surfaces of Codex's `MoveSurfaces` under the same apply bracket | databases, files, trust keys, git baselines and their backups; the plan, the open transactions and the undo registrations of the process | `Begin`, `Apply`, `OpenDatabases`, `Config`, `RewriteRollouts`, `Reconcile`, `RewriteWorktree`, `SetAsideBaseline`, `RewriteMarket`, `Commit`, `Discard`, `Restore`, `Kill`; `CodexWrites`, `CodexBaselines` |
| `Sync` | `push` and `pull` of one name by several machines: reader chain, plan, refusal, export through the writer chain, import as one step | the remote object; per machine its latest process with what it read, what it holds open, what it sent and which writers are still to close; `log` of published archives is history | `Begin`, `OpenSource`, `Decrypt`, `Materialize`, `Plan`, `ApplyPush`, `Export`, `WriteMetadata`, `FinishZip`, `CloseWriter`, `Import`, `Close`, `Lose`, `Kill` |
| `AuthGate` | `readCloudAuth`: what `auth.json` says of cloud bundles. A JSON value is its class (absent, null, of the kind wanted, of another, repeated) | none | |
| `ManagedPlist` | `plistTopLevelString` over the items of an XML list and over trailer, offsets and objects of a binary one, in machine words | none | |
| `SqliteHome` | `newHome` with every source of `sqlite_home` and `projectAbsenceError`, while Codex signs in and refreshes its cache | the machine; what was read of it; resolution and outcome; `moments`, which directories Codex itself would use, is history | `ReadAuth`, `ReadBundle`, `Resolve`, `FindProject`, `MissProject`; `Environment` |
| `PathRewrite` | the byte loops with their boundary, the escaped form, placeholders in and out | none | |
| `SqliteRows` | tables with their schema, the guarded updates, counting and rewriting a column | none | |
| `Rollout` | one rollout file: substitutions derived by the plan, applied later, restored on failure | file, plan, pre-image; `before` is history | steps used by `References` |
| `References` | the rollout together with the rows of the state, queue and memories databases, planned before the lock and committed last | as `Rollout`, and databases, planned rows and those not written yet, open transactions; `seen` is history | `Plan`, `RefusePlan`, `OpenDatabases`, `WriteStateRow`, `rewriteStage1TextColumns`, `WriteQueueRow`, `RewriteRollout`, `Commit`, `Fail`; `SessionWritesLines`, `SessionChangesRows`, `DirectoryLeaves` |
| `CodexExport` | Codex's `Export` with the discovery of rollouts, without a lock | the exported home, files found, lines kept, the archive; `kept` is history | `Begin`, `WalkSessions`, `WalkArchived`, `Classify`, `IdentifyThreads`, `WriteRollouts`, `Export`; `CodexRuns` |
| `CodexTransfer` | that archive on another machine: `Stage` and `Finalize`, repeated, with Codex's backfill between | the target home, databases not yet committed; `primed` is history | `CarryOver`, `Import` (with what a failure leaves), `CodexStarts`, `CodexUsed` |
| `Importer_proofs`, `ClaudeMove_proofs`, `CodexMove_proofs`, `Sync_proofs`, `SqliteHome_proofs` (with `ManagedPlist`), `References_proofs` (with `PathRewrite`, `SqliteRows` and `Rollout`), `CodexTransfer_proofs` | theorems about them | | |

Each `MC` module holds the values that its configurations give to the constants.
Operators commented `Mutant:` or `A bug to catch:` state how a plausible slip in the
code would read; each makes the property named for it in
`PROJECT.json` fail, which shows that the property does constrain the code.

A step of a model is one system call, or one piece of memory-only work between
two of them. A file's content is abstracted to `old`, `new` or `torn`; a merge
keeps the lines apart. In `CodexMove` a database or file says `none`, `old` or
`new` of the project, and a step is one database opened, one file replaced, one
commit; how the `Restorer` keeps a pre-image is shown in `ClaudeMove` only. What a rewrite
does to the content is the matter of `References`, where a text is a sequence of
bytes of which only separators, dots, quotes and a few letters are told apart, and a
step is one planned row, one column of prose or one rollout.
`Importer` says when an import may stop and what stops with it; `CodexTransfer`
says what its lines and rows are and takes promotion as one step.
`ClaudeMove` and `CodexMove` are the two tools of one `move.Apply`, which runs
them one after the other on disjoint files and goes on with the next when one
has failed.

## What the runs show

| Run | Bounds | Result |
|---|---|---|
| `guard` | two processes, two tools (the registry has two), each process started as an ignoring move of both, an import of both or a move of one; sessions and kills at any step | writers exclude, sessions are not overlooked, contention spares one, locks are freed; `ExclusiveRuns` is implemented |
| `importer` | one archive of two files and one history line pair over two tools, three runs | refused leaves no trace, success converges, refusals have a cause; `ImportBatch` is implemented |
| `claude_move` | a large and a small file of the home, a large transcript, another file, a project file; three runs | nothing is lost, failure rolls back, success moves all; what stops a run without a fault or an obstacle is what a killed, spoiled or incomplete one left in the way |
| `claude_move_advice` | two runs and a user who does as told | finding 1 |
| `codex_move` | two state databases or one with a queue database, a memories database, one rollout, worktree and marketplace, trust keys of the project and below it; two runs; one write of Codex between plan and lock | failures are undone but for databases that had committed, the project stays discoverable, success is complete and keeps no outdated baseline, nothing left behind stops a later run |
| `codex_move_trust` | one run | finding 2 |
| `sync` | two machines, a prior archive of none, of either, or of `cc-port export`; two passphrases of which the commands know one; two tools; two runs | another machine's archive is not replaced unasked, success publishes, refusal does not, a pull imports what it showed, nothing is left open |
| `sync_partial` | one push | finding 3 |
| `sqlite_home` | up to three sources set at a time, every field of a sign-in or a cache off in every way, property lists cut, extended and with sizes at their limits in words below 16; three changes of sign-in or cache | absence is claimed only of the directory every start of Codex would have used at some moment of the run; a resolved home is one Codex may use; a complete property list is answered, no read leaves the file |
| `references` | a project with a directory in it, an alias beside and one inside, moved to a new path, to one that holds the old path and to one that ends like its beginning; five kinds of line, slashes escaped all, none, only the first, all but it or only the last; up to two rows a table (a session may add a third) or one table of a foreign schema; one change by a session, the directory leaving before or after | what names the project in a field follows in either mode, as far as the guard's count is exact; what only resembles the project keeps its bytes, rows follow, a schema the update would refuse is refused by the plan |
| `references_double` | one file, no alias | finding 4 |
| `codex_transfer` | homes holding one or two of the things that export and import tell apart, in pairs; home inside project and project inside home; two events of Codex during the export, its starts between imports, three imports, generations 1 and 2 of the state database | the export misses nothing that stayed put, paths arrive translated, prompts and index lines stand once, and after an import, a start of Codex and a second import the sidecars are in the rows |

Why these bounds are enough: the guard treats processes alike and compares two at
a time, and a third changes no order between two; `RunGuard_proofs` lifts the
safety results to any number of either. Three runs are one that is killed, one
that is killed while repairing after the first, and one that succeeds; the disk
after a second kill shows nothing that the third would meet for the first time.
For Codex two runs are enough: the first may end at any step, the second starts
from whatever it left, and its own end is judged by invariants that look at the
disk, not at how it came about. Two state databases are the least that can
commit in part; the other families need one each, since no step relates two
databases of the same one.
Of two runs of `Sync` either may be a push or a pull and they may overlap; what an
earlier, third run can have left on the remote is among the initial states.
For `sqlite_home` three sources are a winner, a loser and the one that makes the
difference between the two ways Codex may be started; the five tiers are compared
in pairs. Three changes are two sign-ins and a fetched bundle, or the other way
round: `auth.json` and the cache are each read once. Words
below 16 with integers of up to two bytes let sums and products of offsets wrap,
which in 64 bits takes a file no test can hold; `SqliteHome_proofs` is about any
width. In `references` a path has two names, a directory below one more, which is
what the boundary and the order of substitutions compare; an alias longer than its
target and a new path that holds the old one are the two lengths that matter to a
count. An alias followed by the end of the old path, moved to what ends like its
beginning, is the text that no replacement holds alone (`rollout.go:233`). A plan is applied once, so one change of a session between the two shows
every stale value. In `codex_transfer` one event between two reads of the export
is what moves a thread from a directory not yet walked into one walked already,
and a second undoes it; three imports are one that fails, one that succeeds and
the one after Codex was started.
Two files distinguish the first, the last and the middle of a batch together with
its end. Large and small files differ only in where their pre-image lies.

Fairness: `guard` assumes that a process which can take a step takes one
(`WF_vars(Step(r))`). The locks are tried, never waited for, and no step waits for
another process, so the operating system's scheduler is all it stands for. Kills
and sessions have no fairness. The run checks safety under the same specification,
which takes no behaviour from what a step can do. The other runs check safety only.

A run may end and nobody start another, so deadlock is not checked for `Importer`,
`ClaudeMove`, `CodexMove`, `Sync` and `CodexTransfer`, whose number of runs is
bounded by `MaxRuns`, nor for `SqliteHome` and `References`, which are one command
each. It is checked for `RunGuard`, where sessions go on for ever.

### Findings

1. `claude_move_advice`: after a kill while the old directory was being removed,
   the next run refuses because source and destination exist, and advises that
   deleting the destination is always safe. It is then the only complete copy.
2. `codex_move_trust`: a trust key of a directory below the project is replaced
   by the new project path itself and loses the directory. With the project's
   own key beside it every apply fails, since one key is already renamed or the
   two become one; the dry run counts them apart and succeeds. State rows keep
   the suffix (`ReplaceBoundedPrefix`).
3. `sync_partial`: a push whose export fails closes its writer like any other,
   and Close commits: the archive that was there is replaced by one without
   `metadata.xml`. After that a pull of the name, and a push to it, fail when
   they read its manifest; `--force` helps only where the archive is encrypted
   and no passphrase is given. The READMEs of `sync` and `remote` say that no
   archive is left on the remote, the one of `export` that its output is then to
   be discarded.
4. `references_double`: a rollout that records `/p/o` and a plain directory `/p/o/s`,
   moved to `/x/p/o`, gets `/x/x/p/o/s`. The substitution of the directory takes one
   match of `/p/o` away and writes one, and the guard at `rollout.go:294` compares
   counts. `rollout.go:244` says that such a file is refused; the tool's README
   (834-841) knows that counts are not identities, but says that it takes two
   aliased paths. An ordinary session in a subdirectory is enough.

Other deviations met while modelling have no run of their own; all but the
directories are what the models do, and their properties are stated accordingly:

- An archive that repeats an entry name is refused, although
  `internal/importer/plan.go:168` says that the last entry lands: the promoter gets
  one temp twice and its second rename finds nothing. `Importer` has the refusal;
  `Causes` is proved for archives without repetition.
- The rollback sibling of a large transcript is copied with its directory, `Cleanup`
  looks for it in the old one, and the text as it was stays in the new directory
  (`internal/tool/README.md:116`).
- Codex's identity check asks for the old path only. A project without state rows
  whose run is killed after config and rollouts are rewritten is absent for the
  next run, and worktree, marketplace and memories keep the old path, though
  `docs/architecture.md:335` says the rewrites converge. `DiscoverableUntilMoved`
  shows that they do for a project with state rows.
- `docs/architecture.md` says that after a failed apply the state of the tool is
  what it was. A commit that fails after another is the exception, named by the
  tool's own README; `FailureRollsBack` is stated with it.
- Where `/p/o/a` is an alias inside the project that the file records, a field spelled
  `/p/o\/a` becomes `/n\/a` under `--deep` and `/n` without it: the byte pass knows two
  spellings, finds the project in this one, and the pass over the decoded fields
  leaves alone what it has changed. The tool's README (532-541) says that `--deep`
  rewrites everything default mode does. `FieldsFollowGuarded` asks under `--deep` for
  a spelling the byte pass reads, or for a field with one of the names only.
- Directories created while staging stay after a refusal
  (`internal/importer/README.md:128` calls the destination untouched).
- After the destination has archived a thread, importing again puts its rollout
  under both roots. A rollout named unlike Codex names them is exported, and then
  makes the import refuse the archive. A thread taken out of the archived directory
  between the two walks of an export is missed without a word, which is why
  `ExportIsComplete` speaks of what stayed put. A torn history line, left by a
  crash of Codex or of an import, makes every later import fail until it is mended.

## What is proved

`RunGuard_proofs` proves, for any set of processes, any number of tools and any
set of commands (the assumptions are those stated in `RunGuard`: `N` is a positive
number, there is a process and `NoRun` is none, commands name tools in range):

| Theorem | States |
|---|---|
| `Typing` | the type invariant |
| `Locking` | `LockInv`, below |
| `Exclusion` | `MutualExclusion` |
| `Sessions` | `NoSessionOverlooked` |
| `GuardImplements` | every behaviour of `RunGuard` is one of `ExclusiveRuns` |
| `ContentionIsFair` | `ContentionSparesOne` |

`MutualExclusion` speaks of what processes touch and is not inductive: nothing in
it says why two cannot both come to touch a tool. `LockInv` adds the reason: a
process holds the lock of each tool on its prepared list (`HoldsPrepared`), while
it stages or writes that list has all its tools (`WorksLocked`), and the tools it
writes are among those it targets (`PresentSelected`). A lock has one holder, so
exclusion follows. `NoSessionOverlooked` needs what happened before the write:
`SessionInv` adds that a steady session is running (`SteadyRuns`), that during the
recheck the tools passed are the ones asked (`PassedIsFresh`) and that every
session asked about and still running was reported (`PassedIsSeen`). The
refinement needs `LockInv` at the one step that enters the writing phase.

That contention spares one holds for any number of tools because of the order in
which locks are taken. A run that has not decided yet holds locks below all that it
still wants (`TakesInOrder`), so one that is refused is refused over a lock above
its own. Whatever a refused run still holds while it lets go, somebody is ahead of
it (`LosesToAhead`): a run that succeeded, or one that has not decided and holds a
lock further up. If all were refused, the one with the highest lock would have
nobody ahead of it.

`Importer_proofs`, for any archives over any files, lines and tools, any number of
runs, and any fault or kill (assumptions: those stated in `Importer`):

| Theorem | States |
|---|---|
| `Typing`, `Imports` | the types, and `ImportInv`, below |
| `Refusals` | `RefusedLeavesNoTrace` |
| `Successes` | `SuccessConverges` |
| `ImportImplements` | every behaviour of `Importer` is one of `ImportBatch` |
| `Causes` | `RefusalHasCause`, for archives that name no file twice (`NamesDiffer`) |

`ImportInv` says for each phase where the bodies are: while staging, every file
listed has the last body read so far in its temp (`Staging`); while promoting, the
first files have their body in place and no temp, the rest are as found and the
backups are what was found (`Promoting`); while rolling back, those not yet
reached are still replaced (`RollingBack`); after that, every wanted file is in
place and the lines of the finished tools are merged (`Landing`). The argument
that carries it is that a file can be renamed only once, because its temp is gone
afterwards, so that its backup is what the run found and not an earlier body of
the same archive. Merging writes only lines that are not there, so no line stands
twice whatever an earlier run died in. `Causes` needs more: that each file was
staged once, so that its temp is there when its rename comes (`CauseInv`). That the
last entry of a name exists is by well-founded induction over positions.

`ClaudeMove_proofs`, for any files in the home, the encoded directory and the
project, any of them large, any list of rewrites (a file may stand in it twice) and
any number of runs (assumptions: those stated in `ClaudeMove`):

| Theorem | States |
|---|---|
| `Moves` | `MoveInv`, below |
| `Typing` | the type invariant |
| `NoLoss` | `NothingLost` |
| `Rollbacks` | `FailureRollsBack` |
| `Successes` | `SuccessMovesAll` |
| `Trails` | `TrailInv`, below |
| `Causes` | `FailureHasCause` |

None of the four is inductive: that a file is whole somewhere does not say that it
is in the directory about to be kept. `MoveInv` speaks of directories. One of each
pair is complete at all times, dead or alive (`Safe`); as long as the run can be
undone its sources are complete and whatever it has promoted still has one
(`Sources`), so that undoing a promotion removes nothing that is needed; and while
old directories are removed the new ones are complete (`Destinations`). Rolling back
restores because a registered file has the pre-image that the run found and is
registered once, a second rewrite finding the bytes new (`Journal`), and because
nothing that is not registered differs from what the run found (`Untouched`): when
the last registration is undone, nothing differs. Success is complete because the
copy is made after the last rewrite (`Progress`); a destination found without its
source, moved by the user or by an earlier run, is complete because one of the two
always is, and one found beside its source is refused at the start. `Causes`
looks at several runs at once and has an invariant of its own, `TrailInv`: as long as no
run was killed, could not undo everything or could not remove an old directory
(`marred`), every run ends with no staging and no destination beside its source
(`LeavesClear`), for staging exists only while the copy it is for is under way
(`StagesToCopy`); and a refusal is for an obstacle or for what was there
(`Refusals`). So whoever meets staging or a destination without an obstacle
meets the leavings of such a run. That those do stop the next one is the code's way
of not deleting what it cannot tell from the user's files; finding 1 is about the
advice it gives then.

`CodexMove_proofs`, for any families of databases, any rollouts, memory roots and
trust keys, any number of runs and whatever Codex writes between plan and lock
(assumptions: no two places of the families hold the same database, no two roots are
the same, the kinds of files are disjoint, the trust keys to start from name the old
path):

| Theorem | States |
|---|---|
| `CodexMoveTypes` | the type invariant |
| `SuccessIsComplete` | `SuccessMovesAll` |
| `SuccessKeepsNoStaleBaseline` | `NoStaleBaseline` |
| `FailureIsUndone` | `FailureRollsBack` |
| `ProjectStaysDiscoverable` | `DiscoverableUntilMoved` |
| `FailuresHaveCauses` | `FailureHasCause` |

The five speak of the end of a run only. The invariant `IInv` follows the run to
it. The plan names all it could see (`PlanKnows`). A database the run has passed
says nothing old or has an open transaction that will mend it (`Databased`), a file
or root it has passed has no old path and no baseline of one (`Filed`): at the last
commit nothing old is left. What is not as the apply found it is registered, and
undoing the registration restores it (`Restorable`, `SetAsides`). The project stays
discoverable because state databases commit last (`RestoresStateLast`,
`Anchored`): as long as one of them has not committed it still says the old path,
and when the first one has, no other family does. A run that fails without a fault
has met one of the causes when it begins to restore (`Caused`).

`Sync_proofs`, for any number of machines, passphrases, tools, runs and any
commands (assumptions: those stated in `Sync`, of which `CommandsGiven` says that
there is a command):

| Theorem | States |
|---|---|
| `Uploads` | `SyncInv`, below |
| `Successes`, `Refusals`, `Pulls`, `Readers` | the invariants of the run |
| `Replacements` | `NoBlindReplacement` |

`SyncInv` speaks of each process by itself: what it has not done before its upload
(`Quiet`), what its archive is (`OwnArchive`) and which parts it has at each step
(`Parts`), which writers are still to close (`Writers`), when it is in the log
(`Published`), what it has given back (`Released`); and of what it read
(`PriorRead`): as long as nothing was published since, that is the remote. The log
holds sound archives only (`LogInv`) and no two processes are one run (`RunsApart`).
The remote changes when a sink closes and at no other step. A process that replaces
the very archive that was there when it read has therefore compared that archive's
pusher with itself, or was told to force.

`SqliteHome_proofs`, for any machines, files, bundles, sign-ins and property lists,
and any number of changes beside cc-port:

| Theorem | States |
|---|---|
| `Typing` | the type invariant |
| `BinaryReadsStayInFile`, `PlistReads` | `ReadsStayInFile` |
| `PlistAnswers` | `PlistAnswersAreComplete` |
| `HomeHolds` | `HomeIsPossible` |
| `AbsenceHolds` | `AbsenceIsCertain` |

Its assumptions (`PlistsAssumption`, `MachinesAssumption`, `FilesAssumption`,
`FetchableAssumption`) say what a file can hold: a list is a sequence of items or a
binary file that can be addressed, a struct of `auth.json` has its fields or is none,
an environment variable is a text, the network may answer with an empty bundle.

`BinaryReadsStayInFile` is for words of any width: whatever offsets, counts and sizes
a file claims, no slice the reader takes leaves it, though sums and products may
wrap, provided the file itself can be addressed (`FitsTheWord`). The checks it rests
on: a count of elements is compared with the room left divided by their width, before
any product is formed, and in the trailer the count is bounded by the length of the
file and the width by eight bytes.

`PlistAnswers` is an induction over the items of a list: the walk of the dictionary
is a recursive function, and `WalkIsRight` shows of every position, from the end
backwards, that an answer from there on is complete and has the last string under
the key. The library's induction theorems cannot be used, so `Induction` is derived
from the well-foundedness of the order of naturals, which is stated about sets.

The other two compare cc-port with Codex in three parts. The gate (`GateIsRight`):
field by field the two accept the same `auth.json` (`LoadsAgree`), take the same mode
of it (`ModesAgree`), and what cc-port calls "never", "undecidable" or "applies" is
what bundles Codex may get. The choice (`ResolutionIsCodexs`): the five tiers, each
the highest of its sources, pick the directory of the highest of Codex's ten layers,
and a profile changes that only below managed configuration. And time (`IInv`): as
sign-in and cache are read one after the other while both may change, neither
property speaks of one moment. `GateRemembered` says that what was read of the
sign-in was true, with the cache as it is *now*, of the starts of some moment. It
survives a refresh of the cache because a start only refreshes a cache it cannot
use: either it is for the account that was read, then the new bundle is what a start
would get now; or it is not, and a moment ago any bundle could be fetched.
`BundleRemembered` and `HomeRemembered` carry that to the answer: without a warning
the bundle was the only one of that moment, and so is the directory.

`CodexTransfer_proofs`, for any homes on both machines, any number of imports and of
things Codex does, and any number of generations of state database:

| Theorem | States |
|---|---|
| `TransferInvariant` | `IInv`, below |
| `ExportCompletes` | `ExportIsComplete` |
| `LinesMergeOnce` | `MergedOnce` |
| `SidecarsArrive` | `SidecarsReachTheRows` |

Its assumptions (`SetupsAssumption`, `GenerationsAssumption`) say what a home holds,
field by field, and one thing more: a rollout file is named for its thread, so that
files of one name, under either root and on either machine, are of one thread.
Without it an import could put a thread over another, and nothing in the code looks.

`ExportCompletes` follows the files that Codex leaves alone (`SourceInv`): they are
found by the walk of the root they stand in (`FoundInv`), read as they are
(`ReadInv`), their threads are among those whose lines are written (`WrittenInv`). A
file that moves between the two walks is not one of them. `LinesMergeOnce` rests on
what a set of seen keys does to a sequence (`NewIsFresh`): what it lets through has
no line twice and none that is there. An append that is cut keeps a first part of
that and perhaps a torn line, which is no line of the archive (`CutIs`); so each
line stands where it stood before the first import, or it did not stand there and
stands in one place (`KeptLine`), and a merge that ends leaves none missing
(`MergeInv`). That prompts are compared by session, second and text rather than
byte by byte loses nothing (`KeysTellPrompts`). `SidecarsArrive` is a relay
(`SidecarInv`): a staged archive has its threads on disk, where Codex keeps them,
archived or not; a database that was committed is pending without a watermark and
has the sidecars of the rows it has (`Armed`); so the start that follows a success
fills in the rows, into that database or a newer one (`HasTheRows`); no later start
and no commit takes a row away, and the next success arms that database.

`References_proofs`, for any homes, rows, lines and texts of any length, any symbolic
links, any number of changes by sessions and with the project directory leaving at
any moment before the apply:

| Theorem | States |
|---|---|
| `ReferencesInvariant` | `IInv`, below |
| `SchemasAreSettled` | `SchemaRefusedByThePlan` |
| `RowsAreMoved` | `RowsFollowTheMove` |
| `OtherRowsAreLeft` | `OtherRowsStay` |
| `OthersAreLeftAlone` | `OthersKeepTheirBytes` |
| `CountingAgrees` | `countBoundedPath` counts what `ReplacePathInBytes` replaces, in every text |
| `MovedNowhere` | a path replaced by itself leaves every byte of a text |
| `FindingIsBounded` | `ContainsBoundedPath` holds exactly where a text has a bounded match |

Its assumptions, which TLC evaluates on the setups: paths are texts without a
backslash and none is empty (`PathsAssumption`), rows have the columns of their
table and a primary key tells them apart (`DatabasesAssumption`), a line has its
type and fields that are texts (`LinesAssumption`), and the texts of `Foreign` are
those in which a name of the project, wherever it stands, goes on: a byte of a name
follows it, after dots or at once (`ForeignAssumption`).

`RowsFollowTheMove` and `OtherRowsStay` compare the databases before the last step
with those after it; what the open transactions did in between is in `IInv`. Tables
keep the columns and keys the plan accepted (`SchemaStays`), so that no update of a
planned row is refused and each finds at most one row. The plan holds the rewrite of
every row it read of the project, and its new value is the place the directory will
have (`PlanIsExact`); that was computed while the directory was there, which is why
`canonicalizePath` giving another answer later does no harm. A row is written only
from a value that names the project (`OthersUntouched`): the guard of the update
compares the value planned on, so that a freed key in the hands of another row meets
nothing. A row of the plan is as it was while its rewrite is pending and has the
new value when it is not (`RowInProgress`), since no other rewrite addresses it; the
surfaces end only when nothing of theirs is pending (`Ordered`).

`OthersKeepTheirBytes` is about loops over bytes. `LeastNatural`, derived from the
well-foundedness of the order of naturals, gives the inductions: where no place of a
text is a bounded match, `ReplacePathInBytes` gives the text back (`NothingReplaced`),
and a fold of substitutions none of which changes a text ends where it began
(`NothingSubstituted`). The rest is why there is no bounded match. A field is
compared as it is written, with the path and with the path whose slashes are escaped,
while a foreign text is foreign by what it denotes. `MatchesAreRead` and
`EscapedMatchesAreRead` follow a match through the decoding: where either spelling
occurs as written, the path occurs in what is denoted, and what follows there is what
follows here. So the name goes on after it, and `isPathContinuationByte` or
`isExtensionDotAt`, the latter over any number of dots, refuses the match
(`LongerNamesStay`). `FileInv` carries this through a move: the substitutions replace
names of the project as the plan read them and nothing else (`SourcesAreNames`, which
needs that a longest-first order of them exists), and the lines are those the apply
has read or what the substitutions make of them.

The last three are about the loops themselves. `rewrite.go:329-333` keeps two of them
in lock-step by hand: statistics, the plans of the databases and the guard of the
substitution order count with the one what an apply replaces with the other. In TLA+ each is a function chosen to satisfy an equation, about which nothing
can be said before one exists: `LoopsEnd` builds it from the last place backwards,
`FromTheEnd` is the induction that follows a loop which goes on by one byte or by a
whole match.

Only model-checked:

- `LocksAreFreed`, which is liveness.
- `FieldsFollowGuarded`. Its hypotheses say when a field comes out right in any file:
  no renaming writes another known name, or the guard has looked at the line and no
  renaming takes away a name where it writes it (`Separate`); the field names a path
  and not something around one (`NamesAPath`); and under `--deep` it is spelled as the
  byte pass reads it, or has one name only (`SpelledEvenly`). The setups hold files on
  either side of each of them, and without `Separate`, its part about the guard's
  look, or `SpelledEvenly` the property fails in the same run. A proof would follow several
  matches of several names through one text.
- `ArrivesTranslated`, which says of a substitution of placeholders followed by their
  resolution that the paths come out right; a text that spells a placeholder key
  literally would be resolved too, and is not in the setups.

What a replacement makes of a text with several matches, and what the archive's
substitution and resolution do to it, is checked on the texts of the setups.

## What is not modelled

- The directories an import makes for its files: a refused import leaves them,
  although `internal/importer/README.md` calls its destination untouched.
- In `Sync`: a machine is its identity, host and user joined, and two machines with
  the same one count as one; a host or user that cannot be read is one of the errors
  of `Plan`. A push that reads the prior before another machine's
  upload is committed replaces that upload without asking; nothing in the code
  promises otherwise, and `NoBlindReplacement` says so. A commit that reports an
  error although it happened, and a writer chain that fails to open half way, are
  left out. A pull's placeholders and what a failed import leaves are not
  modelled here.
- Modes, modification times, symbolic links and special files: no property is
  about them.
- `SafeWriteFile`'s temporary file: its rename is the write; a leftover temp is
  never read.
- The read-only passes: dry runs, plans, counting, statistics.
- Clocks (`time.Now()` is one moment in `SqliteHome`), the terminal, the keyring,
  compression, encryption and the zip format with its size caps: one file too large
  is one of the faults of staging.
- Claude's locations, its export and statistics: they read. Claude's merge of a
  config block on import and the refs-only move are left out.
- The manifest and the categories: a pass over data without state.
- In `References`: one database of each family (`CodexMove` has sets of them), and
  config keys, of which `CodexMove` has the moves. A file of which the plan counted
  nothing is passed over by the code and by the model, whatever a session adds. An
  alias made after the plan is no source. The rewriting
  looks at no boundary on the left of a match, so that a longer path that ends like
  the project is rewritten; the properties ask for none (`NamesAPath`).
- In `CodexExport` and `CodexTransfer`: `knowsProject` is one step, a line that parses
  has its fields, and a file keeps the thread it is named for. Texts that hold a
  placeholder key literally are not in the setups. What Codex does (archiving,
  compressing, starting with a backfill) is modelled from what the code in `src/`
  expects of it.
- What Codex writes between a plan and the lock and the plan cannot know: the code
  does not promise to move it, and `SuccessMovesAll` leaves it out (`late`).
- Symbolic links in what Codex stores as a directory, and the counts and warnings
  of its surfaces.
- Errors of `fsync`: a completed rename is taken to be durable, as in the code.

## Plan

Done: `RunGuard`, `Importer`, `ClaudeMove`, `CodexMove`, `Sync` and `SqliteHome` with
their proofs; `PathRewrite` with `SqliteRows`, `Rollout` and `References`;
`CodexExport` and `CodexTransfer` with their proofs; `References_proofs`. Left:

1. Claude's importer: the merge of a project's config block in `Finalize`, with the
   order of histories and config.
2. The caps of an archive as counters with their edge values, per entry and in sum.
3. A composition of `RunGuard` with the movers, so that the session that writes
   between plan and lock is the one the witness asks about.
4. Proofs: `FieldsFollowGuarded` for lines of any length, which needs the places of
   several matches in one text.
