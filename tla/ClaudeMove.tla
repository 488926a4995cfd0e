----------------------------- MODULE ClaudeMove -----------------------------
(***************************************************************************)
(* Claude's side of cc-port move --apply, run under the guard of RunGuard: *)
(* the apply bracket of move.applyTarget with its tool.Restorer, the files *)
(* rewritten in place, and the project-directory surface that copies the   *)
(* encoded storage directory and the project itself to their new names and *)
(* removes the old ones.  Any file operation may fail or be cancelled, the *)
(* process may be killed between any two, and the user may run the same    *)
(* move again.                                                             *)
(***************************************************************************)
EXTENDS Integers, Sequences

CONSTANTS
  Home,       \* files of the Claude home that are rewritten where they are
  Inside,     \* files in the encoded directory that are rewritten (transcripts, memory)
  Kept,       \* files in the encoded directory that are not
  Project,    \* files in the project directory
  Rewrites,   \* the rewritten files, in surface order
  Large,      \* files of 1 MiB and more: their pre-image goes to a sibling
  NoDir,      \* a directory that does not exist
  MaxRuns     \* bound: how often the move is run

Files == Home \cup Inside \cup Kept \cup Project
Moved == {"encoded", "project"}
Kinds == Moved \cup {"home"}
Places == {"old", "staging", "new"}
Bodies == {"none", "old", "new", "torn"}

\* What stops a move before it begins and no move made or can remove: a new name
\* inside the old one, or names that encode to one directory or put the old one
\* where the new one is staged; a session that places the encoded directory at a
\* third path; entries for both paths in the config.
Obstacles == {"names", "identity", "config"}

ASSUME RewritesAssumption == Rewrites \in Seq(Home \cup Inside)
ASSUME LargeAssumption == Large \subseteq Home \cup Inside
ASSUME MaxRunsAssumption == MaxRuns \in Nat

(* A directory holds files and, beside them, their rollback siblings. *)
Dir == [file : [Files -> Bodies], sibling : [Files -> Bodies]]
Empty == [file |-> [f \in Files |-> "none"], sibling |-> [f \in Files |-> "none"]]

ASSUME NoDirAssumption == NoDir \notin Dir

VARIABLES
  disk,      \* disk[k][p]: the directory of kind k at place p
  refsOnly,  \* the move leaves the project directory to the user
  obstacles, \* what stood in the way when the run began
  pc,        \* control state of the run
  at,        \* next rewrite, or next registration to restore or clean up
  kind,      \* the directory the project-directory surface is busy with
  undo,      \* the Restorer's registrations
  promoted,  \* directories this run has renamed into place
  outcome,   \* how the last run ended
  advice,    \* the destination a refusal told the user to delete
  fault,     \* history: the run met a fault or a cancellation
  spoiled,   \* history: the rollback reported errors
  residual,  \* history: the run warned of an old directory it could not remove
  marred,    \* history: an earlier run was killed, could not undo everything, or
             \* warned of an old directory it could not remove
  before,    \* history: the disk when the run began
  runs       \* runs begun

vars == <<disk, refsOnly, obstacles, pc, at, kind, undo, promoted, outcome, advice,
          fault, spoiled, residual, marred, before, runs>>

Control == {"over", "replace", "snapshot", "write", "staging", "promote", "copy",
            "verify", "remove", "cleanup", "restore"}

Undo == [what : {"file"}, of : Home \cup Inside] \cup [what : {"promotion"}, of : Moved]

TypeOK ==
  /\ disk \in [Kinds -> [Places -> Dir \cup {NoDir}]]
  /\ refsOnly \in BOOLEAN
  /\ obstacles \subseteq Obstacles
  /\ pc \in Control
  /\ at \in 0 .. Len(Rewrites) + 3  \* past two promotions
  /\ kind \in Moved
  /\ undo \in Seq(Undo)
  /\ promoted \subseteq Moved
  /\ outcome \in {"none", "ok", "absent", "refused", "failed", "killed"}
  /\ advice \in Moved \cup {"none"}
  /\ fault \in BOOLEAN /\ spoiled \in BOOLEAN /\ residual \in BOOLEAN
  /\ marred \in BOOLEAN
  /\ before \in [Kinds -> [Places -> Dir \cup {NoDir}]]
  /\ runs \in 0 .. MaxRuns

With(files) == [Empty EXCEPT !.file = [f \in Files |-> IF f \in files THEN "old" ELSE "none"]]

At(place, directory) == [p \in Places |-> IF p = place THEN directory ELSE NoDir]

\* Claude knows the project at its old path; the user may have moved the project
\* itself already.
Init ==
  /\ \E place \in {"old", "new"} :
       disk = [k \in Kinds |-> CASE k = "home" -> At("old", With(Home))
                                 [] k = "encoded" -> At("old", With(Inside \cup Kept))
                                 [] k = "project" -> At(place, With(Project))]
  /\ refsOnly \in BOOLEAN
  /\ obstacles \in {{}, {"names"}}
  /\ pc = "over" /\ at = 0 /\ kind = "encoded"
  /\ undo = <<>> /\ promoted = {}
  /\ outcome = "none" /\ advice = "none"
  /\ fault = FALSE /\ spoiled = FALSE /\ residual = FALSE /\ marred = FALSE
  /\ before = disk
  /\ runs = 0

-----------------------------------------------------------------------------
(* Beginning and ending *)

Exists(k, p) == disk[k][p] # NoDir
Collides(k) == Exists(k, "old") /\ Exists(k, "new")

End(why) == pc' = "over" /\ outcome' = why

\* Sessions and the config change between runs; the names do not.
Obstructs ==
  /\ obstacles' \in SUBSET Obstacles
  /\ "names" \in obstacles' <=> "names" \in obstacles

\* The checks of the source and of its names have passed.
Identified == Exists("encoded", "old") /\ obstacles' \cap {"names", "identity"} = {}
Undisputed == Identified /\ ~Collides("encoded") /\ "config" \notin obstacles'

Refuse(destination) == End("refused") /\ advice' = destination /\ fault' = FALSE

\* A run, first computing its surfaces: without an encoded directory at the old
\* path Claude does not know the project; obstacles are refused, and so is a
\* destination that exists beside its source, with the advice to delete it.
\* What the checks read may be unreadable.
Begin ==
  /\ pc = "over" /\ runs < MaxRuns
  /\ runs' = runs + 1
  /\ before' = disk
  /\ marred' = (marred \/ outcome = "killed" \/ spoiled \/ residual)
  /\ Obstructs
  /\ undo' = <<>> /\ promoted' = {}
  /\ spoiled' = FALSE /\ residual' = FALSE
  /\ at' = 1 /\ kind' = "encoded"
  /\ \/ /\ ~Exists("encoded", "old")
        /\ End("absent") /\ advice' = "none" /\ fault' = FALSE
     \/ /\ "names" \in obstacles' \/ (Exists("encoded", "old") /\ "identity" \in obstacles')
        /\ Refuse("none")
     \/ Identified /\ Collides("encoded") /\ Refuse("encoded")
     \/ /\ Identified /\ ~Collides("encoded") /\ "config" \in obstacles'
        /\ Refuse("none")
     \/ Undisputed /\ ~refsOnly /\ Collides("project") /\ Refuse("project")
     \/ /\ Undisputed
        /\ refsOnly \/ ~Collides("project")
        /\ pc' = "replace" /\ outcome' = "none" /\ advice' = "none" /\ fault' = FALSE
     \/ End("failed") /\ advice' = "none" /\ fault' = TRUE
  /\ UNCHANGED <<disk, refsOnly>>

Kill ==
  /\ pc # "over"
  /\ End("killed")
  /\ UNCHANGED <<disk, refsOnly, obstacles, at, kind, undo, promoted, advice, fault,
                 spoiled, residual, marred, before, runs>>

\* An error or a cancellation: the Restorer undoes the registrations, last first.
Abort == pc' = "restore" /\ at' = Len(undo')
Fail == Abort /\ fault' = TRUE

kept == <<refsOnly, obstacles, outcome, advice, spoiled, residual, marred, before, runs>>

-----------------------------------------------------------------------------
(* Rewriting files in place *)

KindOf(f) == IF f \in Home THEN "home" ELSE "encoded"
Text(f) == disk[KindOf(f)]["old"].file[f]
Sibling(f) == disk[KindOf(f)]["old"].sibling[f]
SetText(d, f, body) == [d EXCEPT ![KindOf(f)]["old"].file[f] = body]
SetSibling(d, f, body) == [d EXCEPT ![KindOf(f)]["old"].sibling[f] = body]

File(f) == [what |-> "file", of |-> f]

\* Below 1 MiB the pre-image is kept in memory and the file replaced by rename.
ReplaceSmall(f) ==
  /\ Text(f) = "old" /\ f \notin Large
  /\ undo' = Append(undo, File(f))
  /\ disk' = SetText(disk, f, "new")
  /\ pc' = "replace" /\ at' = at + 1
  /\ UNCHANGED fault

\* Mutant: a sibling that is already there refuses the snapshot.
OpenSiblingExclusive(f) ==
  /\ Text(f) = "old" /\ f \in Large
  /\ \/ /\ Sibling(f) = "none"
        /\ disk' = SetSibling(disk, f, "torn")
        /\ pc' = "snapshot"
        /\ UNCHANGED <<at, undo, fault>>
     \/ /\ Sibling(f) # "none"
        /\ UNCHANGED <<disk, undo, fault>>
        /\ Abort

\* From 1 MiB on the pre-image goes to a sibling, truncating one left behind.
OpenSibling(f) ==
  /\ Text(f) = "old" /\ f \in Large
  /\ disk' = SetSibling(disk, f, "torn")
  /\ pc' = "snapshot"
  /\ UNCHANGED <<at, undo, fault>>

\* ReplaceFile, one file after the other; unchanged bytes are left alone.
Replace ==
  /\ pc = "replace"
  /\ \/ /\ at <= Len(Rewrites)
        /\ \/ /\ Text(Rewrites[at]) = "new"
              /\ pc' = "replace" /\ at' = at + 1
              /\ UNCHANGED <<disk, undo, fault>>
           \/ ReplaceSmall(Rewrites[at]) \/ OpenSibling(Rewrites[at])
           \/ UNCHANGED <<disk, undo>> /\ Fail
     \/ /\ at > Len(Rewrites)
        /\ pc' = "staging"
        /\ UNCHANGED <<disk, at, undo, fault>>
  /\ UNCHANGED <<kind, promoted, kept>>

\* The sibling is filled, then registered; a failed copy removes it.
Snapshot ==
  /\ pc = "snapshot"
  /\ \/ /\ disk' = SetSibling(disk, Rewrites[at], Text(Rewrites[at]))
        /\ undo' = Append(undo, File(Rewrites[at]))
        /\ pc' = "write"
        /\ UNCHANGED <<at, fault>>
     \/ /\ disk' = SetSibling(disk, Rewrites[at], "none")
        /\ UNCHANGED undo /\ Fail
  /\ UNCHANGED <<kind, promoted, kept>>

Written(f) == SetText(disk, f, "new")

Write ==
  /\ pc = "write"
  /\ \/ /\ disk' = Written(Rewrites[at])
        /\ pc' = "replace" /\ at' = at + 1
        /\ UNCHANGED <<undo, fault>>
     \/ UNCHANGED <<disk, undo>> /\ Fail
  /\ UNCHANGED <<kind, promoted, kept>>

-----------------------------------------------------------------------------
(* The project-directory surface *)

\* The entries of a directory, and what becomes of one of them.
Entries(d) == {e \in {"file", "sibling"} \X Files : d[e[1]][e[2]] # "none"}
Put(d, e, body) == [d EXCEPT ![e[1]][e[2]] = body]

\* RemoveAll goes entry by entry, and takes a missing directory for removed.
RemoveEntry(k, p) ==
  /\ Exists(k, p)
  /\ \E e \in Entries(disk[k][p]) : disk' = [disk EXCEPT ![k][p] = Put(@, e, "none")]

RemoveDir(k, p) ==
  /\ disk[k][p] \in {NoDir, Empty}
  /\ disk' = [disk EXCEPT ![k][p] = NoDir]

\* A staging directory somebody left is removed only when it is empty.
Staging ==
  /\ pc = "staging"
  /\ \/ RemoveDir(kind, "staging") /\ pc' = "promote" /\ UNCHANGED <<at, undo, fault>>
     \/ disk[kind]["staging"] \notin {NoDir, Empty} /\ UNCHANGED <<disk, undo, fault>> /\ Abort
     \/ UNCHANGED <<disk, undo>> /\ Fail
  /\ UNCHANGED <<kind, promoted, kept>>

NextDirectory ==
  IF kind = "encoded" /\ ~refsOnly
  THEN kind' = "project" /\ pc' = "staging"
  ELSE kind' = kind /\ pc' = "verify"

\* Mutant: the undo is registered before anyone asks whether there is a
\* destination already.
ConvergedRegistered ==
  /\ Exists(kind, "new") /\ ~Exists(kind, "old")
  /\ undo' = Append(undo, [what |-> "promotion", of |-> kind])
  /\ promoted' = promoted \cup {kind}
  /\ NextDirectory
  /\ UNCHANGED <<disk, at, fault>>

\* A destination without a source counts as promoted before.
Converged ==
  /\ Exists(kind, "new") /\ ~Exists(kind, "old")
  /\ NextDirectory
  /\ UNCHANGED <<disk, at, undo, promoted, fault>>

\* Without a destination the undo is registered and staging made.
StartCopy ==
  /\ ~Exists(kind, "new")
  /\ undo' = Append(undo, [what |-> "promotion", of |-> kind])
  /\ \/ /\ disk' = [disk EXCEPT ![kind]["staging"] = Empty]
        /\ pc' = "copy"
        /\ UNCHANGED <<at, fault>>
     \/ UNCHANGED disk /\ Fail
  /\ UNCHANGED <<kind, promoted>>

\* A destination beside its source is an error here too; Begin has refused it.
Promote ==
  /\ pc = "promote"
  /\ \/ Converged \/ StartCopy
     \/ UNCHANGED <<disk, undo, kind, promoted>> /\ Fail
  /\ UNCHANGED kept

\* Copying an entry may stop anywhere, so a part of it comes first.
CopyEntry(e) ==
  \E body \in {"torn", disk[kind]["old"][e[1]][e[2]]} :
    disk' = [disk EXCEPT ![kind]["staging"] = Put(@, e, body)]

\* Mutant: an entry counts as copied when staging has one of that name.
CopiedByName == Entries(disk[kind]["old"]) \subseteq Entries(disk[kind]["staging"])

Copied == disk[kind]["staging"] = disk[kind]["old"]

\* Copy everything the source holds, then rename staging to the destination.
Copy ==
  /\ pc = "copy"
  /\ UNCHANGED <<undo, kept>>
  /\ \/ /\ Exists(kind, "old")
        /\ \E e \in Entries(disk[kind]["old"]) :
             /\ disk[kind]["staging"][e[1]][e[2]] # disk[kind]["old"][e[1]][e[2]]
             /\ CopyEntry(e)
        /\ UNCHANGED <<pc, at, kind, promoted, fault>>
     \/ /\ Exists(kind, "old") /\ Copied
        /\ disk' = [disk EXCEPT ![kind]["new"] = disk[kind]["staging"], ![kind]["staging"] = NoDir]
        /\ promoted' = promoted \cup {kind}
        /\ NextDirectory
        /\ UNCHANGED <<at, fault>>
     \/ Fail /\ UNCHANGED <<disk, kind, promoted>>

Verify ==
  /\ pc = "verify"
  /\ \/ /\ Exists("encoded", "new") /\ (refsOnly \/ Exists("project", "new"))
        /\ pc' = "remove"
        /\ kind' = IF refsOnly THEN "encoded" ELSE "project"
        /\ UNCHANGED <<at, undo, fault>>
     \/ UNCHANGED <<undo, kind>> /\ Fail
  /\ UNCHANGED <<disk, promoted, kept>>

AfterRemoval ==
  IF kind = "project" THEN kind' = "encoded" /\ pc' = "remove" /\ UNCHANGED at
                      ELSE kind' = kind /\ pc' = "cleanup" /\ at' = 1

\* Remove the old project directory, then the old encoded one; what cannot be
\* removed is a warning.
Remove ==
  /\ pc = "remove"
  /\ \/ RemoveEntry(kind, "old") /\ UNCHANGED <<pc, at, kind, residual>>
     \/ RemoveDir(kind, "old") /\ AfterRemoval /\ UNCHANGED residual
     \/ /\ Exists(kind, "old")
        /\ residual' = TRUE
        /\ AfterRemoval
        /\ UNCHANGED disk
  /\ UNCHANGED <<refsOnly, obstacles, undo, promoted, outcome, advice, fault, spoiled,
                 marred, before, runs>>

-----------------------------------------------------------------------------
(* Cleanup and Restore *)

\* On success the siblings are removed where they were made, errors ignored.
Cleanup ==
  /\ pc = "cleanup"
  /\ \/ /\ at <= Len(undo)
        /\ disk' = IF undo[at].what = "file" /\ undo[at].of \in Large /\ Exists(KindOf(undo[at].of), "old")
                   THEN SetSibling(disk, undo[at].of, "none") ELSE disk
        /\ at' = at + 1
        /\ UNCHANGED <<pc, outcome>>
     \/ /\ at > Len(undo)
        /\ End("ok")
        /\ UNCHANGED <<disk, at>>
  /\ UNCHANGED <<refsOnly, obstacles, kind, undo, promoted, advice, fault, spoiled,
                 residual, marred, before, runs>>

\* Mutant: the undo never learns that the rename has happened.
PlaceOfStaging(k) == "staging"

\* What the undo of a promotion removes.
PlaceOf(k) == IF k \in promoted THEN "new" ELSE "staging"

\* A large file gets its sibling back, a small one its bytes from memory.
UndoFile(f) ==
  disk' = IF f \in Large THEN SetSibling(SetText(disk, f, Sibling(f)), f, "none")
                         ELSE SetText(disk, f, "old")

\* Undo the registrations in reverse order; one that fails is reported and the
\* others still run.
Restore ==
  /\ pc = "restore"
  /\ \/ /\ at > 0 /\ undo[at].what = "promotion"
        /\ RemoveEntry(undo[at].of, PlaceOf(undo[at].of))
        /\ UNCHANGED <<pc, at, outcome, spoiled>>
     \/ /\ at > 0
        /\ \/ /\ undo[at].what = "promotion"
              /\ RemoveDir(undo[at].of, PlaceOf(undo[at].of))
              /\ UNCHANGED spoiled
           \/ undo[at].what = "file" /\ UndoFile(undo[at].of) /\ UNCHANGED spoiled
           \/ spoiled' = TRUE /\ UNCHANGED disk
        /\ at' = at - 1
        /\ UNCHANGED <<pc, outcome>>
     \/ /\ at = 0
        /\ End("failed")
        /\ UNCHANGED <<disk, at, spoiled>>
  /\ UNCHANGED <<refsOnly, obstacles, kind, undo, promoted, advice, fault, residual,
                 marred, before, runs>>

-----------------------------------------------------------------------------
(* The user *)

\* A refusal over a staging directory that is not empty has the user remove it.
UserClearsStaging(k) ==
  /\ pc = "over" /\ outcome = "failed"
  /\ Exists(k, "staging")
  /\ disk' = [disk EXCEPT ![k]["staging"] = NoDir]
  /\ UNCHANGED <<refsOnly, obstacles, pc, at, kind, undo, promoted, outcome, advice, fault,
                 spoiled, residual, marred, before, runs>>

Next ==
  \/ Begin \/ Kill
  \/ Replace \/ Snapshot \/ Write
  \/ Staging \/ Promote \/ Copy \/ Verify \/ Remove
  \/ Cleanup \/ Restore
  \/ \E k \in Moved : UserClearsStaging(k)

Spec == Init /\ [][Next]_vars

\* The user does as a refusal said and deletes the destination it named.
UserDeletesDestination ==
  /\ pc = "over" /\ outcome = "refused"
  /\ advice # "none"
  /\ disk' = [disk EXCEPT ![advice]["new"] = NoDir]
  /\ advice' = "none"
  /\ UNCHANGED <<refsOnly, obstacles, pc, at, kind, undo, promoted, outcome, fault,
                 spoiled, residual, marred, before, runs>>

AdvisedSpec == Init /\ [][Next \/ UserDeletesDestination]_vars

-----------------------------------------------------------------------------
(* Properties *)

Whole(k, p, f) == Exists(k, p) /\ disk[k][p].file[f] \in {"old", "new"}

\* Whatever fails and wherever the process dies, every file of the project and
\* of its encoded directory is whole in the old directory or in the new one, and
\* every file rewritten in place is whole (applyProjectDirectoryMove, Restore).
NothingLost ==
  /\ \A f \in Inside \cup Kept : Whole("encoded", "old", f) \/ Whole("encoded", "new", f)
  /\ \A f \in Project : Whole("project", "old", f) \/ Whole("project", "new", f)
  /\ \A f \in Home : Whole("home", "old", f)

SameFiles(k, p) ==
  IF before[k][p] = NoDir THEN disk[k][p] = NoDir
  ELSE Exists(k, p) /\ disk[k][p].file = before[k][p].file

\* A move that failed, and could undo everything, has changed nothing: all files
\* read as when it began, the destinations it made are gone, and there is no
\* staging directory and no sibling that was not there before (tool.Restorer).
FailureRollsBack ==
  pc = "over" /\ outcome = "failed" /\ ~spoiled =>
    \A k \in Kinds :
      /\ SameFiles(k, "old") /\ SameFiles(k, "new")
      /\ disk[k]["staging"] \in {NoDir, before[k]["staging"]}
      /\ Exists(k, "old") =>
           \A f \in Files : disk[k]["old"].sibling[f] \in {"none", before[k]["old"].sibling[f]}

\* A move that reports success has rewritten every file, whatever runs were
\* killed before it, and has the whole of both directories at their new names;
\* what is left at the old ones it warned of.
SuccessMovesAll ==
  pc = "over" /\ outcome = "ok" =>
    /\ \A i \in DOMAIN Rewrites :
         disk[KindOf(Rewrites[i])][IF Rewrites[i] \in Home THEN "old" ELSE "new"].file[Rewrites[i]] = "new"
    /\ \A f \in Inside \cup Kept : Whole("encoded", "new", f)
    /\ ~refsOnly => \A f \in Project : Whole("project", "new", f)
    /\ ~residual => ~Exists("encoded", "old") /\ (refsOnly \/ ~Exists("project", "old"))

\* A move that no fault stops and no obstacle refuses gets through, unless an
\* earlier one was killed, could not undo everything or could not remove an old
\* directory: then staging it cannot tell from the user's own files, or a
\* destination beside what is left of its source, stands in the way.  A failure
\* that was undone and a success never stop the next move, and no sibling does
\* (removeStagingDir, classifyDestination, registerSibling).
FailureHasCause ==
  pc = "over" =>
    /\ outcome = "failed" /\ ~fault =>
         marred /\ \E k \in Moved : before[k]["staging"] \notin {NoDir, Empty}
    /\ outcome = "refused" /\ obstacles = {} =>
         marred /\ \E k \in Moved : before[k]["old"] # NoDir /\ before[k]["new"] # NoDir

\* What the refusals of internal/tool/claude/move.go tell the user: deleting the
\* destination and re-running is always safe.
DeletingDestinationIsSafe == NothingLost
=============================================================================
