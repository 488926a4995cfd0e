-------------------------- MODULE ClaudeMove_proofs --------------------------
(***************************************************************************)
(* Proofs about ClaudeMove, for any files, any order of rewriting, and any  *)
(* number of runs: wherever a move fails, is cancelled or killed, nothing   *)
(* is lost; a failed one is rolled back, a successful one is complete.      *)
(***************************************************************************)
EXTENDS ClaudeMove, TLAPS

Rewritten == Home \cup Inside

DiskType == [Kinds -> [Places -> Dir \cup {NoDir}]]

Rewriting == {"replace", "snapshot", "write"}
Copying == {"staging", "promote", "copy", "verify"}
Active == Rewriting \cup Copying
Undoable == Active \cup {"restore"}
Finishing == {"remove", "cleanup"}

\* What a directory of each kind has to hold.
Contents(k) == IF k = "home" THEN Home ELSE IF k = "encoded" THEN Inside \cup Kept ELSE Project

Complete(k, p) == Exists(k, p) /\ \A f \in Contents(k) : disk[k][p].file[f] \in {"old", "new"}

\* The directories the surface moves.
InScope(k) == k = "encoded" \/ (k = "project" /\ ~refsOnly)

\* The registrations that are still to be undone if the move fails.
Live == IF pc = "restore" THEN at ELSE Len(undo)
Registered(f) == \E i \in 1 .. Live : undo[i] = File(f)
Promotion(k) == [what |-> "promotion", of |-> k]
Started(k) == \E i \in 1 .. Live : undo[i] = Promotion(k)

\* Types, with positions and lengths that bound each other.
Typed ==
  /\ disk \in DiskType /\ before \in DiskType
  /\ refsOnly \in BOOLEAN
  /\ pc \in Control
  /\ at \in 0 .. Len(Rewrites) + 3
  /\ kind \in Moved
  /\ undo \in Seq(Undo)
  /\ promoted \subseteq Moved
  /\ outcome \in {"none", "ok", "absent", "refused", "failed", "killed"}
  /\ advice \in Moved \cup {"none"}
  /\ fault \in BOOLEAN /\ spoiled \in BOOLEAN /\ residual \in BOOLEAN
  /\ runs \in 0 .. MaxRuns

Positions ==
  /\ Len(undo) <= Len(Rewrites) + 2
  /\ pc = "replace" => at \in 1 .. Len(Rewrites) + 1 /\ Len(undo) < at
  /\ pc = "snapshot" => at \in 1 .. Len(Rewrites) /\ Len(undo) < at
  /\ pc = "write" => at \in 1 .. Len(Rewrites) /\ Len(undo) <= at
  /\ pc \in Copying => at = Len(Rewrites) + 1
  /\ pc \in {"staging", "promote"} /\ kind = "encoded" => Len(undo) <= Len(Rewrites)
  /\ pc \in {"staging", "promote"} /\ kind = "project" => Len(undo) <= Len(Rewrites) + 1
  /\ pc = "copy" /\ kind = "encoded" => Len(undo) <= Len(Rewrites) + 1
  /\ pc = "cleanup" => at \in 1 .. Len(undo) + 1
  /\ pc = "restore" => at <= Len(undo)

\* What each step is busy with.
Busy ==
  /\ pc \in Rewriting => kind = "encoded"
  /\ pc \in {"staging", "promote", "copy", "remove"} => InScope(kind)
  /\ pc \in {"snapshot", "write"} => Rewrites[at] \in Large /\ Text(Rewrites[at]) = "old"
  /\ pc = "write" => Registered(Rewrites[at])
  /\ pc = "copy" => Exists(kind, "staging") /\ Started(kind) /\ kind \notin promoted

\* At any time, dead or alive, one of the two directories is complete.
Safe ==
  /\ Complete("home", "old")
  /\ \A k \in Moved : Complete(k, "old") \/ Complete(k, "new")

\* As long as the move can still be undone its sources are complete,
Sources ==
  pc \in Undoable =>
    /\ Exists("encoded", "old")
    /\ \A k \in Moved : InScope(k) /\ Exists(k, "old") => Complete(k, "old")
    /\ \A k \in promoted : InScope(k) /\ Exists(k, "old")

\* and when it removes them its destinations are.
Destinations ==
  /\ pc \in Active =>
       /\ \A k \in Moved : InScope(k) /\ Exists(k, "new") => Complete(k, "new")
       /\ \A k \in promoted : Exists(k, "new")
  /\ pc \in Finishing => \A k \in Moved : InScope(k) => Complete(k, "new")

\* A registered file has its pre-image, which is undone once.
Journal ==
  pc \in Undoable =>
    /\ \A i, j \in 1 .. Len(undo) : undo[i] = undo[j] /\ undo[i].what = "file" => i = j
    /\ \A f \in Rewritten : Registered(f) =>
         /\ before[KindOf(f)]["old"].file[f] = "old"
         /\ f \in Large => Sibling(f) = "old"
         /\ pc \in Active => Text(f) = "new" \/ (pc = "write" /\ f = Rewrites[at])

\* Nothing but what is registered differs from what the run found.
Changed(k, f) == f \in Rewritten /\ KindOf(f) = k /\ Registered(f)

OldAsFound(k) ==
  /\ disk[k]["old"] = NoDir <=> before[k]["old"] = NoDir
  /\ Exists(k, "old") => \A f \in Files :
       /\ disk[k]["old"].file[f] = before[k]["old"].file[f] \/ Changed(k, f)
       /\ \/ disk[k]["old"].sibling[f] \in {"none", before[k]["old"].sibling[f]}
          \/ Changed(k, f) /\ f \in Large
          \/ pc = "snapshot" /\ f = Rewrites[at] /\ KindOf(f) = k

NewAsFound(k) ==
  /\ ~Started(k) => /\ disk[k]["new"] = before[k]["new"]
                    /\ disk[k]["staging"] \in {NoDir, before[k]["staging"]}
  /\ Started(k) => /\ before[k]["new"] = NoDir
                   /\ disk[k][IF k \in promoted THEN "staging" ELSE "new"] = NoDir

Untouched ==
  pc \in Active \/ (pc = "restore" /\ ~spoiled) => \A k \in Kinds : OldAsFound(k) /\ NewAsFound(k)

\* How much is rewritten, landed and removed.
Landed == \A i \in 1 .. Len(Rewrites) :
            Rewrites[i] \notin Home => disk["encoded"]["new"].file[Rewrites[i]] = "new"

Progress ==
  /\ pc \in Active => \A i \in 1 .. Len(Rewrites) : i < at => Text(Rewrites[i]) = "new"
  /\ pc \in Rewriting => ~Exists("encoded", "new")
  /\ pc \in Copying /\ Exists("encoded", "new") => Landed
  /\ pc \in Finishing =>
       /\ Landed
       /\ \A i \in 1 .. Len(Rewrites) : Rewrites[i] \in Home => Text(Rewrites[i]) = "new"
  /\ pc = "remove" /\ kind = "encoded" /\ ~residual => refsOnly \/ ~Exists("project", "old")
  /\ pc = "cleanup" /\ ~residual =>
       ~Exists("encoded", "old") /\ (refsOnly \/ ~Exists("project", "old"))

Obstacle == \E k \in Moved : before[k]["staging"] \notin {NoDir, Empty}

\* Only staging that was there before stops a run without a fault.
Cause ==
  /\ pc \in Rewriting \cup {"staging"} => disk[kind]["staging"] = before[kind]["staging"]
  /\ pc \in Active /\ pc # "verify" /\ kind = "encoded" =>
       disk["project"]["staging"] = before["project"]["staging"]
  /\ pc = "restore" /\ ~fault => Obstacle

StagingStops == pc = "over" /\ outcome = "failed" /\ ~fault => Obstacle

MoveInv ==
  /\ Typed /\ Positions /\ Busy /\ Safe /\ Sources /\ Destinations
  /\ Journal /\ Untouched /\ Progress /\ Cause
  /\ FailureRollsBack /\ SuccessMovesAll /\ StagingStops

-----------------------------------------------------------------------------
(* What the updates of the disk do *)

LEMMA KindOfTyped == \A f : KindOf(f) \in {"home", "encoded"}
  BY DEF KindOf

LEMMA PutDir ==
  ASSUME NEW d \in DiskType, NEW k \in Kinds, NEW p \in Places, NEW x \in Dir \cup {NoDir}
  PROVE  /\ [d EXCEPT ![k][p] = x] \in DiskType
         /\ [d EXCEPT ![k][p] = x][k][p] = x
         /\ \A j \in Kinds, q \in Places :
              j # k \/ q # p => [d EXCEPT ![k][p] = x][j][q] = d[j][q]
  BY DEF DiskType

\* One file of a directory, or one sibling, is replaced.
LEMMA FileOfDir ==
  ASSUME NEW d \in Dir, NEW f \in Files, NEW b \in Bodies
  PROVE  /\ [d EXCEPT !.file[f] = b] \in Dir
         /\ \A g \in Files : [d EXCEPT !.file[f] = b].file[g] = IF g = f THEN b ELSE d.file[g]
         /\ [d EXCEPT !.file[f] = b].sibling = d.sibling
  BY DEF Dir

LEMMA SiblingOfDir ==
  ASSUME NEW d \in Dir, NEW f \in Files, NEW b \in Bodies
  PROVE  /\ [d EXCEPT !.sibling[f] = b] \in Dir
         /\ \A g \in Files : [d EXCEPT !.sibling[f] = b].sibling[g] = IF g = f THEN b ELSE d.sibling[g]
         /\ [d EXCEPT !.sibling[f] = b].file = d.file
  BY DEF Dir

LEMMA EntryOfDir ==
  ASSUME NEW d \in Dir, NEW e \in {"file", "sibling"} \X Files, NEW b \in Bodies
  PROVE  Put(d, e, b) \in Dir /\ d[e[1]][e[2]] \in Bodies
  BY DEF Dir, Put

LEMMA TextIsSet ==
  ASSUME NEW d \in DiskType, NEW f \in Rewritten, NEW b \in Bodies, d[KindOf(f)]["old"] # NoDir
  PROVE  /\ SetText(d, f, b) \in DiskType
         /\ SetText(d, f, b)[KindOf(f)]["old"] # NoDir
         /\ \A j \in Kinds, q \in Places :
              j # KindOf(f) \/ q # "old" => SetText(d, f, b)[j][q] = d[j][q]
         /\ \A g \in Files : SetText(d, f, b)[KindOf(f)]["old"].file[g] =
              IF g = f THEN b ELSE d[KindOf(f)]["old"].file[g]
         /\ SetText(d, f, b)[KindOf(f)]["old"].sibling = d[KindOf(f)]["old"].sibling
  <1> DEFINE k == KindOf(f)
             x == [d[k]["old"] EXCEPT !.file[f] = b]
  <1>1. k \in Kinds /\ "old" \in Places /\ f \in Files
    BY KindOfTyped DEF Kinds, Moved, Places, Rewritten, Files
  <1>2. d[k]["old"] \in Dir
    BY <1>1 DEF DiskType
  <1>3. x \in Dir /\ x # NoDir
    BY <1>1, <1>2, FileOfDir, NoDirAssumption
  <1>4. SetText(d, f, b) = [d EXCEPT ![k]["old"] = x]
    BY <1>1 DEF SetText, DiskType
  <1>5. \A g \in Files : x.file[g] = IF g = f THEN b ELSE d[k]["old"].file[g]
    BY <1>1, <1>2, FileOfDir
  <1>6. x.sibling = d[k]["old"].sibling
    BY <1>1, <1>2, FileOfDir
  <1> HIDE DEF k, x
  <1>7. /\ [d EXCEPT ![k]["old"] = x] \in DiskType
        /\ [d EXCEPT ![k]["old"] = x][k]["old"] = x
        /\ \A j \in Kinds, q \in Places :
             j # k \/ q # "old" => [d EXCEPT ![k]["old"] = x][j][q] = d[j][q]
    BY <1>1, <1>3, PutDir
  <1>8. QED
    BY <1>3, <1>4, <1>5, <1>6, <1>7 DEF k

LEMMA SiblingIsSet ==
  ASSUME NEW d \in DiskType, NEW f \in Rewritten, NEW b \in Bodies, d[KindOf(f)]["old"] # NoDir
  PROVE  /\ SetSibling(d, f, b) \in DiskType
         /\ SetSibling(d, f, b)[KindOf(f)]["old"] # NoDir
         /\ \A j \in Kinds, q \in Places :
              j # KindOf(f) \/ q # "old" => SetSibling(d, f, b)[j][q] = d[j][q]
         /\ \A g \in Files : SetSibling(d, f, b)[KindOf(f)]["old"].sibling[g] =
              IF g = f THEN b ELSE d[KindOf(f)]["old"].sibling[g]
         /\ SetSibling(d, f, b)[KindOf(f)]["old"].file = d[KindOf(f)]["old"].file
  <1> DEFINE k == KindOf(f)
             x == [d[k]["old"] EXCEPT !.sibling[f] = b]
  <1>1. k \in Kinds /\ "old" \in Places /\ f \in Files
    BY KindOfTyped DEF Kinds, Moved, Places, Rewritten, Files
  <1>2. d[k]["old"] \in Dir
    BY <1>1 DEF DiskType
  <1>3. x \in Dir /\ x # NoDir
    BY <1>1, <1>2, SiblingOfDir, NoDirAssumption
  <1>4. SetSibling(d, f, b) = [d EXCEPT ![k]["old"] = x]
    BY <1>1 DEF SetSibling, DiskType
  <1>5. \A g \in Files : x.sibling[g] = IF g = f THEN b ELSE d[k]["old"].sibling[g]
    BY <1>1, <1>2, SiblingOfDir
  <1>6. x.file = d[k]["old"].file
    BY <1>1, <1>2, SiblingOfDir
  <1> HIDE DEF k, x
  <1>7. /\ [d EXCEPT ![k]["old"] = x] \in DiskType
        /\ [d EXCEPT ![k]["old"] = x][k]["old"] = x
        /\ \A j \in Kinds, q \in Places :
             j # k \/ q # "old" => [d EXCEPT ![k]["old"] = x][j][q] = d[j][q]
    BY <1>1, <1>3, PutDir
  <1>8. QED
    BY <1>3, <1>4, <1>5, <1>6, <1>7 DEF k

-----------------------------------------------------------------------------
(* Facts that every step uses *)

LEMMA Sets ==
  /\ Moved = {"encoded", "project"} /\ Moved \subseteq Kinds /\ "home" \in Kinds
  /\ \A k \in Kinds : k = "home" \/ k \in Moved
  /\ "old" \in Places /\ "staging" \in Places /\ "new" \in Places
  /\ Rewritten \subseteq Files
  /\ \A k \in Kinds : Contents(k) \subseteq Files
  /\ \A k \in Moved : Contents(k) = IF k = "encoded" THEN Inside \cup Kept ELSE Project
  /\ Contents("home") = Home
  BY DEF Moved, Kinds, Places, Rewritten, Files, Contents

LEMMA RewritesTyped ==
  /\ Len(Rewrites) \in Nat
  /\ \A i \in 1 .. Len(Rewrites) : Rewrites[i] \in Rewritten
  BY RewritesAssumption DEF Rewritten

\* A file that is rewritten is there, and whole, while the move can be undone.
LEMMA TextThere ==
  ASSUME Typed, Safe, Sources, pc \in Undoable, NEW f \in Rewritten
  PROVE  /\ KindOf(f) \in {"home", "encoded"}
         /\ Exists(KindOf(f), "old")
         /\ Text(f) \in {"old", "new"}
         /\ disk[KindOf(f)]["old"] \in Dir
         /\ f \in Contents(KindOf(f))
  <1>1. CASE f \in Home
    <2>1. KindOf(f) = "home" /\ f \in Contents("home")
      BY <1>1, Sets DEF KindOf
    <2>2. Exists("home", "old") /\ disk["home"]["old"].file[f] \in {"old", "new"}
      BY <2>1 DEF Safe, Complete
    <2>3. disk["home"]["old"] \in Dir
      BY <2>2, Sets DEF Typed, DiskType, Exists
    <2>4. QED
      BY <2>1, <2>2, <2>3 DEF Text
  <1>2. CASE f \notin Home
    <2>1. KindOf(f) = "encoded" /\ f \in Contents("encoded")
      BY <1>2, Sets DEF KindOf, Rewritten
    <2>2. Complete("encoded", "old")
      BY Sets DEF Sources, InScope
    <2>3. Exists("encoded", "old") /\ disk["encoded"]["old"].file[f] \in {"old", "new"}
      BY <2>1, <2>2 DEF Complete
    <2>4. disk["encoded"]["old"] \in Dir
      BY <2>3, Sets DEF Typed, DiskType, Exists
    <2>5. QED
      BY <2>1, <2>3, <2>4 DEF Text
  <1>3. QED
    BY <1>1, <1>2

\* Completeness depends on the files of one directory.
LEMMA CompleteStays ==
  ASSUME NEW k \in Kinds, NEW p \in Places, disk'[k][p] # NoDir,
         \A f \in Contents(k) : disk'[k][p].file[f] = disk[k][p].file[f],
         Complete(k, p)
  PROVE  Complete(k, p)'
  BY DEF Complete, Exists

\* Properties of ended runs, while a run goes on.
LEMMA Running ==
  ASSUME pc' # "over"
  PROVE  FailureRollsBack' /\ SuccessMovesAll' /\ StagingStops'
  BY DEF FailureRollsBack, SuccessMovesAll, StagingStops

-----------------------------------------------------------------------------
(* Steps that leave the disk alone *)

LEMMA AbortStep ==
  ASSUME MoveInv, pc \in Active, pc # "snapshot", Abort, fault' \in BOOLEAN, fault' \/ Obstacle,
         UNCHANGED <<disk, undo, kind, promoted>>, UNCHANGED kept
  PROVE  MoveInv'
  <1> USE DEF kept
  <1>1. pc' = "restore" /\ at' = Len(undo) /\ Live' = Len(undo) /\ Live = Len(undo)
    BY DEF Abort, Live, Active, Rewriting, Copying
  <1>2. Len(undo) \in Nat /\ Len(undo) <= Len(Rewrites) + 2 /\ Len(Rewrites) \in Nat
    BY RewritesTyped DEF MoveInv, Typed, Positions
  <1>3. Typed'
    BY <1>1, <1>2 DEF MoveInv, Typed, Control
  <1>4. Positions'
    BY <1>1, <1>2 DEF Positions, Copying
  <1>5. Busy'
    BY <1>1 DEF Busy, Rewriting
  <1>6. Safe'
    BY DEF MoveInv, Safe, Complete, Exists
  <1>7. Sources'
    BY DEF MoveInv, Sources, Complete, Exists, InScope, Undoable
  <1>8. Destinations'
    BY <1>1 DEF Destinations, Active, Rewriting, Copying, Finishing
  <1>9. \A f : Registered(f)' <=> Registered(f)
    BY <1>1 DEF Registered, File
  <1>10. \A k : Started(k)' <=> Started(k)
    BY <1>1 DEF Started, Promotion
  <1>11. Journal'
    <2>1. Journal /\ pc \in Undoable
      BY DEF MoveInv, Undoable
    <2>2. pc' \notin Active
      BY <1>1 DEF Active, Rewriting, Copying
    <2>3. QED
      BY <1>9, <2>1, <2>2 DEF Journal, Sibling
  <1>12. Untouched'
    <2> SUFFICES ASSUME NEW k \in Kinds PROVE OldAsFound(k)' /\ NewAsFound(k)'
      BY DEF Untouched
    <2>1. OldAsFound(k) /\ NewAsFound(k)
      BY DEF MoveInv, Untouched
    <2>2. OldAsFound(k)'
      BY <1>9, <2>1 DEF OldAsFound, Changed, Exists
    <2>3. NewAsFound(k)'
      BY <1>10, <2>1 DEF NewAsFound
    <2>4. QED
      BY <2>2, <2>3
  <1>13. Progress'
    BY <1>1 DEF Progress, Active, Rewriting, Copying, Finishing
  <1>14. Cause'
    BY <1>1 DEF Cause, Active, Rewriting, Copying, Obstacle
  <1>15. QED
    BY <1>1, <1>3, <1>4, <1>5, <1>6, <1>7, <1>8, <1>11, <1>12, <1>13, <1>14, Running DEF MoveInv

LEMMA KillStep == MoveInv /\ Kill => MoveInv'
  <1> SUFFICES ASSUME MoveInv, Kill PROVE MoveInv'
    OBVIOUS
  <1>1. pc' = "over" /\ outcome' = "killed"
    BY DEF Kill, End
  <1>2. UNCHANGED <<disk, refsOnly, at, kind, undo, promoted, advice, fault, spoiled,
                    residual, before, runs>>
    BY DEF Kill
  <1>3. Typed'
    BY <1>1, <1>2 DEF MoveInv, Typed, Control
  <1>4. Positions' /\ Busy'
    BY <1>1, <1>2 DEF MoveInv, Positions, Busy, Rewriting, Copying
  <1>5. Safe'
    BY <1>2 DEF MoveInv, Safe, Complete, Exists
  <1>6. Sources' /\ Destinations' /\ Journal' /\ Untouched'
    BY <1>1 DEF Sources, Destinations, Journal, Untouched, Undoable, Active, Rewriting, Copying, Finishing
  <1>7. Progress' /\ Cause'
    BY <1>1 DEF Progress, Cause, Active, Rewriting, Copying, Finishing
  <1>8. FailureRollsBack' /\ SuccessMovesAll' /\ StagingStops'
    BY <1>1 DEF FailureRollsBack, SuccessMovesAll, StagingStops
  <1>9. QED
    BY <1>3, <1>4, <1>5, <1>6, <1>7, <1>8 DEF MoveInv

LEMMA BeginStep == MoveInv /\ Begin => MoveInv'
  <1> SUFFICES ASSUME MoveInv, Begin PROVE MoveInv'
    OBVIOUS
  <1>1. /\ UNCHANGED <<disk, refsOnly>> /\ before' = disk
        /\ undo' = <<>> /\ promoted' = {} /\ at' = 1 /\ kind' = "encoded"
        /\ spoiled' = FALSE /\ residual' = FALSE
        /\ runs' = runs + 1 /\ runs < MaxRuns
    BY DEF Begin
  <1>2. /\ Len(undo') = 0 /\ Len(Rewrites) \in Nat
        /\ undo' \in Seq(Undo)
    BY <1>1, RewritesTyped
  <1>3. Typed'
    <2>1. /\ pc' \in Control /\ outcome' \in {"absent", "refused", "failed", "none"}
          /\ advice' \in Moved \cup {"none"} /\ fault' \in BOOLEAN
      BY DEF Begin, End, Refuse, Control, Moved
    <2>2. runs' \in 0 .. MaxRuns
      BY <1>1, MaxRunsAssumption DEF MoveInv, Typed
    <2>3. at' \in 0 .. Len(Rewrites) + 3 /\ kind' \in Moved
      BY <1>1, <1>2 DEF Moved
    <2>4. QED
      BY <1>1, <1>2, <2>1, <2>2, <2>3 DEF MoveInv, Typed
  <1>4. Safe'
    BY <1>1 DEF MoveInv, Safe, Complete, Exists
  <1>5. CASE pc' = "over"
    <2>1. outcome' \in {"absent", "refused", "failed"} /\ (outcome' = "failed" => fault')
      BY <1>5 DEF Begin, End, Refuse
    <2>2. Positions' /\ Busy'
      BY <1>1, <1>2, <1>5 DEF Positions, Busy, Rewriting, Copying
    <2>3. Sources' /\ Destinations' /\ Journal' /\ Untouched'
      BY <1>5 DEF Sources, Destinations, Journal, Untouched, Undoable, Active, Rewriting, Copying, Finishing
    <2>4. Progress' /\ Cause'
      BY <1>5 DEF Progress, Cause, Active, Rewriting, Copying, Finishing
    <2>5. FailureRollsBack' /\ SuccessMovesAll' /\ StagingStops'
      <3>1. SuccessMovesAll' /\ StagingStops'
        BY <2>1 DEF SuccessMovesAll, StagingStops
      <3>2. FailureRollsBack'
        BY <1>1 DEF FailureRollsBack, SameFiles, Exists
      <3>3. QED
        BY <3>1, <3>2
    <2>6. QED
      BY <1>3, <1>4, <2>2, <2>3, <2>4, <2>5 DEF MoveInv
  <1>6. CASE pc' # "over"
    <2>1. /\ pc' = "replace"
          /\ Exists("encoded", "old") /\ ~Exists("encoded", "new")
          /\ refsOnly \/ ~Exists("project", "old") \/ ~Exists("project", "new")
      BY <1>6 DEF Begin, End, Refuse, Identified, Undisputed, Collides
    <2>2. Positions' /\ Busy'
      BY <1>1, <1>2, <2>1 DEF Positions, Busy, Rewriting, Copying
    <2>3. \A k \in Moved : InScope(k) /\ Exists(k, "old") => ~Exists(k, "new")
      BY <2>1 DEF InScope
    <2>4. Sources'
      BY <1>1, <2>1, <2>3 DEF MoveInv, Safe, Sources, Complete, Exists, InScope
    <2>5. Destinations'
      <3>1. \A k \in Moved : InScope(k) /\ Exists(k, "new") => Complete(k, "new")
        BY <2>3 DEF MoveInv, Safe, Complete
      <3>2. QED
        BY <1>1, <2>1, <3>1 DEF Destinations, Complete, Exists, InScope, Finishing
    <2>6. Live' = 0
      BY <1>1, <1>2, <2>1 DEF Live
    <2>7. Journal'
      BY <1>1, <1>2, <2>6 DEF Journal, Registered
    <2>8. Untouched'
      BY <1>1, <2>6 DEF Untouched, OldAsFound, NewAsFound, Started, Exists
    <2>9. Progress'
      BY <1>1, <2>1 DEF Progress, Rewriting, Copying, Finishing, Exists
    <2>10. Cause'
      BY <1>1, <2>1 DEF Cause
    <2>11. QED
      BY <1>3, <1>4, <1>6, <2>2, <2>4, <2>5, <2>7, <2>8, <2>9, <2>10, Running DEF MoveInv
  <1>7. QED
    BY <1>5, <1>6

-----------------------------------------------------------------------------
(* Steps on one file that is rewritten *)

\* The next disk differs in file f, or its sibling, alone.
OnlyAt(f) ==
  /\ disk' \in DiskType
  /\ \A j \in Kinds, q \in Places : j # KindOf(f) \/ q # "old" => disk'[j][q] = disk[j][q]
  /\ disk'[KindOf(f)]["old"] # NoDir
  /\ \A g \in Files : g # f =>
       /\ disk'[KindOf(f)]["old"].file[g] = disk[KindOf(f)]["old"].file[g]
       /\ disk'[KindOf(f)]["old"].sibling[g] = disk[KindOf(f)]["old"].sibling[g]

LEMMA OnlyAtKeeps ==
  ASSUME NEW f \in Rewritten, OnlyAt(f), Exists(KindOf(f), "old"), Text(f)' \in {"old", "new"}
  PROVE  /\ \A k \in Kinds, p \in Places : Complete(k, p) => Complete(k, p)'
         /\ \A k \in Kinds, p \in Places : Exists(k, p)' <=> Exists(k, p)
  <1>1. KindOf(f) \in Kinds
    BY KindOfTyped, Sets DEF Moved, Kinds
  <1>2. \A k \in Kinds, p \in Places : Exists(k, p)' <=> Exists(k, p)
    BY <1>1 DEF OnlyAt, Exists
  <1>3. ASSUME NEW k \in Kinds, NEW p \in Places, Complete(k, p) PROVE Complete(k, p)'
    <2>1. CASE k # KindOf(f) \/ p # "old"
      BY <1>3, <2>1 DEF OnlyAt, Complete, Exists
    <2>2. CASE k = KindOf(f) /\ p = "old"
      <3>1. \A g \in Contents(k) : g \in Files
        BY Sets
      <3>2. ASSUME NEW g \in Contents(k) PROVE disk'[k][p].file[g] \in {"old", "new"}
        <4>1. CASE g = f
          BY <2>2, <4>1 DEF Text
        <4>2. CASE g # f
          BY <1>3, <2>2, <3>1, <4>2 DEF OnlyAt, Complete
        <4>3. QED
          BY <4>1, <4>2
      <3>3. QED
        BY <1>2, <1>3, <3>2 DEF Complete
    <2>3. QED
      BY <2>1, <2>2
  <1>4. QED
    BY <1>2, <1>3

\* What a step on one file leaves true of the directories.
LEMMA OnlyAtSafe ==
  ASSUME MoveInv, pc \in Undoable, NEW f \in Rewritten, OnlyAt(f), Text(f)' \in {"old", "new"},
         UNCHANGED <<refsOnly, promoted>>, pc' \in Undoable, pc' \in Active => pc \in Active
  PROVE  Safe' /\ Sources' /\ Destinations'
  <1>1. Exists(KindOf(f), "old")
    BY TextThere DEF MoveInv
  <1>2. /\ \A k \in Kinds, p \in Places : Complete(k, p) => Complete(k, p)'
        /\ \A k \in Kinds, p \in Places : Exists(k, p)' <=> Exists(k, p)
    BY <1>1, OnlyAtKeeps
  <1>3. Safe'
    BY <1>2, Sets DEF MoveInv, Safe
  <1>4. Sources'
    <2>1. \A k : InScope(k)' <=> InScope(k)
      BY DEF InScope
    <2>2. promoted \subseteq Moved
      BY DEF MoveInv, Typed
    <2>3. Exists("encoded", "old") /\ Exists("encoded", "old")'
      BY <1>2, Sets DEF MoveInv, Sources
    <2>4. ASSUME NEW k \in Moved, InScope(k), Exists(k, "old")' PROVE Complete(k, "old")'
      BY <1>2, <2>4, Sets DEF MoveInv, Sources
    <2>5. ASSUME NEW k \in promoted PROVE InScope(k) /\ Exists(k, "old")'
      BY <1>2, <2>2, Sets DEF MoveInv, Sources
    <2>6. QED
      BY <2>1, <2>3, <2>4, <2>5 DEF Sources
  <1>5. Destinations'
    <2>1. \A k : InScope(k)' <=> InScope(k)
      BY DEF InScope
    <2>2. pc' \notin Finishing
      BY DEF Undoable, Active, Rewriting, Copying, Finishing
    <2>3. promoted \subseteq Moved
      BY DEF MoveInv, Typed
    <2>4. ASSUME pc' \in Active, NEW k \in Moved, InScope(k), Exists(k, "new")'
          PROVE Complete(k, "new")'
      BY <1>2, <2>4, Sets DEF MoveInv, Destinations
    <2>5. ASSUME pc' \in Active, NEW k \in promoted PROVE Exists(k, "new")'
      BY <1>2, <2>3, <2>5, Sets DEF MoveInv, Destinations
    <2>6. QED
      BY <2>1, <2>2, <2>4, <2>5 DEF Destinations
  <1>6. QED
    BY <1>3, <1>4, <1>5

\* Other files of a step on f have the text they had.
LEMMA OthersStay ==
  ASSUME NEW f \in Rewritten, OnlyAt(f), NEW g \in Rewritten, g # f
  PROVE  Text(g)' = Text(g) /\ Sibling(g)' = Sibling(g)
  <1>1. g \in Files /\ KindOf(g) \in Kinds /\ "old" \in Places
    BY Sets, KindOfTyped DEF Moved, Kinds
  <1>2. CASE KindOf(g) = KindOf(f)
    BY <1>1, <1>2 DEF OnlyAt, Text, Sibling
  <1>3. CASE KindOf(g) # KindOf(f)
    BY <1>1, <1>3 DEF OnlyAt, Text, Sibling
  <1>4. QED
    BY <1>2, <1>3

\* Unchanged bytes are passed over, and after the last file come the directories.
LEMMA PassStep ==
  ASSUME MoveInv, pc = "replace", UNCHANGED <<disk, undo, fault, kind, promoted>>, UNCHANGED kept,
         \/ at <= Len(Rewrites) /\ Text(Rewrites[at]) = "new" /\ pc' = "replace" /\ at' = at + 1
         \/ at > Len(Rewrites) /\ pc' = "staging" /\ at' = at
  PROVE  MoveInv'
  <1> USE DEF kept
  <1>1. pc' \in {"replace", "staging"} /\ Live' = Len(undo) /\ Live = Len(undo)
    BY DEF Live
  <1>2. Len(undo) \in Nat /\ Len(Rewrites) \in Nat /\ at \in 1 .. Len(Rewrites) + 1 /\ Len(undo) < at
    BY RewritesTyped DEF MoveInv, Typed, Positions
  <1>3. kind = "encoded"
    BY DEF MoveInv, Busy, Rewriting
  <1>4. Typed'
    BY <1>2 DEF MoveInv, Typed, Control
  <1>5. Positions'
    BY <1>2, <1>3 DEF Positions, Copying
  <1>6. Busy'
    BY <1>1, <1>3 DEF Busy, Rewriting, InScope
  <1>7. Safe'
    BY DEF MoveInv, Safe, Complete, Exists
  <1>8. Sources' /\ Destinations'
    BY <1>1 DEF MoveInv, Sources, Destinations, Complete, Exists, InScope, Undoable, Active, Rewriting, Copying, Finishing
  <1>9. \A f : Registered(f)' <=> Registered(f)
    BY <1>1 DEF Registered, File
  <1>10. \A k : Started(k)' <=> Started(k)
    BY <1>1 DEF Started, Promotion
  <1>11. pc \in Active /\ pc \in Undoable /\ pc' \in Active
    BY <1>1 DEF Active, Rewriting, Copying, Undoable
  <1>12. Journal'
    BY <1>9, <1>11 DEF MoveInv, Journal, Sibling, Text
  <1>13. Untouched'
    <2> SUFFICES ASSUME NEW k \in Kinds PROVE OldAsFound(k)' /\ NewAsFound(k)'
      BY DEF Untouched
    <2>1. OldAsFound(k) /\ NewAsFound(k)
      BY <1>11 DEF MoveInv, Untouched
    <2>2. OldAsFound(k)'
      BY <1>9, <2>1 DEF OldAsFound, Changed, Exists
    <2>3. NewAsFound(k)'
      BY <1>10, <2>1 DEF NewAsFound
    <2>4. QED
      BY <2>2, <2>3
  <1>14. Progress'
    <2>1. Progress
      BY DEF MoveInv
    <2>2. \A i \in 1 .. Len(Rewrites) : i < at' => Text(Rewrites[i])' = "new"
      BY <1>2, <1>11, <2>1 DEF Progress, Text
    <2>3. ~Exists("encoded", "new")'
      BY <2>1 DEF Progress, Exists, Rewriting
    <2>4. QED
      BY <1>1, <2>2, <2>3 DEF Progress, Finishing
  <1>15. Cause'
    BY <1>1, <1>3, <1>11 DEF MoveInv, Cause, Rewriting
  <1>16. QED
    BY <1>1, <1>4, <1>5, <1>6, <1>7, <1>8, <1>12, <1>13, <1>14, <1>15, Running DEF MoveInv

\* Destinations and staging are not there, or as found, while files are rewritten.
LEMMA OnlyAtFrame ==
  ASSUME MoveInv, pc \in Rewriting, NEW f \in Rewritten, OnlyAt(f),
         UNCHANGED <<kind, promoted>>, UNCHANGED kept,
         pc' \in Rewriting \cup {"restore"}, pc' = "restore" => fault',
         \A k : Started(k)' <=> Started(k)
  PROVE  (\A k \in Kinds : NewAsFound(k)') /\ Cause' /\ ~Exists("encoded", "new")'
  <1> USE DEF kept
  <1>1. pc \in Active /\ kind = "encoded"
    BY DEF Active, MoveInv, Busy
  <1>2. \A k \in Kinds : disk'[k]["new"] = disk[k]["new"] /\ disk'[k]["staging"] = disk[k]["staging"]
    BY Sets DEF OnlyAt
  <1>3. ASSUME NEW k \in Kinds PROVE NewAsFound(k)'
    <2>1. NewAsFound(k)
      BY <1>1 DEF MoveInv, Untouched
    <2>2. QED
      BY <1>2, <2>1 DEF NewAsFound
  <1>4. Cause'
    <2>1. /\ disk["encoded"]["staging"] = before["encoded"]["staging"]
          /\ disk["project"]["staging"] = before["project"]["staging"]
      BY <1>1 DEF MoveInv, Cause, Rewriting
    <2>2. QED
      BY <1>1, <1>2, <2>1, Sets DEF Cause, Rewriting
  <1>5. ~Exists("encoded", "new")'
    BY <1>2, Sets DEF MoveInv, Progress, Exists
  <1>6. QED
    BY <1>3, <1>4, <1>5

LEMMA AppendUndo ==
  ASSUME Typed, NEW u \in Undo, undo' = Append(undo, u)
  PROVE  /\ undo' \in Seq(Undo) /\ Len(undo) \in Nat /\ Len(undo') = Len(undo) + 1
         /\ \A i \in 1 .. Len(undo) : undo'[i] = undo[i]
         /\ undo'[Len(undo) + 1] = u
  BY DEF Typed

\* The next file is registered, and its text perhaps replaced.
LEMMA RegisterStep ==
  ASSUME MoveInv, pc \in {"replace", "snapshot"}, at <= Len(Rewrites),
         NEW f, f = Rewrites[at], Text(f) = "old", undo' = Append(undo, File(f)),
         OnlyAt(f), UNCHANGED <<kind, promoted, fault>>, UNCHANGED kept,
         f \in Large => Sibling(f)' = "old",
         f \notin Large => Sibling(f)' = Sibling(f) /\ pc = "replace",
         \/ pc' = "replace" /\ at' = at + 1 /\ Text(f)' = "new"
         \/ pc' = "write" /\ at' = at /\ Text(f)' = "old" /\ f \in Large
  PROVE  MoveInv'
  <1> USE DEF kept
  <1>1. /\ Len(undo) \in Nat /\ Len(Rewrites) \in Nat /\ at \in 1 .. Len(Rewrites)
        /\ Len(undo) < at /\ f \in Rewritten
    BY RewritesTyped DEF MoveInv, Typed, Positions
  <1>2. File(f) \in Undo
    BY <1>1 DEF File, Undo, Rewritten
  <1>3. /\ undo' \in Seq(Undo) /\ Len(undo') = Len(undo) + 1
        /\ \A i \in 1 .. Len(undo) : undo'[i] = undo[i]
        /\ undo'[Len(undo) + 1] = File(f)
    BY <1>2, AppendUndo DEF MoveInv
  <1>4. /\ pc \in Rewriting /\ pc \in Active /\ pc \in Undoable
        /\ pc' \in {"replace", "write"} /\ pc' \in Active /\ pc' \in Undoable /\ pc' \in Rewriting
        /\ Live = Len(undo) /\ Live' = Len(undo) + 1
    BY <1>3 DEF Rewriting, Active, Undoable, Live
  <1>5. Typed'
    BY <1>1, <1>3, <1>4 DEF MoveInv, Typed, Control, OnlyAt
  <1>6. Positions'
    BY <1>1, <1>3, <1>4 DEF Positions, Copying
  <1>7. Safe' /\ Sources' /\ Destinations'
    BY <1>1, <1>4, OnlyAtSafe
  <1>8. \A k : Started(k)' <=> Started(k)
    BY <1>1, <1>3, <1>4 DEF Started, Promotion, File
  <1>9. \A g : Registered(g)' <=> Registered(g) \/ g = f
    <2>1. \A g : File(g) = File(f) <=> g = f
      BY DEF File
    <2>2. \A g : File(g)' = File(g)
      BY DEF File
    <2>3. QED
      BY <1>1, <1>3, <1>4, <2>1, <2>2 DEF Registered
  <1>10. ~Registered(f)
    BY <1>1, <1>4 DEF MoveInv, Journal
  <1>11. (\A k \in Kinds : NewAsFound(k)') /\ Cause' /\ ~Exists("encoded", "new")'
    BY <1>1, <1>4, <1>8, OnlyAtFrame
  <1>12. Exists(KindOf(f), "old") /\ KindOf(f) \in Kinds /\ f \in Files
    BY <1>1, <1>4, TextThere, KindOfTyped, Sets DEF MoveInv
  <1>13. Busy'
    <2>1. pc' = "write" => Rewrites[at'] = f
      OBVIOUS
    <2>2. Registered(f)'
      BY <1>9
    <2>3. QED
      BY <1>4, <2>1, <2>2 DEF MoveInv, Busy, Text
  <1>14. Journal'
    <2>1. Journal
      BY DEF MoveInv
    <2>2. ASSUME NEW i \in 1 .. Len(undo'), NEW j \in 1 .. Len(undo'),
                 undo'[i] = undo'[j], undo'[i].what = "file"
          PROVE  i = j
      <3>1. \A n \in 1 .. Len(undo) : undo[n] # File(f)
        BY <1>4, <1>10 DEF Registered
      <3>2. CASE i <= Len(undo) /\ j <= Len(undo)
        BY <1>1, <1>3, <1>4, <2>1, <2>2, <3>2 DEF Journal
      <3>3. CASE i > Len(undo) \/ j > Len(undo)
        BY <1>1, <1>3, <2>2, <3>1, <3>3
      <3>4. QED
        BY <1>1, <1>3, <3>2, <3>3
    <2>3. before[KindOf(f)]["old"].file[f] = "old"
      <3>1. OldAsFound(KindOf(f))
        BY <1>4, <1>12 DEF MoveInv, Untouched
      <3>2. QED
        BY <1>10, <1>12, <3>1 DEF OldAsFound, Changed, Text
    <2>4. ASSUME NEW g \in Rewritten, Registered(g)'
          PROVE  /\ before'[KindOf(g)]["old"].file[g] = "old"
                 /\ g \in Large => Sibling(g)' = "old"
                 /\ Text(g)' = "new" \/ (pc' = "write" /\ g = Rewrites[at'])
      <3>1. CASE g = f
        BY <2>3, <3>1
      <3>2. CASE g # f
        <4>1. Registered(g)
          BY <1>9, <2>4, <3>2
        <4>2. Text(g)' = Text(g) /\ Sibling(g)' = Sibling(g)
          BY <1>1, <3>2, OthersStay
        <4>3. Text(g) = "new" /\ (g \in Large => Sibling(g) = "old")
              /\ before[KindOf(g)]["old"].file[g] = "old"
          BY <1>4, <2>1, <4>1 DEF Journal
        <4>4. QED
          BY <4>2, <4>3
      <3>3. QED
        BY <3>1, <3>2
    <2>5. QED
      BY <2>2, <2>4 DEF Journal
  <1>15. Untouched'
    <2> SUFFICES ASSUME NEW k \in Kinds PROVE OldAsFound(k)'
      BY <1>11 DEF Untouched
    <2>1. OldAsFound(k)
      BY <1>4 DEF MoveInv, Untouched
    <2>2. CASE k # KindOf(f)
      <3>1. disk'[k]["old"] = disk[k]["old"]
        BY <2>2, Sets DEF OnlyAt
      <3>2. pc' # "snapshot"
        BY <1>4
      <3>3. \A g \in Files : Changed(k, g)' <=> Changed(k, g)
        BY <1>9, <2>2 DEF Changed
      <3>4. QED
        BY <2>1, <2>2, <3>1, <3>2, <3>3 DEF OldAsFound, Exists
    <2>3. CASE k = KindOf(f)
      <3>1. Exists(k, "old")' /\ Exists(k, "old") /\ (before[k]["old"] # NoDir)
        BY <1>12, <2>1, <2>3 DEF OnlyAt, Exists, OldAsFound
      <3>2. ASSUME NEW g \in Files
            PROVE  /\ disk'[k]["old"].file[g] = before[k]["old"].file[g] \/ Changed(k, g)'
                   /\ \/ disk'[k]["old"].sibling[g] \in {"none", before[k]["old"].sibling[g]}
                      \/ Changed(k, g)' /\ g \in Large
        <4>1. CASE g # f
          <5>1. /\ disk'[k]["old"].file[g] = disk[k]["old"].file[g]
                /\ disk'[k]["old"].sibling[g] = disk[k]["old"].sibling[g]
            BY <2>3, <4>1 DEF OnlyAt
          <5>2. Changed(k, g) => Changed(k, g)'
            BY <1>9 DEF Changed
          <5>3. QED
            BY <2>1, <3>1, <4>1, <5>1, <5>2 DEF OldAsFound
        <4>2. CASE g = f
          <5>1. Changed(k, f)'
            BY <1>1, <1>9, <2>3 DEF Changed
          <5>2. CASE f \in Large
            BY <4>2, <5>1, <5>2
          <5>3. CASE f \notin Large
            <6>1. Sibling(f)' = Sibling(f) /\ pc = "replace"
              BY <5>3
            <6>2. disk[k]["old"].sibling[f] \in {"none", before[k]["old"].sibling[f]}
              BY <1>12, <2>1, <3>1, <5>3, <6>1 DEF OldAsFound
            <6>3. QED
              BY <2>3, <4>2, <5>1, <6>1, <6>2 DEF Sibling
          <5>4. QED
            BY <5>2, <5>3
        <4>3. QED
          BY <4>1, <4>2
      <3>3. before' = before /\ disk'[k]["old"] # NoDir
        BY <3>1 DEF Exists
      <3>4. QED
        BY <3>1, <3>2, <3>3 DEF OldAsFound
    <2>4. QED
      BY <2>2, <2>3
  <1>16. Progress'
    <2>1. Progress
      BY DEF MoveInv
    <2>2. ASSUME NEW i \in 1 .. Len(Rewrites), i < at' PROVE Text(Rewrites[i])' = "new"
      <3>1. Rewrites[i] \in Rewritten
        BY RewritesTyped
      <3>2. CASE Rewrites[i] = f
        <4>1. pc' = "replace"
          <5>1. CASE i < at
            BY <1>1, <1>4, <2>1, <3>2, <5>1 DEF Progress
          <5>2. CASE i >= at
            BY <1>1, <2>2, <5>2
          <5>3. QED
            BY <1>1, <5>1, <5>2
        <4>2. QED
          BY <3>2, <4>1
      <3>3. CASE Rewrites[i] # f
        <4>1. i < at
          BY <1>1, <2>2, <3>3
        <4>2. Text(Rewrites[i]) = "new"
          BY <1>4, <2>1, <4>1 DEF Progress
        <4>3. QED
          BY <1>1, <3>1, <3>3, <4>2, OthersStay
      <3>4. QED
        BY <3>2, <3>3
    <2>3. QED
      BY <1>4, <1>11, <2>2 DEF Progress, Copying, Finishing
  <1>17. QED
    BY <1>4, <1>5, <1>6, <1>7, <1>11, <1>13, <1>14, <1>15, <1>16, Running DEF MoveInv

\* The sibling of the next file is opened, or dropped again, or the file written.
LEMMA FileStep ==
  ASSUME MoveInv, pc \in Rewriting, at <= Len(Rewrites), NEW f, f = Rewrites[at],
         OnlyAt(f), UNCHANGED <<undo, kind, promoted>>, UNCHANGED kept, fault' \in BOOLEAN,
         f \in Large, Text(f) = "old",
         \/ /\ pc = "replace" /\ pc' = "snapshot" /\ at' = at /\ Text(f)' = "old"
         \/ /\ pc = "snapshot" /\ pc' = "restore" /\ at' = Len(undo) /\ fault'
            /\ Text(f)' = "old" /\ Sibling(f)' = "none"
         \/ /\ pc = "write" /\ pc' = "replace" /\ at' = at + 1
            /\ Text(f)' = "new" /\ Sibling(f)' = Sibling(f)
  PROVE  MoveInv'
  <1> USE DEF kept
  <1>1. /\ Len(undo) \in Nat /\ Len(Rewrites) \in Nat /\ at \in 1 .. Len(Rewrites)
        /\ Len(undo) <= Len(Rewrites) /\ f \in Rewritten
        /\ pc # "write" => Len(undo) < at
        /\ Len(undo) <= at
    BY RewritesTyped DEF MoveInv, Typed, Positions, Rewriting
  <1>2. /\ pc \in Active /\ pc \in Undoable
        /\ pc' \in {"snapshot", "restore", "replace"} /\ pc' \in Undoable
        /\ pc' \in Rewriting \cup {"restore"}
        /\ pc' # "restore" => pc' \in Rewriting
        /\ pc' \in Active => pc' # "restore"
        /\ Live = Len(undo) /\ Live' = Len(undo)
    BY DEF Rewriting, Copying, Active, Undoable, Live
  <1>3. Typed'
    BY <1>1, <1>2 DEF MoveInv, Typed, Control, OnlyAt
  <1>4. Positions'
    BY <1>1, <1>2 DEF Positions, Copying
  <1>5. Safe' /\ Sources' /\ Destinations'
    BY <1>1, <1>2, OnlyAtSafe
  <1>6. \A k : Started(k)' <=> Started(k)
    BY <1>2 DEF Started, Promotion
  <1>7. \A g : Registered(g)' <=> Registered(g)
    BY <1>2 DEF Registered, File
  <1>8. (\A k \in Kinds : NewAsFound(k)') /\ Cause' /\ ~Exists("encoded", "new")'
    BY <1>1, <1>2, <1>6, OnlyAtFrame
  <1>9. Exists(KindOf(f), "old") /\ KindOf(f) \in Kinds /\ f \in Files
    BY <1>1, <1>2, TextThere, KindOfTyped, Sets DEF MoveInv
  <1>10. Registered(f) <=> pc = "write"
    BY <1>1, <1>2 DEF MoveInv, Journal, Busy
  <1>11. Busy'
    <2>1. pc' = "snapshot" => Text(Rewrites[at])' = "old" /\ Rewrites[at'] \in Large
      BY <1>2
    <2>2. QED
      BY <1>2, <2>1 DEF MoveInv, Busy
  <1>12. Journal'
    <2>1. Journal
      BY DEF MoveInv
    <2>2. ASSUME NEW g \in Rewritten, Registered(g)'
          PROVE  /\ before'[KindOf(g)]["old"].file[g] = "old"
                 /\ g \in Large => Sibling(g)' = "old"
                 /\ pc' \in Active => Text(g)' = "new" \/ (pc' = "write" /\ g = Rewrites[at'])
      <3>1. /\ before[KindOf(g)]["old"].file[g] = "old"
            /\ g \in Large => Sibling(g) = "old"
            /\ Text(g) = "new" \/ (pc = "write" /\ g = Rewrites[at])
        BY <1>2, <1>7, <2>1, <2>2 DEF Journal
      <3>2. CASE g = f
        <4>1. pc = "write"
          BY <1>7, <1>10, <2>2, <3>2
        <4>2. QED
          BY <3>1, <3>2, <4>1
      <3>3. CASE g # f
        <4>1. Text(g)' = Text(g) /\ Sibling(g)' = Sibling(g)
          BY <1>1, <3>3, OthersStay
        <4>2. QED
          BY <3>1, <3>3, <4>1
      <3>4. QED
        BY <3>2, <3>3
    <2>3. QED
      BY <1>2, <2>1, <2>2 DEF Journal
  <1>13. Untouched'
    <2> SUFFICES ASSUME NEW k \in Kinds PROVE OldAsFound(k)'
      BY <1>8 DEF Untouched
    <2>1. OldAsFound(k)
      BY <1>2 DEF MoveInv, Untouched
    <2>2. \A g \in Files : Changed(k, g)' <=> Changed(k, g)
      BY <1>7 DEF Changed
    <2>3. CASE k # KindOf(f)
      <3>1. disk'[k]["old"] = disk[k]["old"]
        BY <2>3, Sets DEF OnlyAt
      <3>2. QED
        BY <2>1, <2>2, <2>3, <3>1 DEF OldAsFound, Exists
    <2>4. CASE k = KindOf(f)
      <3>1. disk'[k]["old"] # NoDir /\ Exists(k, "old") /\ before[k]["old"] # NoDir /\ before' = before
        BY <1>9, <2>1, <2>4 DEF OnlyAt, Exists, OldAsFound
      <3>2. ASSUME NEW g \in Files
            PROVE  /\ disk'[k]["old"].file[g] = before[k]["old"].file[g] \/ Changed(k, g)'
                   /\ \/ disk'[k]["old"].sibling[g] \in {"none", before[k]["old"].sibling[g]}
                      \/ Changed(k, g)' /\ g \in Large
                      \/ pc' = "snapshot" /\ g = Rewrites[at'] /\ KindOf(g) = k
        <4>1. CASE g # f
          <5>1. /\ disk'[k]["old"].file[g] = disk[k]["old"].file[g]
                /\ disk'[k]["old"].sibling[g] = disk[k]["old"].sibling[g]
            BY <2>4, <4>1 DEF OnlyAt
          <5>2. QED
            BY <2>1, <2>2, <3>1, <4>1, <5>1 DEF OldAsFound
        <4>2. CASE g = f /\ pc = "write"
          <5>1. Changed(k, f)'
            BY <1>1, <1>7, <1>10, <2>4, <4>2 DEF Changed
          <5>2. QED
            BY <4>2, <5>1
        <4>3. CASE g = f /\ pc # "write"
          <5>1. ~Changed(k, f)
            BY <1>10, <4>3 DEF Changed
          <5>2. disk[k]["old"].file[f] = before[k]["old"].file[f]
            BY <1>9, <2>1, <3>1, <5>1 DEF OldAsFound
          <5>3. disk'[k]["old"].file[f] = disk[k]["old"].file[f]
            BY <2>4, <4>3 DEF Text
          <5>4. pc' = "snapshot" \/ disk'[k]["old"].sibling[f] = "none"
            BY <2>4, <4>3 DEF Sibling
          <5>5. pc' = "snapshot" => at' = at
            BY <4>3
          <5>6. QED
            BY <2>4, <4>3, <5>2, <5>3, <5>4, <5>5
        <4>4. QED
          BY <4>1, <4>2, <4>3
      <3>3. QED
        BY <3>1, <3>2 DEF OldAsFound
    <2>5. QED
      BY <2>3, <2>4
  <1>14. Progress'
    <2>1. Progress
      BY DEF MoveInv
    <2>2. ASSUME pc' \in Active, NEW i \in 1 .. Len(Rewrites), i < at'
          PROVE  Text(Rewrites[i])' = "new"
      <3>1. Rewrites[i] \in Rewritten /\ pc' # "restore"
        BY <1>2, <2>2, RewritesTyped
      <3>2. CASE Rewrites[i] = f
        <4>1. i < at => Text(f) = "new"
          BY <1>2, <2>1, <3>2 DEF Progress
        <4>2. pc = "write"
          BY <1>1, <2>2, <3>1, <4>1
        <4>3. QED
          BY <3>2, <4>2
      <3>3. CASE Rewrites[i] # f
        <4>1. i < at
          BY <1>1, <2>2, <3>1, <3>3
        <4>2. Text(Rewrites[i]) = "new"
          BY <1>2, <2>1, <4>1 DEF Progress
        <4>3. QED
          BY <1>1, <3>1, <3>3, <4>2, OthersStay
      <3>4. QED
        BY <3>2, <3>3
    <2>3. QED
      BY <1>2, <1>8, <2>2 DEF Progress, Copying, Finishing
  <1>15. QED
    BY <1>2, <1>3, <1>4, <1>5, <1>8, <1>11, <1>12, <1>13, <1>14, Running DEF MoveInv

\* The disk after a text or a sibling is set.
LEMMA SetTextOnly ==
  ASSUME Typed, NEW f \in Rewritten, NEW b \in Bodies, Exists(KindOf(f), "old"),
         disk' = SetText(disk, f, b)
  PROVE  OnlyAt(f) /\ Text(f)' = b /\ Sibling(f)' = Sibling(f)
  <1>1. disk \in DiskType /\ disk[KindOf(f)]["old"] # NoDir /\ f \in Files
    BY Sets DEF Typed, Exists
  <1>2. QED
    BY <1>1, TextIsSet DEF OnlyAt, Text, Sibling

LEMMA SetSiblingOnly ==
  ASSUME Typed, NEW f \in Rewritten, NEW b \in Bodies, Exists(KindOf(f), "old"),
         disk' = SetSibling(disk, f, b)
  PROVE  OnlyAt(f) /\ Text(f)' = Text(f) /\ Sibling(f)' = b
  <1>1. disk \in DiskType /\ disk[KindOf(f)]["old"] # NoDir /\ f \in Files
    BY Sets DEF Typed, Exists
  <1>2. QED
    BY <1>1, SiblingIsSet DEF OnlyAt, Text, Sibling

LEMMA ReplaceStep == MoveInv /\ Replace => MoveInv'
  <1> SUFFICES ASSUME MoveInv, Replace PROVE MoveInv'
    OBVIOUS
  <1>1. /\ pc = "replace" /\ UNCHANGED <<kind, promoted>> /\ UNCHANGED kept
        /\ Typed /\ Len(Rewrites) \in Nat /\ at \in 1 .. Len(Rewrites) + 1 /\ fault \in BOOLEAN
    BY RewritesTyped DEF Replace, MoveInv, Positions, Typed
  <1>0. PICK f : f = Rewrites[at]
    OBVIOUS
  <1>2. CASE /\ at <= Len(Rewrites) /\ Text(f) = "new"
             /\ pc' = "replace" /\ at' = at + 1 /\ UNCHANGED <<disk, undo, fault>>
    BY <1>0, <1>1, <1>2, PassStep
  <1>3. CASE at > Len(Rewrites) /\ pc' = "staging" /\ UNCHANGED <<disk, at, undo, fault>>
    BY <1>0, <1>1, <1>3, PassStep
  <1>4. CASE at <= Len(Rewrites) /\ UNCHANGED <<disk, undo>> /\ Fail
    <2>1. Abort /\ fault' = TRUE /\ pc \in Active /\ pc # "snapshot"
      BY <1>0, <1>1, <1>4 DEF Fail, Active, Rewriting
    <2>2. QED
      BY <1>0, <1>1, <1>4, <2>1, AbortStep
  <1>5. ASSUME at <= Len(Rewrites)
        PROVE  f \in Rewritten /\ Exists(KindOf(f), "old") /\ pc \in Rewriting
    <2>1. f \in Rewritten
      BY <1>0, <1>1, <1>5, RewritesTyped
    <2>2. pc \in Undoable /\ pc \in Rewriting
      BY <1>0, <1>1 DEF Undoable, Active, Rewriting
    <2>3. QED
      BY <1>0, <2>1, <2>2, TextThere DEF MoveInv
  <1>6. CASE at <= Len(Rewrites) /\ ReplaceSmall(f)
    <2>1. /\ Text(f) = "old" /\ f \notin Large /\ undo' = Append(undo, File(f))
          /\ disk' = SetText(disk, f, "new") /\ pc' = "replace" /\ at' = at + 1 /\ UNCHANGED fault
      BY <1>0, <1>6 DEF ReplaceSmall
    <2>2. OnlyAt(f) /\ Text(f)' = "new" /\ Sibling(f)' = Sibling(f)
      BY <1>0, <1>1, <1>5, <1>6, <2>1, SetTextOnly DEF Bodies
    <2>3. QED
      BY <1>0, <1>1, <1>6, <2>1, <2>2, RegisterStep
  <1>7. CASE at <= Len(Rewrites) /\ OpenSibling(f)
    <2>1. /\ Text(f) = "old" /\ f \in Large
          /\ disk' = SetSibling(disk, f, "torn") /\ pc' = "snapshot" /\ UNCHANGED <<at, undo, fault>>
      BY <1>0, <1>7 DEF OpenSibling
    <2>2. OnlyAt(f) /\ Text(f)' = Text(f)
      BY <1>0, <1>1, <1>5, <1>7, <2>1, SetSiblingOnly DEF Bodies
    <2>3. QED
      BY <1>0, <1>1, <1>5, <1>7, <2>1, <2>2, FileStep
  <1>8. QED
    BY <1>0, <1>2, <1>3, <1>4, <1>6, <1>7 DEF Replace

LEMMA SnapshotStep == MoveInv /\ Snapshot => MoveInv'
  <1> SUFFICES ASSUME MoveInv, Snapshot PROVE MoveInv'
    OBVIOUS
  <1>0. PICK f : f = Rewrites[at]
    OBVIOUS
  <1>1. /\ pc = "snapshot" /\ UNCHANGED <<kind, promoted>> /\ UNCHANGED kept
        /\ Typed /\ at <= Len(Rewrites) /\ fault \in BOOLEAN
        /\ f \in Large /\ Text(f) = "old" /\ f \in Rewritten
    BY <1>0, RewritesTyped DEF Snapshot, MoveInv, Positions, Typed, Busy
  <1>2. pc \in Rewriting /\ Exists(KindOf(f), "old")
    <2>1. pc \in Undoable /\ pc \in Rewriting
      BY <1>0, <1>1 DEF Undoable, Active, Rewriting
    <2>2. QED
      BY <1>0, <1>1, <2>1, TextThere DEF MoveInv
  <1>3. CASE /\ disk' = SetSibling(disk, f, Text(f)) /\ undo' = Append(undo, File(f))
             /\ pc' = "write" /\ UNCHANGED <<at, fault>>
    <2>1. OnlyAt(f) /\ Text(f)' = Text(f) /\ Sibling(f)' = "old"
      BY <1>0, <1>1, <1>2, <1>3, SetSiblingOnly DEF Bodies
    <2>2. QED
      BY <1>0, <1>1, <1>3, <2>1, RegisterStep
  <1>4. CASE disk' = SetSibling(disk, f, "none") /\ UNCHANGED undo /\ Fail
    <2>1. OnlyAt(f) /\ Text(f)' = Text(f) /\ Sibling(f)' = "none"
      BY <1>0, <1>1, <1>2, <1>4, SetSiblingOnly DEF Bodies
    <2>2. pc' = "restore" /\ at' = Len(undo) /\ fault' = TRUE
      BY <1>0, <1>4 DEF Fail, Abort
    <2>3. QED
      BY <1>0, <1>1, <1>2, <1>4, <2>1, <2>2, FileStep
  <1>5. QED
    BY <1>0, <1>3, <1>4 DEF Snapshot

LEMMA WriteStep == MoveInv /\ Write => MoveInv'
  <1> SUFFICES ASSUME MoveInv, Write PROVE MoveInv'
    OBVIOUS
  <1>0. PICK f : f = Rewrites[at]
    OBVIOUS
  <1>1. /\ pc = "write" /\ UNCHANGED <<kind, promoted>> /\ UNCHANGED kept
        /\ Typed /\ at <= Len(Rewrites) /\ fault \in BOOLEAN
        /\ f \in Large /\ Text(f) = "old" /\ f \in Rewritten
    BY <1>0, RewritesTyped DEF Write, MoveInv, Positions, Typed, Busy
  <1>2. pc \in Rewriting /\ pc \in Active /\ Exists(KindOf(f), "old")
    <2>1. pc \in Undoable /\ pc \in Active /\ pc \in Rewriting
      BY <1>0, <1>1 DEF Undoable, Active, Rewriting
    <2>2. QED
      BY <1>0, <1>1, <2>1, TextThere DEF MoveInv
  <1>3. CASE disk' = Written(f) /\ pc' = "replace" /\ at' = at + 1 /\ UNCHANGED <<undo, fault>>
    <2>1. OnlyAt(f) /\ Text(f)' = "new" /\ Sibling(f)' = Sibling(f)
      BY <1>0, <1>1, <1>2, <1>3, SetTextOnly DEF Bodies, Written
    <2>2. QED
      BY <1>0, <1>1, <1>2, <1>3, <2>1, FileStep
  <1>4. CASE UNCHANGED <<disk, undo>> /\ Fail
    <2>1. Abort /\ fault' = TRUE
      BY <1>0, <1>4 DEF Fail
    <2>2. QED
      BY <1>0, <1>1, <1>2, <1>4, <2>1, AbortStep
  <1>5. QED
    BY <1>0, <1>3, <1>4 DEF Write

-----------------------------------------------------------------------------
(* Steps of the project-directory surface *)

\* While directories are copied the old ones stay as they are.
LEMMA CopyingFrame ==
  ASSUME MoveInv, pc \in Copying, disk' \in DiskType,
         \A k \in Kinds : disk'[k]["old"] = disk[k]["old"],
         UNCHANGED kept,
         promoted' = promoted
           \/ (promoted' = promoted \cup {kind} /\ InScope(kind) /\ Exists(kind, "old")),
         undo' = undo \/ undo' = Append(undo, Promotion(kind)),
         pc' \in Copying \cup {"restore", "remove"},
         pc' = "restore" => at' = Len(undo'), pc' # "restore" => at' = at,
         kind' \in Moved, fault' \in BOOLEAN
  PROVE  /\ Typed' /\ Sources' /\ Journal'
         /\ \A k \in Kinds : Complete(k, "old")' <=> Complete(k, "old")
         /\ \A k \in Kinds : OldAsFound(k)'
         /\ \A i \in 1 .. Len(Rewrites) : Text(Rewrites[i])' = "new"
         /\ Live' = Len(undo') /\ Live = Len(undo)
         /\ undo' = undo => \A k : Started(k)' <=> Started(k)
         /\ undo' # undo => \A k : Started(k)' <=> Started(k) \/ k = kind
  <1> USE DEF kept
  <1>1. /\ Len(undo) \in Nat /\ Len(Rewrites) \in Nat /\ at = Len(Rewrites) + 1
        /\ kind \in Moved /\ undo \in Seq(Undo)
        /\ promoted \subseteq Moved
    BY RewritesTyped DEF MoveInv, Typed, Positions
  <1>2. /\ pc \in Active /\ pc \in Undoable /\ pc # "snapshot" /\ pc # "write" /\ pc # "restore"
        /\ pc' # "snapshot" /\ pc' # "write"
    BY DEF Active, Undoable, Copying
  <1>3. Promotion(kind) \in Undo /\ \A f : File(f) # Promotion(kind)
    BY <1>1 DEF Promotion, Undo, File
  <1>4. /\ undo' \in Seq(Undo) /\ Len(undo') \in Nat
        /\ \A i \in 1 .. Len(undo) : undo'[i] = undo[i]
        /\ Len(undo') = Len(undo) \/ (Len(undo') = Len(undo) + 1 /\ undo'[Len(undo) + 1] = Promotion(kind))
        /\ undo' # undo => Len(undo') = Len(undo) + 1
        /\ undo' = undo => Len(undo') = Len(undo)
    <2>1. CASE undo' = undo
      BY <1>1, <2>1
    <2>2. CASE undo' = Append(undo, Promotion(kind))
      <3>1. /\ undo' \in Seq(Undo) /\ Len(undo') = Len(undo) + 1
            /\ \A i \in 1 .. Len(undo) : undo'[i] = undo[i]
            /\ undo'[Len(undo) + 1] = Promotion(kind)
        BY <1>3, <2>2, AppendUndo DEF MoveInv
      <3>2. QED
        BY <1>1, <3>1
    <2>3. QED
      BY <2>1, <2>2
  <1>5. Live' = Len(undo') /\ Live = Len(undo)
    BY <1>2 DEF Live
  <1>6. \A g : Registered(g)' <=> Registered(g)
    <2>1. \A g : File(g)' = File(g)
      BY DEF File
    <2>2. QED
      BY <1>1, <1>3, <1>4, <1>5, <2>1 DEF Registered
  <1>7. undo' = undo => \A k : Started(k)' <=> Started(k)
    BY <1>4, <1>5 DEF Started, Promotion
  <1>8. undo' # undo => \A k : Started(k)' <=> Started(k) \/ k = kind
    <2>1. \A k : (Promotion(k) = Promotion(kind)) <=> k = kind
      BY DEF Promotion
    <2>2. \A k : Promotion(k)' = Promotion(k)
      BY DEF Promotion
    <2>3. QED
      BY <1>1, <1>4, <1>5, <2>1, <2>2 DEF Started
  <1>9. Typed'
    <2>1. Len(undo') <= Len(Rewrites) + 3
      BY <1>1, <1>4 DEF MoveInv, Positions
    <2>2. at' \in 0 .. Len(Rewrites) + 3
      BY <1>1, <1>4, <2>1
    <2>3. pc' \in Control
      BY DEF Control, Copying
    <2>4. promoted' \subseteq Moved
      BY <1>1
    <2>5. QED
      BY <1>4, <2>2, <2>3, <2>4 DEF MoveInv, Typed
  <1>10. \A k \in Kinds : /\ Complete(k, "old")' <=> Complete(k, "old")
                          /\ Exists(k, "old")' <=> Exists(k, "old")
    BY DEF Complete, Exists
  <1>11. Sources'
    <2>1. \A k : InScope(k)' <=> InScope(k)
      BY DEF InScope
    <2>2. Exists("encoded", "old")'
      BY <1>2, <1>10, Sets DEF MoveInv, Sources
    <2>3. ASSUME NEW k \in Moved, InScope(k), Exists(k, "old")' PROVE Complete(k, "old")'
      BY <1>2, <1>10, <2>3, Sets DEF MoveInv, Sources
    <2>4. ASSUME NEW k \in promoted' PROVE InScope(k) /\ Exists(k, "old")'
      <3>1. CASE k \in promoted
        BY <1>1, <1>2, <1>10, <3>1, Sets DEF MoveInv, Sources
      <3>2. CASE k \notin promoted
        BY <1>1, <1>10, <2>4, <3>2, Sets
      <3>3. QED
        BY <3>1, <3>2
    <2>5. QED
      BY <2>1, <2>2, <2>3, <2>4 DEF Sources
  <1>12. \A f : Text(f)' = Text(f) /\ Sibling(f)' = Sibling(f)
    <2>1. \A f : KindOf(f) \in Kinds
      BY KindOfTyped DEF Kinds, Moved
    <2>2. QED
      BY <2>1 DEF Text, Sibling
  <1>13. Journal'
    <2>1. Journal
      BY DEF MoveInv
    <2>2. ASSUME NEW i \in 1 .. Len(undo'), NEW j \in 1 .. Len(undo'),
                 undo'[i] = undo'[j], undo'[i].what = "file"
          PROVE  i = j
      <3>1. Promotion(kind).what # "file"
        BY DEF Promotion
      <3>2. i <= Len(undo) /\ j <= Len(undo)
        BY <1>1, <1>4, <2>2, <3>1
      <3>3. QED
        BY <1>1, <1>2, <1>4, <2>1, <2>2, <3>2 DEF Journal
    <2>3. ASSUME NEW g \in Rewritten, Registered(g)'
          PROVE  /\ before'[KindOf(g)]["old"].file[g] = "old"
                 /\ g \in Large => Sibling(g)' = "old"
                 /\ Text(g)' = "new"
      BY <1>2, <1>6, <1>12, <2>1, <2>3 DEF Journal
    <2>4. QED
      BY <2>2, <2>3 DEF Journal
  <1>14. ASSUME NEW k \in Kinds PROVE OldAsFound(k)'
    <2>1. OldAsFound(k)
      BY <1>2 DEF MoveInv, Untouched
    <2>2. \A g : Changed(k, g)' <=> Changed(k, g)
      BY <1>6 DEF Changed
    <2>3. disk'[k]["old"] = disk[k]["old"]
      OBVIOUS
    <2>4. QED
      BY <1>2, <2>1, <2>2, <2>3 DEF OldAsFound, Exists
  <1>15. ASSUME NEW i \in 1 .. Len(Rewrites) PROVE Text(Rewrites[i])' = "new"
    <2>1. Text(Rewrites[i]) = "new"
      BY <1>1, <1>2 DEF MoveInv, Progress
    <2>2. QED
      BY <1>12, <2>1
  <1>16. QED
    BY <1>5, <1>7, <1>8, <1>9, <1>10, <1>11, <1>13, <1>14, <1>15

\* Nor do the destinations change before a copy is complete.
LEMMA SameDestinations ==
  ASSUME MoveInv, pc \in Copying, \A k \in Kinds : disk'[k]["new"] = disk[k]["new"],
         \A k \in Kinds : Complete(k, "old")' <=> Complete(k, "old"),
         \A i \in 1 .. Len(Rewrites) : Text(Rewrites[i])' = "new",
         promoted' = promoted, UNCHANGED kept, pc' \in Copying \cup {"restore"}
  PROVE  Safe' /\ Destinations' /\ Progress'
  <1> USE DEF kept
  <1>1. pc \in Active /\ pc' \notin Rewriting /\ pc' \notin Finishing
    BY DEF Active, Rewriting, Copying, Finishing
  <1>2. \A k \in Kinds : /\ Complete(k, "new")' <=> Complete(k, "new")
                         /\ Exists(k, "new")' <=> Exists(k, "new")
    BY DEF Complete, Exists
  <1>3. Safe'
    BY <1>2, Sets DEF MoveInv, Safe
  <1>4. Destinations'
    <2>1. \A k : InScope(k)' <=> InScope(k)
      BY DEF InScope
    <2>2. promoted \subseteq Moved
      BY DEF MoveInv, Typed
    <2>3. ASSUME NEW k \in Moved, InScope(k), Exists(k, "new")' PROVE Complete(k, "new")'
      BY <1>1, <1>2, <2>3, Sets DEF MoveInv, Destinations
    <2>4. ASSUME NEW k \in promoted PROVE Exists(k, "new")'
      BY <1>1, <1>2, <2>2, Sets DEF MoveInv, Destinations
    <2>5. QED
      BY <1>1, <2>1, <2>3, <2>4 DEF Destinations
  <1>5. Progress'
    <2>1. Exists("encoded", "new")' => Landed'
      BY <1>2, Sets DEF MoveInv, Progress, Landed
    <2>2. pc' # "remove" /\ pc' # "cleanup"
      BY DEF Copying
    <2>3. QED
      BY <1>1, <2>1, <2>2 DEF Progress
  <1>6. QED
    BY <1>3, <1>4, <1>5

\* A directory other than the old ones is made, removed or filled.
DirAt(k, p, x) ==
  /\ disk' \in DiskType
  /\ disk'[k][p] = x
  /\ \A j \in Kinds, q \in Places : j # k \/ q # p => disk'[j][q] = disk[j][q]

LEMMA DirIsSet ==
  ASSUME Typed, NEW k \in Kinds, NEW p \in Places, NEW x \in Dir \cup {NoDir},
         disk' = [disk EXCEPT ![k][p] = x]
  PROVE  DirAt(k, p, x)
  <1>1. disk \in DiskType
    BY DEF Typed
  <1>2. /\ [disk EXCEPT ![k][p] = x] \in DiskType
        /\ [disk EXCEPT ![k][p] = x][k][p] = x
        /\ \A j \in Kinds, q \in Places :
             j # k \/ q # p => [disk EXCEPT ![k][p] = x][j][q] = disk[j][q]
    BY <1>1 DEF DiskType
  <1>3. QED
    BY <1>2 DEF DirAt

LEMMA EmptyDir == Empty \in Dir /\ Empty # NoDir
  <1>1. Empty \in Dir
    BY DEF Empty, Dir, Bodies
  <1>2. QED
    BY <1>1, NoDirAssumption

\* A staging directory changes, or nothing does.
LEMMA StagingAt ==
  ASSUME MoveInv, pc \in Copying, NEW x \in Dir \cup {NoDir},
         DirAt(kind, "staging", x) \/ (x = disk[kind]["staging"] /\ disk' = disk),
         UNCHANGED kept, UNCHANGED promoted, fault' \in BOOLEAN,
         undo' = undo \/ undo' = Append(undo, Promotion(kind)),
         pc' \in Copying \cup {"restore"},
         pc' = "restore" => at' = Len(undo') /\ fault', pc' # "restore" => at' = at,
         kind' = kind \/ (kind = "encoded" /\ pc # "verify" /\ pc' = "staging" /\ kind' = "project" /\ disk' = disk),
         pc' = "staging" => kind' # kind, pc # "verify" \/ pc' = "restore",
         undo' = undo => \/ x \in {NoDir, disk[kind]["staging"]}
                         \/ Started(kind) /\ kind \notin promoted,
         undo' # undo => ~Exists(kind, "new")
  PROVE  /\ Typed' /\ Sources' /\ Journal' /\ Untouched' /\ Cause'
         /\ Safe' /\ Destinations' /\ Progress'
  <1>1. kind \in Moved /\ kind \in Kinds /\ kind' \in Moved
    BY Sets DEF MoveInv, Typed
  <1>2. pc \in Active /\ pc' # "remove"
    BY DEF Active, Copying
  <1>3. /\ disk' \in DiskType
        /\ disk'[kind]["staging"] = x
        /\ \A k \in Kinds : disk'[k]["old"] = disk[k]["old"] /\ disk'[k]["new"] = disk[k]["new"]
        /\ \A k \in Kinds : k # kind => disk'[k]["staging"] = disk[k]["staging"]
    BY <1>1, Sets DEF DirAt, MoveInv, Typed
  <1>4. /\ Typed' /\ Sources' /\ Journal'
        /\ \A k \in Kinds : Complete(k, "old")' <=> Complete(k, "old")
        /\ \A k \in Kinds : OldAsFound(k)'
        /\ \A i \in 1 .. Len(Rewrites) : Text(Rewrites[i])' = "new"
        /\ undo' = undo => \A k : Started(k)' <=> Started(k)
        /\ undo' # undo => \A k : Started(k)' <=> Started(k) \/ k = kind
    BY <1>1, <1>3, CopyingFrame
  <1>5. Safe' /\ Destinations' /\ Progress'
    BY <1>3, <1>4, SameDestinations
  <1>6. Untouched'
    <2> SUFFICES ASSUME NEW k \in Kinds PROVE NewAsFound(k)'
      BY <1>4 DEF Untouched
    <2>1. NewAsFound(k)
      BY <1>2 DEF MoveInv, Untouched
    <2>2. before' = before /\ promoted' = promoted
      BY DEF kept
    <2>3. CASE k # kind
      <3>1. Started(k)' <=> Started(k)
        BY <1>4, <2>3
      <3>2. QED
        BY <1>3, <2>1, <2>2, <2>3, <3>1 DEF NewAsFound
    <2>4. CASE k = kind /\ undo' = undo
      <3>1. Started(k)' <=> Started(k)
        BY <1>4, <2>4
      <3>2. QED
        BY <1>3, <2>1, <2>2, <2>4, <3>1 DEF NewAsFound
    <2>5. CASE k = kind /\ undo' # undo
      <3>1. Started(k)' /\ disk[k]["new"] = NoDir
        BY <1>4, <2>5 DEF Exists
      <3>2. kind \notin promoted
        BY <1>2, <2>5 DEF MoveInv, Destinations
      <3>3. before[k]["new"] = NoDir
        BY <2>1, <3>1 DEF NewAsFound
      <3>4. QED
        BY <1>3, <2>2, <2>5, <3>1, <3>2, <3>3 DEF NewAsFound
    <2>6. QED
      BY <2>3, <2>4, <2>5
  <1>7. Cause'
    <2>1. before' = before
      BY DEF kept
    <2>2. kind = "encoded" /\ pc # "verify" => disk["project"]["staging"] = before["project"]["staging"]
      BY <1>2 DEF MoveInv, Cause
    <2>3. kind' = "encoded" /\ pc' \in Active => kind = "encoded" /\ pc # "verify"
      BY <1>1, Sets DEF Active, Rewriting, Copying
    <2>4. kind = "encoded" => disk'["project"]["staging"] = disk["project"]["staging"]
      BY <1>3, Sets
    <2>5. pc' = "staging" => kind' = "project" /\ disk'["project"]["staging"] = before["project"]["staging"]
      BY <2>2, <2>4
    <2>6. pc' \notin Rewriting
      BY DEF Rewriting, Copying
    <2>7. QED
      BY <2>1, <2>2, <2>3, <2>4, <2>5, <2>6 DEF Cause
  <1>8. QED
    BY <1>4, <1>5, <1>6, <1>7

LEMMA StagingStep == MoveInv /\ Staging => MoveInv'
  <1> SUFFICES ASSUME MoveInv, Staging PROVE MoveInv'
    OBVIOUS
  <1>1. /\ pc = "staging" /\ UNCHANGED <<kind, promoted>> /\ UNCHANGED kept
        /\ Typed /\ kind \in Moved /\ kind \in Kinds /\ fault \in BOOLEAN
        /\ InScope(kind)
    BY Sets DEF Staging, MoveInv, Typed, Busy
  <1>2. pc \in Copying /\ pc \in Active
    BY <1>1 DEF Copying, Active
  <1>3. CASE RemoveDir(kind, "staging") /\ pc' = "promote" /\ UNCHANGED <<at, undo, fault>>
    <2>1. DirAt(kind, "staging", NoDir)
      BY <1>1, <1>3, DirIsSet, Sets DEF RemoveDir
    <2>2. pc' \in Copying /\ pc' # "restore" /\ pc' # "staging"
      BY <1>3 DEF Copying
    <2>3. /\ Typed' /\ Sources' /\ Journal' /\ Untouched' /\ Cause'
          /\ Safe' /\ Destinations' /\ Progress'
      BY <1>1, <1>2, <1>3, <2>1, <2>2, StagingAt
    <2>4. Positions'
      BY <1>1, <1>2, <1>3, <2>2 DEF MoveInv, Positions
    <2>5. Busy'
      BY <1>1, <1>3 DEF Busy, InScope, Rewriting, kept
    <2>6. QED
      BY <1>3, <2>3, <2>4, <2>5, Running DEF MoveInv
  <1>4. CASE disk[kind]["staging"] \notin {NoDir, Empty} /\ UNCHANGED <<disk, undo, fault>> /\ Abort
    <2>1. Obstacle
      BY <1>1, <1>4 DEF MoveInv, Cause, Obstacle
    <2>2. QED
      BY <1>1, <1>2, <1>4, <2>1, AbortStep
  <1>5. CASE UNCHANGED <<disk, undo>> /\ Fail
    <2>1. Abort /\ fault' = TRUE
      BY <1>5 DEF Fail
    <2>2. QED
      BY <1>1, <1>2, <1>5, <2>1, AbortStep
  <1>6. QED
    BY <1>3, <1>4, <1>5 DEF Staging

LEMMA NextKind ==
  ASSUME NextDirectory, Typed, pc \in {"promote", "copy"}
  PROVE  \/ kind' = "project" /\ pc' = "staging" /\ kind = "encoded" /\ ~refsOnly
         \/ kind' = kind /\ pc' = "verify"
  BY DEF NextDirectory

LEMMA PromoteStep == MoveInv /\ Promote => MoveInv'
  <1> SUFFICES ASSUME MoveInv, Promote PROVE MoveInv'
    OBVIOUS
  <1>1. /\ pc = "promote" /\ UNCHANGED kept
        /\ Typed /\ kind \in Moved /\ kind \in Kinds /\ fault \in BOOLEAN
        /\ InScope(kind)
        /\ Len(Rewrites) \in Nat /\ Len(undo) \in Nat /\ at = Len(Rewrites) + 1
        /\ Len(undo) <= Len(Rewrites) + 1
        /\ kind = "encoded" => Len(undo) <= Len(Rewrites)
    BY Sets, RewritesTyped DEF Promote, MoveInv, Typed, Busy, Positions, Copying
  <1>2. pc \in Copying /\ pc \in Active
    BY <1>1 DEF Copying, Active
  <1>3. CASE Converged
    <2>1. UNCHANGED <<disk, at, undo, promoted, fault>> /\ NextDirectory
      BY <1>3 DEF Converged
    <2>2. \/ kind' = "project" /\ pc' = "staging" /\ kind = "encoded" /\ ~refsOnly
          \/ kind' = kind /\ pc' = "verify"
      BY <1>1, <2>1, NextKind
    <2>3. pc' \in Copying /\ pc' # "restore" /\ pc # "verify" /\ (pc' = "staging" => kind' # kind)
      BY <1>1, <2>2 DEF Copying
    <2>4. disk[kind]["staging"] \in Dir \cup {NoDir}
      BY <1>1, Sets DEF Typed, DiskType
    <2>5. /\ Typed' /\ Sources' /\ Journal' /\ Untouched' /\ Cause'
          /\ Safe' /\ Destinations' /\ Progress'
      BY <1>1, <1>2, <2>1, <2>2, <2>3, <2>4, StagingAt
    <2>6. Positions'
      BY <1>1, <2>1, <2>2 DEF Positions, Copying
    <2>7. Busy'
      BY <1>1, <2>2 DEF Busy, InScope, Rewriting, kept
    <2>8. QED
      BY <2>3, <2>2, <2>5, <2>6, <2>7, Running DEF MoveInv
  <1>4. CASE StartCopy
    <2>1. /\ ~Exists(kind, "new") /\ undo' = Append(undo, Promotion(kind)) /\ UNCHANGED <<kind, promoted>>
      BY <1>4 DEF StartCopy, Promotion
    <2>2. Promotion(kind) \in Undo
      BY <1>1 DEF Promotion, Undo
    <2>3. Len(undo') = Len(undo) + 1 /\ undo' # undo
      BY <1>1, <2>1, <2>2, AppendUndo
    <2>4. CASE disk' = [disk EXCEPT ![kind]["staging"] = Empty] /\ pc' = "copy" /\ UNCHANGED <<at, fault>>
      <3>1. DirAt(kind, "staging", Empty) /\ Empty \in Dir \cup {NoDir}
        BY <1>1, <2>4, DirIsSet, EmptyDir, Sets
      <3>2. pc' \in Copying /\ pc' # "restore" /\ pc # "verify" /\ pc' # "staging"
        BY <1>1, <2>4 DEF Copying
      <3>3. /\ Typed' /\ Sources' /\ Journal' /\ Untouched' /\ Cause'
            /\ Safe' /\ Destinations' /\ Progress'
        BY <1>1, <1>2, <2>1, <2>3, <2>4, <3>1, <3>2, StagingAt
      <3>4. Positions'
        BY <1>1, <2>1, <2>3, <2>4 DEF Positions, Copying
      <3>5. Busy'
        <4>1. kind \notin promoted
          BY <1>2, <2>1 DEF MoveInv, Destinations
        <4>2. Exists(kind, "staging")'
          BY <2>1, <3>1, EmptyDir DEF DirAt, Exists
        <4>3. Started(kind)'
          <5>1. Live' = Len(undo) + 1
            BY <2>3, <2>4 DEF Live
          <5>2. undo'[Len(undo) + 1] = Promotion(kind)
            BY <2>1, <2>2, AppendUndo, <1>1
          <5>3. Promotion(kind)' = Promotion(kind)
            BY <2>1 DEF Promotion
          <5>4. Len(undo) + 1 \in 1 .. Live'
            BY <1>1, <5>1
          <5>5. QED
            BY <5>2, <5>3, <5>4 DEF Started
        <4>4. InScope(kind)'
          BY <1>1, <2>1 DEF InScope, kept
        <4>5. QED
          BY <2>1, <2>4, <4>1, <4>2, <4>3, <4>4 DEF Busy, Rewriting
      <3>6. QED
        BY <3>2, <2>4, <3>3, <3>4, <3>5, Running DEF MoveInv
    <2>5. CASE UNCHANGED disk /\ Fail
      <3>1. pc' = "restore" /\ at' = Len(undo') /\ fault' = TRUE
        BY <2>5 DEF Fail, Abort
      <3>2. pc' \in Copying \cup {"restore"} /\ pc' # "staging"
        BY <3>1
      <3>3. disk[kind]["staging"] \in Dir \cup {NoDir}
        BY <1>1, Sets DEF Typed, DiskType
      <3>4. /\ Typed' /\ Sources' /\ Journal' /\ Untouched' /\ Cause'
            /\ Safe' /\ Destinations' /\ Progress'
        BY <1>1, <1>2, <2>1, <2>3, <2>5, <3>1, <3>2, <3>3, StagingAt
      <3>5. Positions'
        BY <1>1, <2>3, <3>1 DEF Positions, Copying
      <3>6. Busy'
        BY <3>1 DEF Busy, Rewriting
      <3>7. QED
        BY <3>1, <3>4, <3>5, <3>6, Running DEF MoveInv
    <2>6. QED
      BY <1>4, <2>4, <2>5 DEF StartCopy
  <1>5. CASE UNCHANGED <<disk, undo, kind, promoted>> /\ Fail
    <2>1. Abort /\ fault' = TRUE /\ pc # "snapshot"
      BY <1>1, <1>5 DEF Fail
    <2>2. QED
      BY <1>1, <1>2, <1>5, <2>1, AbortStep
  <1>6. QED
    BY <1>3, <1>4, <1>5 DEF Promote

LEMMA CopyEntryStep ==
  ASSUME MoveInv, pc = "copy", UNCHANGED <<undo, pc, at, kind, promoted, fault>>, UNCHANGED kept,
         Exists(kind, "old"), NEW e \in Entries(disk[kind]["old"]), CopyEntry(e)
  PROVE  MoveInv'
  <1>1. /\ Typed /\ kind \in Moved /\ kind \in Kinds /\ fault \in BOOLEAN /\ InScope(kind)
        /\ Exists(kind, "staging") /\ Started(kind) /\ kind \notin promoted
    BY Sets DEF MoveInv, Typed, Busy
  <1>2. pc \in Copying /\ pc \in Active /\ pc' \in Copying
    BY DEF Copying, Active
  <1>3. disk[kind]["old"] \in Dir /\ disk[kind]["staging"] \in Dir
    BY <1>1, Sets DEF Typed, DiskType, Exists
  <1>4. e \in {"file", "sibling"} \X Files
    BY DEF Entries
  <1>5. PICK body \in {"torn", disk[kind]["old"][e[1]][e[2]]} :
          disk' = [disk EXCEPT ![kind]["staging"] = Put(@, e, body)]
    BY DEF CopyEntry
  <1>6. body \in Bodies
    <2>1. disk[kind]["old"][e[1]][e[2]] \in Bodies
      BY <1>3, <1>4, EntryOfDir DEF Bodies
    <2>2. QED
      BY <1>5, <2>1 DEF Bodies
  <1>7. PICK x \in Dir : x = Put(disk[kind]["staging"], e, body)
    BY <1>3, <1>4, <1>6, EntryOfDir
  <1>8. disk' = [disk EXCEPT ![kind]["staging"] = x]
    BY <1>1, <1>5, <1>7, Sets DEF Typed, DiskType
  <1>9. DirAt(kind, "staging", x) /\ x \in Dir \cup {NoDir}
    BY <1>1, <1>8, DirIsSet, Sets
  <1>10. /\ Typed' /\ Sources' /\ Journal' /\ Untouched' /\ Cause'
         /\ Safe' /\ Destinations' /\ Progress'
    BY <1>1, <1>2, <1>9, StagingAt
  <1>11. Positions'
    BY DEF MoveInv, Positions
  <1>12. Busy'
    <2>1. Exists(kind, "staging")'
      BY <1>9, NoDirAssumption DEF DirAt, Exists
    <2>2. Started(kind)'
      BY <1>1 DEF Started, Live, Promotion
    <2>3. InScope(kind)'
      BY <1>1 DEF InScope, kept
    <2>4. QED
      BY <1>1, <2>1, <2>2, <2>3 DEF Busy, Rewriting
  <1>13. QED
    BY <1>10, <1>11, <1>12, Running DEF MoveInv

LEMMA LandStep ==
  ASSUME NEW K, K = kind,
         MoveInv, pc = "copy", UNCHANGED <<undo, at, fault>>, UNCHANGED kept,
         Exists(kind, "old"), Copied,
         disk' = [disk EXCEPT ![kind]["new"] = disk[kind]["staging"], ![kind]["staging"] = NoDir],
         promoted' = promoted \cup {kind}, NextDirectory
  PROVE  MoveInv'
  <1> USE DEF kept
  <1>1. /\ Typed /\ kind \in Moved /\ kind \in Kinds /\ fault \in BOOLEAN /\ InScope(kind)
        /\ Exists(kind, "staging") /\ Started(kind) /\ kind \notin promoted
        /\ Len(Rewrites) \in Nat /\ Len(undo) \in Nat /\ at = Len(Rewrites) + 1
        /\ Len(undo) <= Len(Rewrites) + 2
        /\ kind = "encoded" => Len(undo) <= Len(Rewrites) + 1
    BY Sets, RewritesTyped DEF MoveInv, Typed, Busy, Positions, Copying
  <1>2. /\ \/ kind' = "project" /\ pc' = "staging" /\ kind = "encoded" /\ ~refsOnly
           \/ kind' = kind /\ pc' = "verify"
        /\ kind' \in Moved
    BY <1>1, NextKind, Sets
  <1>3. /\ pc \in Copying /\ pc \in Active /\ pc' \in Copying /\ pc' # "restore" /\ pc' \in Active
        /\ pc' \notin Rewriting /\ pc' \notin Finishing /\ pc' \in {"staging", "verify"}
    BY <1>2 DEF Copying, Active, Rewriting, Finishing
  <1>4. /\ disk' \in DiskType
        /\ disk'[K]["new"] = disk[K]["old"] /\ disk'[K]["staging"] = NoDir
        /\ \A k \in Kinds : disk'[k]["old"] = disk[k]["old"]
        /\ \A k \in Kinds, p \in Places : k # K => disk'[k][p] = disk[k][p]
    <2>1. disk \in DiskType /\ disk[kind]["staging"] \in Dir \cup {NoDir}
      BY <1>1, Sets DEF Typed, DiskType
    <2>2. disk' \in DiskType
      BY <1>1, <2>1, Sets DEF DiskType
    <2>3. disk'[kind]["new"] = disk[kind]["staging"] /\ disk'[kind]["staging"] = NoDir
      BY <1>1, <2>1, Sets DEF DiskType
    <2>4. \A k \in Kinds : disk'[k]["old"] = disk[k]["old"]
      BY <1>1, <2>1, Sets DEF DiskType
    <2>5. \A k \in Kinds, p \in Places : k # kind => disk'[k][p] = disk[k][p]
      BY <1>1, <2>1, Sets DEF DiskType
    <2>6. QED
      BY <2>2, <2>3, <2>4, <2>5 DEF Copied
  <1>5. /\ Typed' /\ Sources' /\ Journal'
        /\ \A k \in Kinds : Complete(k, "old")' <=> Complete(k, "old")
        /\ \A k \in Kinds : OldAsFound(k)'
        /\ \A i \in 1 .. Len(Rewrites) : Text(Rewrites[i])' = "new"
        /\ undo' = undo => \A k : Started(k)' <=> Started(k)
    BY <1>1, <1>2, <1>3, <1>4, CopyingFrame
  <1>6. Complete(K, "old")
    BY <1>1, <1>3 DEF MoveInv, Sources, Undoable
  <1>7. Complete(K, "new")' /\ Exists(K, "new")'
    BY <1>4, <1>6 DEF Complete, Exists
  <1>8. \A k \in Kinds : k # K => (Complete(k, "new")' <=> Complete(k, "new"))
                                     /\ (Exists(k, "new")' <=> Exists(k, "new"))
    BY <1>4, Sets DEF Complete, Exists
  <1>9. Safe'
    <2>1. Complete("home", "old")'
      BY <1>5, Sets DEF MoveInv, Safe
    <2>2. ASSUME NEW k \in Moved PROVE Complete(k, "old")' \/ Complete(k, "new")'
      BY <1>5, <1>7, <1>8, Sets DEF MoveInv, Safe
    <2>3. QED
      BY <2>1, <2>2 DEF Safe
  <1>10. Destinations'
    <2>1. \A k : InScope(k)' <=> InScope(k)
      BY DEF InScope
    <2>2. ASSUME NEW k \in Moved, InScope(k), Exists(k, "new")' PROVE Complete(k, "new")'
      BY <1>3, <1>7, <1>8, <2>2, Sets DEF MoveInv, Destinations
    <2>3. ASSUME NEW k \in promoted' PROVE Exists(k, "new")'
      <3>1. promoted \subseteq Moved
        BY <1>1 DEF Typed
      <3>2. QED
        BY <1>3, <1>7, <1>8, <2>3, <3>1, Sets DEF MoveInv, Destinations
    <2>4. QED
      BY <1>3, <2>1, <2>2, <2>3 DEF Destinations
  <1>11. Positions'
    BY <1>1, <1>2 DEF Positions, Copying
  <1>12. Busy'
    BY <1>1, <1>2, <1>3 DEF Busy, InScope
  <1>13. Untouched'
    <2> SUFFICES ASSUME NEW k \in Kinds PROVE NewAsFound(k)'
      BY <1>5 DEF Untouched
    <2>1. NewAsFound(k) /\ (Started(k)' <=> Started(k))
      BY <1>3, <1>5 DEF MoveInv, Untouched
    <2>2. CASE k # K
      <3>1. disk'[k]["new"] = disk[k]["new"] /\ disk'[k]["staging"] = disk[k]["staging"]
        BY <1>4, <2>2, Sets
      <3>2. k \in promoted' <=> k \in promoted
        BY <2>2
      <3>3. before' = before
        OBVIOUS
      <3>4. QED
        BY <2>1, <3>1, <3>2, <3>3 DEF NewAsFound
    <2>3. CASE k = K
      <3>1. before[k]["new"] = NoDir /\ Started(k)' /\ k \in promoted'
        BY <1>1, <2>1, <2>3 DEF NewAsFound
      <3>2. QED
        BY <1>4, <2>3, <3>1 DEF NewAsFound
    <2>4. QED
      BY <2>2, <2>3
  <1>14. Progress'
    <2>1. Exists("encoded", "new")' => Landed'
      <3>1. CASE kind = "encoded"
        <4> SUFFICES ASSUME NEW i \in 1 .. Len(Rewrites), Rewrites[i] \notin Home
                     PROVE  disk'["encoded"]["new"].file[Rewrites[i]] = "new"
          BY DEF Landed
        <4>1. KindOf(Rewrites[i]) = "encoded"
          BY DEF KindOf
        <4>2. Text(Rewrites[i])' = "new"
          BY <1>5
        <4>3. disk'["encoded"]["old"].file[Rewrites[i]] = "new"
          BY <4>1, <4>2 DEF Text
        <4>4. QED
          BY <1>1, <1>4, <3>1, <4>3
      <3>2. CASE kind # "encoded"
        <4>1. disk'["encoded"]["new"] = disk["encoded"]["new"]
          BY <1>4, <3>2, Sets
        <4>2. QED
          BY <1>3, <4>1 DEF MoveInv, Progress, Landed, Exists
      <3>3. QED
        BY <3>1, <3>2
    <2>2. QED
      BY <1>3, <1>5, <2>1 DEF Progress
  <1>15. Cause'
    <2>1. kind = "encoded" => disk["project"]["staging"] = before["project"]["staging"]
      BY <1>3 DEF MoveInv, Cause
    <2>2. kind = "encoded" => disk'["project"]["staging"] = disk["project"]["staging"]
      BY <1>4, Sets
    <2>3. QED
      BY <1>2, <1>3, <2>1, <2>2 DEF Cause
  <1>16. QED
    BY <1>3, <1>5, <1>9, <1>10, <1>11, <1>12, <1>13, <1>14, <1>15, Running DEF MoveInv

LEMMA CopyStep == MoveInv /\ Copy => MoveInv'
  <1> SUFFICES ASSUME MoveInv, Copy PROVE MoveInv'
    OBVIOUS
  <1>1. pc = "copy" /\ UNCHANGED <<undo>> /\ UNCHANGED kept /\ pc \in Active /\ pc # "snapshot"
    BY DEF Copy, Active, Copying
  <1>2. CASE /\ Exists(kind, "old")
             /\ \E e \in Entries(disk[kind]["old"]) : CopyEntry(e)
             /\ UNCHANGED <<pc, at, kind, promoted, fault>>
    BY <1>1, <1>2, CopyEntryStep
  <1>3. CASE /\ Exists(kind, "old") /\ Copied
             /\ disk' = [disk EXCEPT ![kind]["new"] = disk[kind]["staging"], ![kind]["staging"] = NoDir]
             /\ promoted' = promoted \cup {kind}
             /\ NextDirectory
             /\ UNCHANGED <<at, fault>>
    <2>1. PICK K : K = kind
      OBVIOUS
    <2>2. QED
      BY <1>1, <1>3, <2>1, LandStep
  <1>4. CASE Fail /\ UNCHANGED <<disk, kind, promoted>>
    <2>1. Abort /\ fault' = TRUE
      BY <1>4 DEF Fail
    <2>2. QED
      BY <1>1, <1>4, <2>1, AbortStep
  <1>5. QED
    BY <1>2, <1>3, <1>4 DEF Copy

LEMMA VerifyStep == MoveInv /\ Verify => MoveInv'
  <1> SUFFICES ASSUME MoveInv, Verify PROVE MoveInv'
    OBVIOUS
  <1> USE DEF kept
  <1>1. pc = "verify" /\ UNCHANGED <<disk, promoted>> /\ UNCHANGED kept /\ pc \in Active /\ pc # "snapshot"
        /\ pc \in Copying /\ fault \in BOOLEAN
    BY DEF Verify, Active, Copying, MoveInv, Typed
  <1>2. CASE /\ Exists("encoded", "new") /\ (refsOnly \/ Exists("project", "new"))
             /\ pc' = "remove"
             /\ kind' = IF refsOnly THEN "encoded" ELSE "project"
             /\ UNCHANGED <<at, undo, fault>>
    <2>1. Typed' /\ Positions'
      BY <1>1, <1>2, Sets DEF MoveInv, Typed, Control, Positions, Copying
    <2>2. Busy'
      BY <1>1, <1>2 DEF Busy, InScope, Rewriting
    <2>3. Safe'
      BY <1>1 DEF MoveInv, Safe, Complete, Exists
    <2>4. Sources' /\ Journal' /\ Untouched' /\ Cause'
      BY <1>2 DEF Sources, Journal, Untouched, Cause, Undoable, Active, Rewriting, Copying
    <2>5. Destinations'
      <3>1. ASSUME NEW k \in Moved, InScope(k) PROVE Complete(k, "new")
        <4>1. Exists(k, "new")
          BY <1>2, <3>1, Sets DEF InScope
        <4>2. QED
          BY <1>1, <3>1, <4>1 DEF MoveInv, Destinations
      <3>2. pc' \notin Active
        BY <1>2 DEF Active, Rewriting, Copying
      <3>3. \A k : (InScope(k)' <=> InScope(k)) /\ (Complete(k, "new")' <=> Complete(k, "new"))
        BY <1>1 DEF InScope, Complete, Exists
      <3>4. QED
        BY <3>1, <3>2, <3>3 DEF Destinations
    <2>6. Progress'
      <3>1. Landed
        BY <1>1, <1>2 DEF MoveInv, Progress
      <3>2. \A i \in 1 .. Len(Rewrites) : Text(Rewrites[i]) = "new"
        BY <1>1, RewritesTyped DEF MoveInv, Progress, Positions
      <3>3. Landed' /\ \A i \in 1 .. Len(Rewrites) : Text(Rewrites[i])' = "new"
        BY <1>1, <3>1, <3>2 DEF Landed, Text
      <3>4. QED
        BY <1>1, <1>2, <3>3 DEF Progress, Active, Rewriting, Copying
    <2>7. QED
      BY <1>2, <2>1, <2>2, <2>3, <2>4, <2>5, <2>6, Running DEF MoveInv
  <1>3. CASE UNCHANGED <<undo, kind>> /\ Fail
    <2>1. Abort /\ fault' = TRUE
      BY <1>3 DEF Fail
    <2>2. QED
      BY <1>1, <1>3, <2>1, AbortStep
  <1>4. QED
    BY <1>2, <1>3 DEF Verify


-----------------------------------------------------------------------------
(* Removing what was moved *)

\* Past the point of no return nothing is undone any more.
LEMMA PastUndoing ==
  ASSUME pc' \in Finishing \cup {"over"}
  PROVE  Sources' /\ Journal' /\ Untouched' /\ Cause'
  BY DEF Sources, Journal, Untouched, Cause, Undoable, Active, Rewriting, Copying, Finishing

\* Removing an old directory touches neither the home nor a destination.
LEMMA RemovalFrame ==
  ASSUME MoveInv, pc = "remove", NEW K, K = kind, NEW x \in Dir \cup {NoDir}, DirAt(K, "old", x),
         UNCHANGED <<refsOnly, undo, promoted, outcome, advice, fault, spoiled, before, runs>>,
         residual' \in BOOLEAN, kind' \in Moved,
         \/ pc' = "remove" /\ at' = at /\ (kind' = kind \/ kind' = "encoded")
         \/ pc' = "cleanup" /\ at' = 1
  PROVE  /\ Typed' /\ Positions' /\ Busy' /\ Safe' /\ Destinations'
         /\ Landed' /\ \A i \in 1 .. Len(Rewrites) : Rewrites[i] \in Home => Text(Rewrites[i])' = "new"
  <1>1. /\ K \in Moved /\ K \in Kinds /\ InScope(K) /\ K # "home"
        /\ Len(Rewrites) \in Nat /\ Len(undo) \in Nat /\ Len(undo) <= Len(Rewrites) + 2
    BY Sets, RewritesTyped DEF MoveInv, Typed, Busy, Positions
  <1>2. /\ disk' \in DiskType
        /\ \A j \in Kinds : j # K => disk'[j]["old"] = disk[j]["old"]
        /\ \A j \in Kinds : disk'[j]["new"] = disk[j]["new"]
    BY <1>1, Sets DEF DirAt
  <1>3. pc \in Finishing /\ pc' \in Finishing /\ pc' \notin Active /\ pc' \notin Rewriting
    BY DEF Finishing, Active, Rewriting, Copying
  <1>4. Typed'
    <2>1. at' \in 0 .. Len(Rewrites) + 3
      BY <1>1 DEF MoveInv, Typed
    <2>2. pc' \in Control
      BY DEF Control
    <2>3. QED
      BY <1>2, <2>1, <2>2 DEF MoveInv, Typed
  <1>5. Positions'
    BY <1>1 DEF Positions, Copying
  <1>6. Busy'
    BY <1>1, <1>3 DEF Busy, InScope
  <1>7. \A k \in Kinds : Complete(k, "new")' <=> Complete(k, "new")
    BY <1>2 DEF Complete, Exists
  <1>8. \A k \in Kinds : k # K => (Complete(k, "old")' <=> Complete(k, "old"))
    BY <1>2 DEF Complete, Exists
  <1>9. \A k \in Moved : InScope(k) => Complete(k, "new")
    BY <1>3 DEF MoveInv, Destinations
  <1>10. Safe'
    <2>1. Complete("home", "old")'
      BY <1>1, <1>8, Sets DEF MoveInv, Safe
    <2>2. ASSUME NEW k \in Moved PROVE Complete(k, "old")' \/ Complete(k, "new")'
      <3>1. CASE k = K
        BY <1>1, <1>7, <1>9, <3>1, Sets
      <3>2. CASE k # K
        BY <1>7, <1>8, <3>2, Sets DEF MoveInv, Safe
      <3>3. QED
        BY <3>1, <3>2
    <2>3. QED
      BY <2>1, <2>2 DEF Safe
  <1>11. Destinations'
    <2>1. \A k : InScope(k)' <=> InScope(k)
      BY DEF InScope
    <2>2. \A k \in Moved : InScope(k) => Complete(k, "new")'
      BY <1>7, <1>9, Sets
    <2>3. QED
      BY <1>3, <2>1, <2>2 DEF Destinations
  <1>12. Landed'
    BY <1>2, <1>3, Sets DEF MoveInv, Progress, Landed
  <1>13. ASSUME NEW i \in 1 .. Len(Rewrites), Rewrites[i] \in Home PROVE Text(Rewrites[i])' = "new"
    <2>1. Text(Rewrites[i]) = "new" /\ KindOf(Rewrites[i]) = "home"
      BY <1>3, <1>13 DEF MoveInv, Progress, KindOf
    <2>2. disk'["home"]["old"] = disk["home"]["old"]
      BY <1>1, <1>2, Sets
    <2>3. QED
      BY <2>1, <2>2 DEF Text
  <1>14. QED
    BY <1>4, <1>5, <1>6, <1>10, <1>11, <1>12, <1>13

LEMMA RemoveStep == MoveInv /\ Remove => MoveInv'
  <1> SUFFICES ASSUME MoveInv, Remove PROVE MoveInv'
    OBVIOUS
  <1>0. PICK K : K = kind
    OBVIOUS
  <1>1. /\ pc = "remove" /\ Typed /\ K \in Moved /\ K \in Kinds /\ InScope(K) /\ residual \in BOOLEAN
        /\ UNCHANGED <<refsOnly, undo, promoted, outcome, advice, fault, spoiled, before, runs>>
    BY <1>0, Sets DEF Remove, MoveInv, Typed, Busy
  <1>2. K = "encoded" /\ ~residual => refsOnly \/ ~Exists("project", "old")
    BY <1>0, <1>1 DEF MoveInv, Progress
  <1>3. CASE RemoveEntry(K, "old") /\ UNCHANGED <<pc, at, kind, residual>>
    <2>1. Exists(K, "old") /\ disk[K]["old"] \in Dir
      BY <1>1, <1>3, Sets DEF RemoveEntry, Typed, DiskType, Exists
    <2>2. PICK e \in Entries(disk[K]["old"]) : disk' = [disk EXCEPT ![K]["old"] = Put(@, e, "none")]
      BY <1>3 DEF RemoveEntry
    <2>3. PICK x \in Dir : x = Put(disk[K]["old"], e, "none")
      BY <2>1, <2>2, EntryOfDir DEF Entries, Bodies
    <2>4. disk' = [disk EXCEPT ![K]["old"] = x]
      BY <1>1, <2>2, <2>3, Sets DEF Typed, DiskType
    <2>5. DirAt(K, "old", x)
      BY <1>1, <2>4, DirIsSet, Sets
    <2>6. /\ Typed' /\ Positions' /\ Busy' /\ Safe' /\ Destinations'
          /\ Landed' /\ \A i \in 1 .. Len(Rewrites) : Rewrites[i] \in Home => Text(Rewrites[i])' = "new"
      BY <1>0, <1>1, <1>3, <2>5, RemovalFrame
    <2>7. Progress'
      <3>1. K = "encoded" => disk'["project"]["old"] = disk["project"]["old"]
        BY <2>5, Sets DEF DirAt
      <3>2. pc' = "remove" /\ kind' = K /\ residual' = residual /\ refsOnly' = refsOnly
        BY <1>0, <1>1, <1>3
      <3>3. QED
        BY <1>2, <2>6, <3>1, <3>2 DEF Progress, Exists, Active, Rewriting, Copying
    <2>8. pc' \in Finishing /\ pc' # "over"
      BY <1>1, <1>3 DEF Finishing
    <2>9. QED
      BY <2>6, <2>7, <2>8, PastUndoing, Running DEF MoveInv
  <1>4. ASSUME AfterRemoval, NEW x \in Dir \cup {NoDir}, DirAt(K, "old", x),
               residual' \in BOOLEAN, ~residual' => ~residual /\ x = NoDir
        PROVE  MoveInv'
    <2>1. \/ K = "project" /\ kind' = "encoded" /\ pc' = "remove" /\ at' = at
          \/ K = "encoded" /\ kind' = "encoded" /\ pc' = "cleanup" /\ at' = 1
      BY <1>0, <1>1, <1>4, Sets DEF AfterRemoval
    <2>2. kind' \in Moved
      BY <2>1, Sets
    <2>3. /\ Typed' /\ Positions' /\ Busy' /\ Safe' /\ Destinations'
          /\ Landed' /\ \A i \in 1 .. Len(Rewrites) : Rewrites[i] \in Home => Text(Rewrites[i])' = "new"
      BY <1>0, <1>1, <1>4, <2>1, <2>2, RemovalFrame
    <2>4. Progress'
      <3>1. ~residual' => disk'[K]["old"] = NoDir
        BY <1>4 DEF DirAt
      <3>2. K = "encoded" => disk'["project"]["old"] = disk["project"]["old"]
        BY <1>4, Sets DEF DirAt
      <3>3. pc' \notin Active
        BY <2>1 DEF Active, Rewriting, Copying
      <3>4. CASE K = "project"
        BY <2>1, <2>3, <3>1, <3>3, <3>4 DEF Progress, Exists, Rewriting, Copying
      <3>5. CASE K = "encoded"
        BY <1>1, <1>2, <1>4, <2>1, <2>3, <3>1, <3>2, <3>3, <3>5 DEF Progress, Exists, Rewriting, Copying
      <3>6. QED
        BY <2>1, <3>4, <3>5
    <2>5. pc' \in Finishing /\ pc' # "over"
      BY <2>1 DEF Finishing
    <2>6. QED
      BY <2>3, <2>4, <2>5, PastUndoing, Running DEF MoveInv
  <1>5. CASE RemoveDir(K, "old") /\ AfterRemoval /\ UNCHANGED residual
    <2>1. DirAt(K, "old", NoDir)
      BY <1>1, <1>5, DirIsSet, Sets DEF RemoveDir
    <2>2. QED
      BY <1>1, <1>4, <1>5, <2>1
  <1>6. CASE residual' = TRUE /\ AfterRemoval /\ UNCHANGED disk
    <2>1. PICK x \in Dir \cup {NoDir} : x = disk[K]["old"]
      BY <1>1, Sets DEF Typed, DiskType
    <2>2. DirAt(K, "old", x)
      BY <1>1, <1>6, <2>1 DEF DirAt, Typed
    <2>3. QED
      BY <1>4, <1>6, <2>2
  <1>7. QED
    BY <1>0, <1>3, <1>5, <1>6 DEF Remove

\* A sibling is no file of a directory.
LEMMA SiblingKeepsFiles ==
  ASSUME Typed, NEW f \in Rewritten, Exists(KindOf(f), "old"), disk' = SetSibling(disk, f, "none")
  PROVE  /\ disk' \in DiskType
         /\ \A k \in Kinds, p \in Places :
              (Exists(k, p)' <=> Exists(k, p)) /\ disk'[k][p].file = disk[k][p].file
  <1>1. disk \in DiskType /\ disk[KindOf(f)]["old"] # NoDir /\ "none" \in Bodies
    BY DEF Typed, Exists, Bodies
  <1>2. /\ SetSibling(disk, f, "none") \in DiskType
        /\ SetSibling(disk, f, "none")[KindOf(f)]["old"] # NoDir
        /\ \A j \in Kinds, q \in Places :
             j # KindOf(f) \/ q # "old" => SetSibling(disk, f, "none")[j][q] = disk[j][q]
        /\ SetSibling(disk, f, "none")[KindOf(f)]["old"].file = disk[KindOf(f)]["old"].file
    BY <1>1, SiblingIsSet
  <1>3. QED
    BY <1>1, <1>2 DEF Exists

LEMMA CleanupStep == MoveInv /\ Cleanup => MoveInv'
  <1> SUFFICES ASSUME MoveInv, Cleanup PROVE MoveInv'
    OBVIOUS
  <1>1. /\ pc = "cleanup" /\ pc \in Finishing /\ Typed
        /\ UNCHANGED <<refsOnly, kind, undo, promoted, advice, fault, spoiled, residual, before, runs>>
        /\ Len(Rewrites) \in Nat /\ Len(undo) \in Nat /\ Len(undo) <= Len(Rewrites) + 2
        /\ at \in 1 .. Len(undo) + 1 /\ undo \in Seq(Undo)
    BY RewritesTyped DEF Cleanup, MoveInv, Typed, Positions, Finishing
  <1>2. /\ Landed /\ \A i \in 1 .. Len(Rewrites) : Rewrites[i] \in Home => Text(Rewrites[i]) = "new"
        /\ \A k \in Moved : InScope(k) => Complete(k, "new")
        /\ ~residual => ~Exists("encoded", "old") /\ (refsOnly \/ ~Exists("project", "old"))
    BY <1>1 DEF MoveInv, Progress, Destinations
  <1>3. CASE /\ at <= Len(undo) /\ at' = at + 1 /\ UNCHANGED <<pc, outcome>>
             /\ disk' = IF undo[at].what = "file" /\ undo[at].of \in Large /\ Exists(KindOf(undo[at].of), "old")
                        THEN SetSibling(disk, undo[at].of, "none") ELSE disk
    <2>1. /\ disk' \in DiskType
          /\ \A k \in Kinds, p \in Places :
               (Exists(k, p)' <=> Exists(k, p)) /\ disk'[k][p].file = disk[k][p].file
      <3>1. CASE disk' = disk
        BY <1>1, <3>1 DEF Typed, Exists
      <3>2. CASE /\ undo[at].of \in Large /\ Exists(KindOf(undo[at].of), "old")
                 /\ disk' = SetSibling(disk, undo[at].of, "none")
        <4>1. undo[at].of \in Rewritten
          BY <3>2, LargeAssumption DEF Rewritten
        <4>2. QED
          BY <1>1, <3>2, <4>1, SiblingKeepsFiles
      <3>3. QED
        BY <1>3, <3>1, <3>2
    <2>2. Typed' /\ Positions' /\ Busy'
      <3>1. Typed'
        BY <1>1, <1>3, <2>1 DEF MoveInv, Typed
      <3>2. Positions' /\ Busy'
        BY <1>1, <1>3 DEF Positions, Busy, Rewriting, Copying
      <3>3. QED
        BY <3>1, <3>2
    <2>3. \A k \in Kinds, p \in Places : Complete(k, p)' <=> Complete(k, p)
      BY <2>1 DEF Complete
    <2>4. Safe'
      BY <2>3, Sets DEF MoveInv, Safe
    <2>5. Destinations'
      <3>1. \A k : InScope(k)' <=> InScope(k)
        BY <1>1 DEF InScope
      <3>2. \A k \in Moved : InScope(k) => Complete(k, "new")'
        BY <1>2, <2>3, Sets
      <3>3. QED
        BY <1>1, <1>3, <3>1, <3>2 DEF Destinations, Active, Rewriting, Copying
    <2>6. Progress'
      <3>1. Landed'
        BY <1>2, <2>1, Sets DEF Landed
      <3>2. ASSUME NEW i \in 1 .. Len(Rewrites), Rewrites[i] \in Home PROVE Text(Rewrites[i])' = "new"
        <4>1. KindOf(Rewrites[i]) \in Kinds /\ Text(Rewrites[i]) = "new"
          BY <1>2, <3>2, Sets DEF KindOf
        <4>2. QED
          BY <2>1, <4>1, Sets DEF Text
      <3>3. ~residual => ~Exists("encoded", "old")' /\ (refsOnly \/ ~Exists("project", "old")')
        BY <1>2, <2>1, Sets
      <3>4. QED
        BY <1>1, <1>3, <3>1, <3>2, <3>3 DEF Progress, Active, Rewriting, Copying
    <2>7. QED
      BY <1>1, <1>3, <2>2, <2>4, <2>5, <2>6, PastUndoing, Running DEF MoveInv
  <1>4. CASE at > Len(undo) /\ End("ok") /\ UNCHANGED <<disk, at>>
    <2>1. pc' = "over" /\ outcome' = "ok"
      BY <1>4 DEF End
    <2>2. Typed' /\ Positions' /\ Busy' /\ Safe'
      <3>1. Typed'
        BY <1>1, <1>4, <2>1 DEF Typed, Control
      <3>2. Positions' /\ Busy'
        BY <1>1, <1>4, <2>1 DEF MoveInv, Positions, Busy, Rewriting, Copying
      <3>3. Safe'
        BY <1>4 DEF MoveInv, Safe, Complete, Exists
      <3>4. QED
        BY <3>1, <3>2, <3>3
    <2>3. Destinations' /\ Progress'
      BY <2>1 DEF Destinations, Progress, Active, Rewriting, Copying, Finishing
    <2>4. SuccessMovesAll'
      <3>1. ASSUME NEW i \in DOMAIN Rewrites
            PROVE  disk[KindOf(Rewrites[i])][IF Rewrites[i] \in Home THEN "old" ELSE "new"].file[Rewrites[i]] = "new"
        <4>1. i \in 1 .. Len(Rewrites)
          BY RewritesAssumption
        <4>2. CASE Rewrites[i] \in Home
          BY <1>2, <4>1, <4>2 DEF Text
        <4>3. CASE Rewrites[i] \notin Home
          BY <1>2, <4>1, <4>3 DEF Landed, KindOf
        <4>4. QED
          BY <4>2, <4>3
      <3>2. \A f \in Inside \cup Kept : Whole("encoded", "new", f)
        <4>1. Complete("encoded", "new")
          BY <1>2, Sets DEF InScope
        <4>2. QED
          BY <4>1, Sets DEF Complete, Whole
      <3>3. ~refsOnly => \A f \in Project : Whole("project", "new", f)
        <4>1. ~refsOnly => Complete("project", "new")
          BY <1>2, Sets DEF InScope
        <4>2. QED
          BY <4>1, Sets DEF Complete, Whole
      <3>4. QED
        BY <1>1, <1>2, <1>4, <3>1, <3>2, <3>3 DEF SuccessMovesAll, Whole, Exists
    <2>5. FailureRollsBack' /\ StagingStops'
      BY <2>1 DEF FailureRollsBack, StagingStops
    <2>6. QED
      BY <2>1, <2>2, <2>3, <2>4, <2>5, PastUndoing DEF MoveInv
  <1>5. QED
    BY <1>3, <1>4 DEF Cleanup

-----------------------------------------------------------------------------
(* Undoing *)

undoing == <<refsOnly, kind, undo, promoted, outcome, advice, fault, residual, before, runs>>

\* What every step of the rollback leaves true.
LEMMA RestoreFrame ==
  ASSUME MoveInv, pc = "restore", pc' = "restore", at > 0, at' = at \/ at' = at - 1,
         UNCHANGED undoing, spoiled' \in BOOLEAN, disk' \in DiskType
  PROVE  /\ Typed' /\ Positions' /\ Busy' /\ Destinations' /\ Progress' /\ Cause'
         /\ \A f : Registered(f)' => Registered(f)
         /\ at' = at => \A k : (Started(k)' <=> Started(k)) /\ (Registered(k)' <=> Registered(k))
         /\ at \in 1 .. Len(undo) /\ Len(undo) \in Nat /\ Live = at /\ Live' = at' /\ undo[at] \in Undo
  <1> USE DEF undoing
  <1>1. /\ at \in 1 .. Len(undo) /\ Len(undo) \in Nat /\ Len(undo) <= Len(Rewrites) + 2
        /\ Len(Rewrites) \in Nat /\ Live = at /\ Live' = at' /\ undo \in Seq(Undo)
    BY RewritesTyped DEF MoveInv, Typed, Positions, Live
  <1>2. undo[at] \in Undo /\ at' \in 0 .. Len(undo)
    BY <1>1
  <1>3. Typed'
    BY <1>1, <1>2 DEF MoveInv, Typed
  <1>4. Positions' /\ Busy'
    BY <1>1, <1>2 DEF MoveInv, Positions, Busy, Rewriting, Copying
  <1>5. Destinations' /\ Progress'
    BY DEF Destinations, Progress, Active, Rewriting, Copying, Finishing
  <1>6. Cause'
    BY DEF MoveInv, Cause, Active, Rewriting, Copying, Obstacle
  <1>7. \A f : Registered(f)' => Registered(f)
    BY <1>1 DEF Registered, File
  <1>8. at' = at => \A k : (Started(k)' <=> Started(k)) /\ (Registered(k)' <=> Registered(k))
    BY <1>1 DEF Registered, Started, File, Promotion
  <1>9. QED
    BY <1>1, <1>2, <1>3, <1>4, <1>5, <1>6, <1>7, <1>8

\* Fewer registrations, each with its pre-image still.
LEMMA RestoreJournal ==
  ASSUME MoveInv, pc = "restore", pc' = "restore", UNCHANGED undoing,
         \A f \in Rewritten : Registered(f)' => Registered(f) /\ Sibling(f)' = Sibling(f)
  PROVE  Journal'
  <1>1. pc \in Undoable /\ pc' \notin Active
    BY DEF Undoable, Active, Rewriting, Copying
  <1>2. undo' = undo /\ before' = before
    BY DEF undoing
  <1>3. QED
    BY <1>1, <1>2 DEF MoveInv, Journal

\* The undo of a promotion removes what the run itself had put there.
LEMMA UndoPromotion ==
  ASSUME MoveInv, pc = "restore", pc' = "restore", at > 0, UNCHANGED undoing, UNCHANGED spoiled,
         NEW K, NEW P, K = undo[at].of, P = PlaceOf(K), undo[at].what = "promotion",
         NEW x \in Dir \cup {NoDir}, DirAt(K, P, x),
         at' = at \/ (at' = at - 1 /\ x = NoDir)
  PROVE  MoveInv'
  <1> USE DEF undoing
  <1>1. /\ Typed' /\ Positions' /\ Busy' /\ Destinations' /\ Progress' /\ Cause'
        /\ \A f : Registered(f)' => Registered(f)
        /\ at' = at => \A k : (Started(k)' <=> Started(k)) /\ (Registered(k)' <=> Registered(k))
        /\ at \in 1 .. Len(undo) /\ Len(undo) \in Nat /\ Live = at /\ Live' = at' /\ undo[at] \in Undo
    BY RestoreFrame DEF DirAt, MoveInv, Typed
  <1>2. undo[at] = Promotion(K) /\ K \in Moved
    BY <1>1 DEF Promotion, Undo
  <1>15. at \in 1 .. at /\ Live = at /\ Live' = at' /\ undo' = undo /\ at \in Nat
    BY <1>1
  <1>3. K \in Kinds /\ P \in {"new", "staging"}
    BY <1>2, Sets DEF PlaceOf
  <1>4. pc \in Undoable /\ pc' \in Undoable
    BY DEF Undoable
  <1>5. /\ \A k \in Kinds : disk'[k]["old"] = disk[k]["old"]
        /\ \A k \in Kinds, p \in Places : k # K \/ p # P => disk'[k][p] = disk[k][p]
        /\ disk'[K][P] = x
    BY <1>3, Sets DEF DirAt
  <1>6. \A k \in Kinds : /\ Complete(k, "old")' <=> Complete(k, "old")
                         /\ Exists(k, "old")' <=> Exists(k, "old")
    BY <1>5 DEF Complete, Exists
  <1>7. Sources'
    <2>1. \A k : InScope(k)' <=> InScope(k)
      BY DEF InScope
    <2>2. promoted \subseteq Moved
      BY DEF MoveInv, Typed
    <2>3. QED
      BY <1>4, <1>6, <2>1, <2>2, Sets DEF MoveInv, Sources
  <1>8. Safe'
    <2>1. ASSUME NEW k \in Moved PROVE Complete(k, "old")' \/ Complete(k, "new")'
      <3>1. CASE k = K /\ P = "new"
        <4>1. K \in promoted
          BY <3>1 DEF PlaceOf
        <4>2. Complete(K, "old")
          BY <1>2, <1>4, <4>1 DEF MoveInv, Sources
        <4>3. QED
          BY <1>3, <1>6, <3>1, <4>2
      <3>2. CASE ~(k = K /\ P = "new")
        <4>1. disk'[k]["new"] = disk[k]["new"]
          BY <1>5, <3>2, Sets
        <4>2. Complete(k, "new")' <=> Complete(k, "new")
          BY <4>1 DEF Complete, Exists
        <4>3. QED
          BY <1>6, <4>2, Sets DEF MoveInv, Safe
      <3>3. QED
        BY <3>1, <3>2
    <2>2. Complete("home", "old")'
      BY <1>6, Sets DEF MoveInv, Safe
    <2>3. QED
      BY <2>1, <2>2 DEF Safe
  <1>9. Journal'
    <2>1. \A f : KindOf(f) \in Kinds
      BY KindOfTyped, Sets
    <2>2. \A f : Sibling(f)' = Sibling(f)
      BY <1>5, <2>1 DEF Sibling
    <2>3. QED
      BY <1>1, <2>2, RestoreJournal
  <1>10. \A f : Registered(f)' <=> Registered(f)
    <2>1. CASE at' = at
      BY <1>1, <2>1
    <2>2. CASE at' = at - 1
      <3>1. \A f : File(f) # Promotion(K) /\ File(f)' = File(f)
        BY DEF File, Promotion
      <3>2. \A i : i \in 1 .. Live <=> i \in 1 .. Live' \/ i = at
        BY <1>15, <2>2
      <3>3. QED
        BY <1>2, <1>15, <3>1, <3>2 DEF Registered
    <2>3. QED
      BY <2>1, <2>2
  <1>11. \A k : k # K => (Started(k)' <=> Started(k))
    <2>1. CASE at' = at
      BY <1>1, <2>1
    <2>2. CASE at' = at - 1
      <3>1. \A k : (k # K => Promotion(k) # Promotion(K)) /\ Promotion(k)' = Promotion(k)
        BY DEF Promotion
      <3>2. \A i : i \in 1 .. Live <=> i \in 1 .. Live' \/ i = at
        BY <1>15, <2>2
      <3>3. QED
        BY <1>2, <1>15, <3>1, <3>2 DEF Started
    <2>3. QED
      BY <2>1, <2>2
  <1>12. Started(K)
    BY <1>2, <1>15 DEF Started
  <1>13. Untouched'
    <2> SUFFICES ASSUME ~spoiled, NEW k \in Kinds PROVE OldAsFound(k)' /\ NewAsFound(k)'
      BY DEF Untouched, Active, Rewriting, Copying
    <2>1. OldAsFound(k) /\ NewAsFound(k)
      BY DEF MoveInv, Untouched
    <2>2. OldAsFound(k)'
      <3>1. \A g : Changed(k, g)' <=> Changed(k, g)
        BY <1>10 DEF Changed
      <3>2. QED
        BY <1>5, <2>1, <3>1 DEF OldAsFound, Exists
    <2>3. before' = before /\ promoted' = promoted
      OBVIOUS
    <2>4. CASE k # K
      <3>1. disk'[k]["new"] = disk[k]["new"] /\ disk'[k]["staging"] = disk[k]["staging"]
        BY <1>5, <2>4, Sets
      <3>2. Started(k)' <=> Started(k)
        BY <1>11, <2>4
      <3>3. QED
        BY <2>1, <2>2, <2>3, <3>1, <3>2 DEF NewAsFound
    <2>5. CASE k = K
      <3>1. before[K]["new"] = NoDir /\ disk[K][IF K \in promoted THEN "staging" ELSE "new"] = NoDir
        BY <1>12, <2>1, <2>5 DEF NewAsFound
      <3>2. disk'[K][IF K \in promoted THEN "staging" ELSE "new"] = NoDir
        BY <1>3, <1>5, <3>1, Sets DEF PlaceOf
      <3>3. CASE at' = at
        <4>1. Started(K)'
          BY <1>1, <1>12, <3>3
        <4>2. QED
          BY <2>2, <2>3, <2>5, <3>1, <3>2, <4>1 DEF NewAsFound
      <3>4. CASE x = NoDir
        <4>1. disk'[K]["new"] = NoDir /\ disk'[K]["staging"] = NoDir
          BY <1>5, <3>2, <3>4 DEF PlaceOf
        <4>2. QED
          BY <2>2, <2>3, <2>5, <3>1, <3>2, <4>1 DEF NewAsFound
      <3>5. QED
        BY <3>3, <3>4
    <2>6. QED
      BY <2>4, <2>5
  <1>14. QED
    BY <1>1, <1>7, <1>8, <1>9, <1>13, Running DEF MoveInv

\* A file gets its bytes back, and a large one loses its sibling.
LEMMA UndoFileOnly ==
  ASSUME Typed, NEW f \in Rewritten, Exists(KindOf(f), "old"), f \in Large => Sibling(f) = "old",
         UndoFile(f)
  PROVE  /\ OnlyAt(f) /\ Text(f)' = "old"
         /\ Sibling(f)' = IF f \in Large THEN "none" ELSE Sibling(f)
  <1>1. CASE f \notin Large
    BY <1>1, SetTextOnly DEF UndoFile, Bodies
  <1>2. CASE f \in Large
    <2>1. PICK d : d = SetText(disk, f, "old")
      OBVIOUS
    <2>2. disk' = SetSibling(d, f, "none")
      BY <1>2, <2>1 DEF UndoFile
    <2>3. disk \in DiskType /\ disk[KindOf(f)]["old"] # NoDir /\ f \in Files /\ {"old", "none"} \subseteq Bodies
      BY Sets DEF Typed, Exists, Bodies
    <2>4. /\ d \in DiskType
          /\ d[KindOf(f)]["old"] # NoDir
          /\ \A j \in Kinds, q \in Places : j # KindOf(f) \/ q # "old" => d[j][q] = disk[j][q]
          /\ \A g \in Files : d[KindOf(f)]["old"].file[g] =
               IF g = f THEN "old" ELSE disk[KindOf(f)]["old"].file[g]
          /\ d[KindOf(f)]["old"].sibling = disk[KindOf(f)]["old"].sibling
      BY <2>1, <2>3, TextIsSet
    <2> DEFINE e == SetSibling(d, f, "none")
    <2>a. /\ e \in DiskType
          /\ e[KindOf(f)]["old"] # NoDir
          /\ \A j \in Kinds, q \in Places : j # KindOf(f) \/ q # "old" => e[j][q] = d[j][q]
          /\ \A g \in Files : e[KindOf(f)]["old"].sibling[g] =
               IF g = f THEN "none" ELSE d[KindOf(f)]["old"].sibling[g]
          /\ e[KindOf(f)]["old"].file = d[KindOf(f)]["old"].file
      <3>1. d \in DiskType /\ d[KindOf(f)]["old"] # NoDir /\ "none" \in Bodies
        BY <2>3, <2>4
      <3>2. QED
        BY <3>1, SiblingIsSet
    <2>b. disk' = e
      BY <2>2
    <2> HIDE DEF e
    <2>5. /\ disk' \in DiskType
          /\ disk'[KindOf(f)]["old"] # NoDir
          /\ \A j \in Kinds, q \in Places : j # KindOf(f) \/ q # "old" => disk'[j][q] = d[j][q]
          /\ \A g \in Files : disk'[KindOf(f)]["old"].sibling[g] =
               IF g = f THEN "none" ELSE d[KindOf(f)]["old"].sibling[g]
          /\ disk'[KindOf(f)]["old"].file = d[KindOf(f)]["old"].file
      BY <2>a, <2>b
    <2>6. QED
      BY <1>2, <2>3, <2>4, <2>5 DEF OnlyAt, Text, Sibling
  <1>3. QED
    BY <1>1, <1>2

\* The undo of a file makes it, and its sibling, what the run found.
LEMMA UndoFileStep ==
  ASSUME MoveInv, pc = "restore", pc' = "restore", at > 0, UNCHANGED undoing, UNCHANGED spoiled,
         NEW f, f = undo[at].of, undo[at].what = "file", UndoFile(f), at' = at - 1
  PROVE  MoveInv'
  <1> USE DEF undoing
  <1>1. /\ at \in 1 .. Len(undo) /\ Len(undo) \in Nat /\ Live = at /\ undo[at] \in Undo
    BY DEF MoveInv, Typed, Positions, Live
  <1>2. undo[at] = File(f) /\ f \in Rewritten
    BY <1>1 DEF Undo, File, Rewritten
  <1>3. pc \in Undoable /\ pc' \in Undoable /\ pc' \notin Active
    BY DEF Undoable, Active, Rewriting, Copying
  <1>4. Registered(f) /\ Exists(KindOf(f), "old") /\ KindOf(f) \in Kinds /\ f \in Files
    <2>1. at \in 1 .. Live
      BY <1>1
    <2>2. Registered(f)
      BY <1>2, <2>1 DEF Registered
    <2>3. QED
      BY <1>2, <1>3, <2>2, TextThere, KindOfTyped, Sets DEF MoveInv
  <1>5. before[KindOf(f)]["old"].file[f] = "old" /\ (f \in Large => Sibling(f) = "old")
    BY <1>2, <1>3, <1>4 DEF MoveInv, Journal
  <1>6. /\ OnlyAt(f) /\ Text(f)' = "old"
        /\ Sibling(f)' = IF f \in Large THEN "none" ELSE Sibling(f)
    BY <1>2, <1>4, <1>5, UndoFileOnly DEF MoveInv
  <1>7. disk' \in DiskType /\ spoiled' \in BOOLEAN
    BY <1>6 DEF OnlyAt, MoveInv, Typed
  <1>8. /\ Typed' /\ Positions' /\ Busy' /\ Destinations' /\ Progress' /\ Cause'
        /\ \A g : Registered(g)' => Registered(g)
        /\ Live' = at'
    BY <1>7, RestoreFrame
  <1>9. Safe' /\ Sources'
    BY <1>2, <1>3, <1>6, OnlyAtSafe
  <1>10. at \in 1 .. at /\ at \in Nat /\ Live = at /\ Live' = at' /\ undo' = undo /\ at <= Len(undo)
    BY <1>1, <1>8
  <1>11. ~Registered(f)'
    <2>1. SUFFICES ASSUME NEW i \in 1 .. at', undo[i] = File(f) PROVE FALSE
      BY <1>10 DEF Registered, File
    <2>2. i \in 1 .. Len(undo) /\ at \in 1 .. Len(undo) /\ i # at
      BY <1>1, <1>10
    <2>3. File(f).what = "file"
      BY DEF File
    <2>4. QED
      BY <1>2, <1>3, <2>1, <2>2, <2>3 DEF MoveInv, Journal
  <1>12. \A g : g # f => (Registered(g)' <=> Registered(g))
    <2>1. \A g : (g # f => File(g) # File(f)) /\ File(g)' = File(g)
      BY DEF File
    <2>2. \A i : i \in 1 .. Live <=> i \in 1 .. Live' \/ i = at
      BY <1>10
    <2>3. QED
      BY <1>2, <1>10, <2>1, <2>2 DEF Registered
  <1>13. \A k : Started(k)' <=> Started(k)
    <2>1. \A k : Promotion(k) # File(f) /\ Promotion(k)' = Promotion(k)
      BY DEF File, Promotion
    <2>2. \A i : i \in 1 .. Live <=> i \in 1 .. Live' \/ i = at
      BY <1>10
    <2>3. QED
      BY <1>2, <1>10, <2>1, <2>2 DEF Started
  <1>14. Journal'
    <2>1. ASSUME NEW g \in Rewritten, Registered(g)' PROVE Registered(g) /\ Sibling(g)' = Sibling(g)
      <3>1. g # f /\ Registered(g)
        BY <1>8, <1>11, <2>1
      <3>2. QED
        BY <1>2, <1>6, <3>1, OthersStay
    <2>2. QED
      BY <2>1, RestoreJournal
  <1>15. Untouched'
    <2> SUFFICES ASSUME ~spoiled, NEW k \in Kinds PROVE OldAsFound(k)' /\ NewAsFound(k)'
      BY <1>3 DEF Untouched
    <2>1. OldAsFound(k) /\ NewAsFound(k)
      BY DEF MoveInv, Untouched
    <2>2. before' = before /\ promoted' = promoted
      OBVIOUS
    <2>3. NewAsFound(k)'
      <3>1. disk'[k]["new"] = disk[k]["new"] /\ disk'[k]["staging"] = disk[k]["staging"]
        BY <1>6, Sets DEF OnlyAt
      <3>2. Started(k)' <=> Started(k)
        BY <1>13
      <3>3. QED
        BY <2>1, <2>2, <3>1, <3>2 DEF NewAsFound
    <2>4. CASE k # KindOf(f)
      <3>1. disk'[k]["old"] = disk[k]["old"]
        BY <1>6, <2>4, Sets DEF OnlyAt
      <3>2. \A g \in Files : Changed(k, g) => Changed(k, g)'
        BY <1>12, <2>4 DEF Changed
      <3>3. QED
        BY <2>1, <2>2, <2>3, <3>1, <3>2 DEF OldAsFound, Exists
    <2>5. CASE k = KindOf(f)
      <3>1. disk'[k]["old"] # NoDir /\ Exists(k, "old") /\ before[k]["old"] # NoDir
        BY <1>4, <1>6, <2>1, <2>5 DEF OnlyAt, Exists, OldAsFound
      <3>2. ASSUME NEW g \in Files
            PROVE  /\ disk'[k]["old"].file[g] = before[k]["old"].file[g] \/ Changed(k, g)'
                   /\ \/ disk'[k]["old"].sibling[g] \in {"none", before[k]["old"].sibling[g]}
                      \/ Changed(k, g)' /\ g \in Large
        <4>1. CASE g # f
          <5>1. /\ disk'[k]["old"].file[g] = disk[k]["old"].file[g]
                /\ disk'[k]["old"].sibling[g] = disk[k]["old"].sibling[g]
            BY <1>6, <2>5, <4>1 DEF OnlyAt
          <5>2. Changed(k, g)' <=> Changed(k, g)
            BY <1>12, <4>1 DEF Changed
          <5>3. QED
            BY <2>1, <3>1, <5>1, <5>2 DEF OldAsFound
        <4>2. CASE g = f
          <5>1. disk'[k]["old"].file[f] = "old" /\ before[k]["old"].file[f] = "old"
            BY <1>5, <1>6, <2>5 DEF Text
          <5>2. CASE f \in Large
            <6>1. disk'[k]["old"].sibling[f] = "none"
              BY <1>6, <2>5, <5>2 DEF Sibling
            <6>2. QED
              BY <4>2, <5>1, <6>1
          <5>3. CASE f \notin Large
            <6>1. disk[k]["old"].sibling[f] \in {"none", before[k]["old"].sibling[f]}
              BY <1>4, <2>1, <3>1, <5>3 DEF OldAsFound
            <6>2. disk'[k]["old"].sibling[f] = disk[k]["old"].sibling[f]
              BY <1>6, <2>5, <5>3 DEF Sibling
            <6>3. QED
              BY <4>2, <5>1, <6>1, <6>2
          <5>4. QED
            BY <5>2, <5>3
        <4>3. QED
          BY <4>1, <4>2
      <3>3. OldAsFound(k)'
        BY <2>2, <3>1, <3>2 DEF OldAsFound, Exists
      <3>4. QED
        BY <2>3, <3>3
    <2>6. QED
      BY <2>4, <2>5
  <1>16. QED
    BY <1>8, <1>9, <1>14, <1>15, Running DEF MoveInv

\* Nothing is left to undo: what is not spoiled is as the run found it.
LEMMA UndoneStep ==
  ASSUME MoveInv, pc = "restore", at = 0, End("failed"), UNCHANGED disk, UNCHANGED <<at, spoiled>>,
         UNCHANGED <<refsOnly, kind, undo, promoted, advice, fault, residual, before, runs>>
  PROVE  MoveInv'
  <1>1. pc' = "over" /\ outcome' = "failed" /\ Live = 0
    BY DEF End, Live
  <1>2. Typed'
    BY <1>1 DEF MoveInv, Typed, Control
  <1>3. Positions' /\ Busy'
    BY <1>1 DEF MoveInv, Positions, Busy, Rewriting, Copying
  <1>4. Safe'
    BY DEF MoveInv, Safe, Complete, Exists
  <1>5. Destinations' /\ Progress'
    BY <1>1 DEF Destinations, Progress, Active, Rewriting, Copying, Finishing
  <1>6. SuccessMovesAll'
    BY <1>1 DEF SuccessMovesAll
  <1>7. StagingStops'
    BY DEF MoveInv, Cause, Obstacle, StagingStops
  <1>8. FailureRollsBack'
    <2> SUFFICES ASSUME ~spoiled, NEW k \in Kinds
                 PROVE  /\ SameFiles(k, "old") /\ SameFiles(k, "new")
                        /\ disk[k]["staging"] \in {NoDir, before[k]["staging"]}
                        /\ Exists(k, "old") =>
                             \A f \in Files : disk[k]["old"].sibling[f] \in {"none", before[k]["old"].sibling[f]}
      BY DEF FailureRollsBack, SameFiles, Exists
    <2>1. OldAsFound(k) /\ NewAsFound(k)
      BY DEF MoveInv, Untouched
    <2>2. \A g : ~Changed(k, g)
      BY <1>1 DEF Changed, Registered
    <2>3. ~Started(k)
      BY <1>1 DEF Started
    <2>4. disk[k]["new"] = before[k]["new"] /\ disk[k]["staging"] \in {NoDir, before[k]["staging"]}
      BY <2>1, <2>3 DEF NewAsFound
    <2>5. Exists(k, "old") =>
            \A f \in Files : /\ disk[k]["old"].file[f] = before[k]["old"].file[f]
                             /\ disk[k]["old"].sibling[f] \in {"none", before[k]["old"].sibling[f]}
      BY <2>1, <2>2 DEF OldAsFound
    <2>6. SameFiles(k, "old")
      <3>1. CASE ~Exists(k, "old")
        BY <2>1, <3>1 DEF SameFiles, Exists, OldAsFound
      <3>2. CASE Exists(k, "old")
        <4>1. before[k]["old"] # NoDir /\ disk[k]["old"] # NoDir
          BY <2>1, <3>2 DEF Exists, OldAsFound
        <4>2. disk[k]["old"] \in Dir /\ before[k]["old"] \in Dir
          BY <4>1, Sets DEF MoveInv, Typed, DiskType
        <4>3. disk[k]["old"].file \in [Files -> Bodies] /\ before[k]["old"].file \in [Files -> Bodies]
          BY <4>2 DEF Dir
        <4>4. \A f \in Files : disk[k]["old"].file[f] = before[k]["old"].file[f]
          BY <2>5, <3>2
        <4>5. disk[k]["old"].file = before[k]["old"].file
          BY <4>3, <4>4
        <4>6. QED
          BY <3>2, <4>1, <4>5 DEF SameFiles
      <3>3. QED
        BY <3>1, <3>2
    <2>7. SameFiles(k, "new")
      BY <2>4 DEF SameFiles, Exists
    <2>8. QED
      BY <2>4, <2>5, <2>6, <2>7
  <1>9. QED
    BY <1>1, <1>2, <1>3, <1>4, <1>5, <1>6, <1>7, <1>8, PastUndoing DEF MoveInv

LEMMA RestoreStep == MoveInv /\ Restore => MoveInv'
  <1> SUFFICES ASSUME MoveInv, Restore PROVE MoveInv'
    OBVIOUS
  <1>1. pc = "restore" /\ UNCHANGED <<refsOnly, kind, undo, promoted, advice, fault, residual, before, runs>>
    BY DEF Restore
  <1>2. CASE at = 0 /\ End("failed") /\ UNCHANGED <<disk, at, spoiled>>
    BY <1>1, <1>2, UndoneStep
  <1>3. ASSUME at > 0, pc' = pc, outcome' = outcome,
               \/ /\ undo[at].what = "promotion" /\ RemoveEntry(undo[at].of, PlaceOf(undo[at].of))
                  /\ UNCHANGED <<at, spoiled>>
               \/ /\ undo[at].what = "promotion" /\ RemoveDir(undo[at].of, PlaceOf(undo[at].of))
                  /\ UNCHANGED spoiled /\ at' = at - 1
               \/ undo[at].what = "file" /\ UndoFile(undo[at].of) /\ UNCHANGED spoiled /\ at' = at - 1
               \/ spoiled' = TRUE /\ UNCHANGED disk /\ at' = at - 1
        PROVE  MoveInv'
    <2>1. /\ pc' = "restore" /\ UNCHANGED undoing /\ Typed
          /\ at \in 1 .. Len(undo) /\ undo[at] \in Undo
      BY <1>1, <1>3 DEF undoing, MoveInv, Typed, Positions
    <2>2. PICK K, P : K = undo[at].of /\ P = PlaceOf(K)
      OBVIOUS
    <2>3. undo[at].what = "promotion" => K \in Moved /\ K \in Kinds /\ P \in Places
      BY <2>1, <2>2, Sets DEF Undo, PlaceOf
    <2>4. CASE undo[at].what = "promotion" /\ RemoveEntry(K, P) /\ UNCHANGED <<at, spoiled>>
      <3>1. disk[K][P] \in Dir
        BY <2>1, <2>3, <2>4 DEF RemoveEntry, Typed, DiskType, Exists
      <3>2. PICK e \in Entries(disk[K][P]) : disk' = [disk EXCEPT ![K][P] = Put(@, e, "none")]
        BY <2>4 DEF RemoveEntry
      <3>3. PICK x \in Dir : x = Put(disk[K][P], e, "none")
        BY <3>1, <3>2, EntryOfDir DEF Entries, Bodies
      <3>4. disk' = [disk EXCEPT ![K][P] = x]
        BY <2>1, <2>3, <2>4, <3>2, <3>3 DEF Typed, DiskType
      <3>5. DirAt(K, P, x)
        BY <2>1, <2>3, <2>4, <3>4, DirIsSet
      <3>6. QED
        BY <1>1, <1>3, <2>1, <2>2, <2>4, <3>5, UndoPromotion
    <2>5. CASE undo[at].what = "promotion" /\ RemoveDir(K, P) /\ UNCHANGED spoiled /\ at' = at - 1
      <3>1. DirAt(K, P, NoDir)
        BY <2>1, <2>3, <2>5, DirIsSet DEF RemoveDir
      <3>2. QED
        BY <1>1, <1>3, <2>1, <2>2, <2>5, <3>1, UndoPromotion
    <2>6. CASE undo[at].what = "file" /\ UndoFile(K) /\ UNCHANGED spoiled /\ at' = at - 1
      BY <1>1, <1>3, <2>1, <2>2, <2>6, UndoFileStep
    <2>7. CASE spoiled' = TRUE /\ UNCHANGED disk /\ at' = at - 1
      <3>1. disk' \in DiskType /\ spoiled' \in BOOLEAN
        BY <2>1, <2>7 DEF Typed
      <3>2. /\ Typed' /\ Positions' /\ Busy' /\ Destinations' /\ Progress' /\ Cause'
            /\ \A g : Registered(g)' => Registered(g)
        BY <1>1, <1>3, <2>1, <2>7, <3>1, RestoreFrame
      <3>3. Safe' /\ Sources'
        BY <1>1, <2>1, <2>7 DEF undoing, MoveInv, Safe, Sources, Complete, Exists, InScope, Undoable
      <3>4. \A g : Sibling(g)' = Sibling(g)
        BY <2>7 DEF Sibling
      <3>5. Journal'
        BY <1>1, <2>1, <3>2, <3>4, RestoreJournal
      <3>6. Untouched'
        BY <2>1, <2>7 DEF Untouched, Active, Rewriting, Copying
      <3>7. QED
        BY <2>1, <3>2, <3>3, <3>5, <3>6, Running DEF MoveInv
    <2>8. QED
      BY <1>3, <2>2, <2>4, <2>5, <2>6, <2>7
  <1>4. QED
    BY <1>1, <1>2, <1>3 DEF Restore

-----------------------------------------------------------------------------
(* The invariant *)

LEMMA UserClearsStep == MoveInv /\ (\E k \in Moved : UserClearsStaging(k)) => MoveInv'
  <1> SUFFICES ASSUME MoveInv, NEW K \in Moved, UserClearsStaging(K) PROVE MoveInv'
    OBVIOUS
  <1>1. /\ pc = "over" /\ outcome = "failed"
        /\ disk' = [disk EXCEPT ![K]["staging"] = NoDir]
        /\ UNCHANGED <<refsOnly, pc, at, kind, undo, promoted, outcome, advice, fault, spoiled,
                       residual, before, runs>>
    BY DEF UserClearsStaging
  <1>2. DirAt(K, "staging", NoDir)
    BY <1>1, DirIsSet, Sets DEF MoveInv
  <1>3. /\ disk' \in DiskType
        /\ \A k \in Kinds : disk'[k]["old"] = disk[k]["old"] /\ disk'[k]["new"] = disk[k]["new"]
        /\ \A k \in Kinds : disk'[k]["staging"] \in {NoDir, disk[k]["staging"]}
    BY <1>2, Sets DEF DirAt
  <1>4. Typed'
    BY <1>1, <1>3 DEF MoveInv, Typed
  <1>5. Positions' /\ Busy'
    BY <1>1 DEF MoveInv, Positions, Busy, Rewriting, Copying
  <1>6. Safe'
    <2>1. \A k \in Kinds : /\ Complete(k, "old")' <=> Complete(k, "old")
                           /\ Complete(k, "new")' <=> Complete(k, "new")
      BY <1>3 DEF Complete, Exists
    <2>2. QED
      BY <2>1, Sets DEF MoveInv, Safe
  <1>7. Destinations' /\ Progress'
    BY <1>1 DEF Destinations, Progress, Active, Rewriting, Copying, Finishing
  <1>8. SuccessMovesAll' /\ StagingStops'
    BY <1>1 DEF MoveInv, SuccessMovesAll, StagingStops, Obstacle
  <1>9. FailureRollsBack'
    <2> SUFFICES ASSUME ~spoiled, NEW k \in Kinds
                 PROVE  /\ SameFiles(k, "old")' /\ SameFiles(k, "new")'
                        /\ disk'[k]["staging"] \in {NoDir, before[k]["staging"]}
                        /\ Exists(k, "old")' =>
                             \A f \in Files : disk'[k]["old"].sibling[f] \in {"none", before[k]["old"].sibling[f]}
      BY <1>1 DEF FailureRollsBack
    <2>1. /\ SameFiles(k, "old") /\ SameFiles(k, "new")
          /\ disk[k]["staging"] \in {NoDir, before[k]["staging"]}
          /\ Exists(k, "old") =>
               \A f \in Files : disk[k]["old"].sibling[f] \in {"none", before[k]["old"].sibling[f]}
      BY <1>1 DEF MoveInv, FailureRollsBack
    <2>2. SameFiles(k, "old")' /\ SameFiles(k, "new")'
      BY <1>1, <1>3, <2>1 DEF SameFiles, Exists
    <2>3. QED
      BY <1>3, <2>1, <2>2 DEF Exists
  <1>10. QED
    BY <1>1, <1>4, <1>5, <1>6, <1>7, <1>8, <1>9, PastUndoing DEF MoveInv

LEMMA Stutter == MoveInv /\ UNCHANGED vars => MoveInv'
  <1> SUFFICES ASSUME MoveInv, UNCHANGED vars PROVE MoveInv'
    OBVIOUS
  <1> USE DEF vars
  <1>1. \A f : Registered(f)' <=> Registered(f)
    BY DEF Registered, Live, File
  <1>2. \A k : Started(k)' <=> Started(k)
    BY DEF Started, Live, Promotion
  <1>3. Typed' /\ Positions'
    BY DEF MoveInv, Typed, Positions
  <1>4. Busy'
    BY <1>1, <1>2 DEF MoveInv, Busy, InScope, Text, Exists
  <1>5. Safe' /\ Sources' /\ Destinations'
    BY DEF MoveInv, Safe, Sources, Destinations, Complete, Exists, InScope
  <1>6. Journal'
    BY <1>1 DEF MoveInv, Journal, Sibling, Text
  <1>7. Untouched'
    <2> SUFFICES ASSUME pc \in Active \/ (pc = "restore" /\ ~spoiled), NEW k \in Kinds
                 PROVE  OldAsFound(k)' /\ NewAsFound(k)'
      BY DEF Untouched
    <2>1. OldAsFound(k) /\ NewAsFound(k)
      BY DEF MoveInv, Untouched
    <2>2. OldAsFound(k)'
      BY <1>1, <2>1 DEF OldAsFound, Changed, Exists
    <2>3. NewAsFound(k)'
      BY <1>2, <2>1 DEF NewAsFound
    <2>4. QED
      BY <2>2, <2>3
  <1>8. Progress' /\ Cause'
    BY DEF MoveInv, Progress, Cause, Landed, Text, Exists, Obstacle
  <1>9. FailureRollsBack' /\ SuccessMovesAll' /\ StagingStops'
    BY DEF MoveInv, FailureRollsBack, SuccessMovesAll, StagingStops, Obstacle, SameFiles, Whole, Exists
  <1>10. QED
    BY <1>3, <1>4, <1>5, <1>6, <1>7, <1>8, <1>9 DEF MoveInv

LEMMA Inductive == MoveInv /\ [Next]_vars => MoveInv'
  BY BeginStep, KillStep, ReplaceStep, SnapshotStep, WriteStep, StagingStep, PromoteStep, CopyStep,
     VerifyStep, RemoveStep, CleanupStep, RestoreStep, UserClearsStep, Stutter DEF Next

\* Claude knows the project at its old path, and the user has it somewhere.
LEMMA Beginning == Init => MoveInv
  <1> SUFFICES ASSUME Init PROVE MoveInv
    OBVIOUS
  <1>1. /\ refsOnly \in BOOLEAN /\ pc = "over" /\ at = 0 /\ kind = "encoded"
        /\ undo = <<>> /\ promoted = {} /\ outcome = "none" /\ advice = "none"
        /\ fault = FALSE /\ spoiled = FALSE /\ residual = FALSE /\ before = disk /\ runs = 0
    BY DEF Init
  <1>2. PICK place \in {"old", "new"} :
          disk = [k \in Kinds |-> CASE k = "home" -> At("old", With(Home))
                                    [] k = "encoded" -> At("old", With(Inside \cup Kept))
                                    [] k = "project" -> At(place, With(Project))]
    BY DEF Init
  <1>3. ASSUME NEW S \in SUBSET Files
        PROVE  /\ With(S) \in Dir /\ With(S) # NoDir
               /\ \A f \in S : With(S).file[f] = "old"
    <2>1. With(S) \in Dir /\ \A f \in S : With(S).file[f] = "old"
      BY <1>3 DEF With, Empty, Dir, Bodies
    <2>2. QED
      BY <2>1, NoDirAssumption
  <1>4. /\ Home \in SUBSET Files /\ (Inside \cup Kept) \in SUBSET Files /\ Project \in SUBSET Files
        /\ place \in Places
    BY <1>2 DEF Files, Places
  <1>5. /\ disk["home"] = At("old", With(Home)) /\ disk["encoded"] = At("old", With(Inside \cup Kept))
        /\ disk["project"] = At(place, With(Project))
    BY <1>2 DEF Kinds, Moved
  <1>6. ASSUME NEW p \in Places, NEW d \in Dir
        PROVE  At(p, d) \in [Places -> Dir \cup {NoDir}] /\ At(p, d)[p] = d
    BY <1>6 DEF At
  <1>7. disk \in DiskType
    <2>1. \A k \in Kinds : disk[k] \in [Places -> Dir \cup {NoDir}]
      BY <1>3, <1>4, <1>5, <1>6 DEF Kinds, Moved, Places
    <2>2. QED
      BY <1>2, <2>1 DEF DiskType
  <1>8. Complete("home", "old") /\ Complete("encoded", "old") /\ Complete("project", place)
    <2>1. /\ disk["home"]["old"] = With(Home) /\ disk["encoded"]["old"] = With(Inside \cup Kept)
          /\ disk["project"][place] = With(Project)
      BY <1>3, <1>4, <1>5, <1>6, Sets
    <2>2. QED
      BY <1>3, <1>4, <2>1 DEF Complete, Exists, Contents
  <1>9. Safe
    BY <1>2, <1>8, Sets DEF Safe
  <1>10. Typed
    <2>1. Len(undo) = 0 /\ undo \in Seq(Undo) /\ Len(Rewrites) \in Nat /\ 0 \in 0 .. MaxRuns
      BY <1>1, RewritesTyped, MaxRunsAssumption
    <2>2. kind \in Moved /\ at \in 0 .. Len(Rewrites) + 3
      BY <1>1, <2>1, Sets
    <2>3. QED
      BY <1>1, <1>7, <2>1, <2>2 DEF Typed, Control
  <1>11. Positions /\ Busy
    BY <1>1, RewritesTyped DEF Positions, Busy, Rewriting, Copying
  <1>12. Sources /\ Destinations /\ Journal /\ Untouched
    BY <1>1 DEF Sources, Destinations, Journal, Untouched, Undoable, Active, Rewriting, Copying, Finishing
  <1>13. Progress /\ Cause
    BY <1>1 DEF Progress, Cause, Active, Rewriting, Copying, Finishing
  <1>14. FailureRollsBack /\ SuccessMovesAll /\ StagingStops
    BY <1>1 DEF FailureRollsBack, SuccessMovesAll, StagingStops
  <1>15. QED
    BY <1>9, <1>10, <1>11, <1>12, <1>13, <1>14 DEF MoveInv

-----------------------------------------------------------------------------
(* Theorems *)

\* At any point of any number of runs of the move, cancelled, failed, killed or
\* run again: what the Restorer has registered can be undone, the sources are
\* complete until the destinations are, and nothing else of the disk has changed
\* (move.applyTarget, tool.Restorer, applyProjectDirectoryMove).
THEOREM Moves == Spec => []MoveInv
  BY Beginning, Inductive, PTL DEF Spec

\* However many files there are and wherever the move fails or dies, every file of
\* the project and of its encoded directory is whole in the old directory or in
\* the new one, and every file rewritten in place is whole.
THEOREM NoLoss == Spec => []NothingLost
  <1>1. MoveInv => NothingLost
    BY Sets DEF MoveInv, Safe, Complete, NothingLost, Whole
  <1>2. QED
    BY <1>1, Moves, PTL

\* A failed move whose rollback reported no error has changed nothing: files,
\* destinations, staging directories and siblings are those the run found.
THEOREM Rollbacks == Spec => []FailureRollsBack
  <1>1. MoveInv => FailureRollsBack
    BY DEF MoveInv
  <1>2. QED
    BY <1>1, Moves, PTL

\* A move that reports success has rewritten every file and has the whole of both
\* directories at their new names, whatever runs failed or died before it.
THEOREM Successes == Spec => []SuccessMovesAll
  <1>1. MoveInv => SuccessMovesAll
    BY DEF MoveInv
  <1>2. QED
    BY <1>1, Moves, PTL

-----------------------------------------------------------------------------
(* What one run leaves to the next *)

\* Nothing on this disk stops a move: no staging, no destination beside its source.
Clear(d) == \A k \in Moved : d[k]["staging"] = NoDir /\ (d[k]["old"] = NoDir \/ d[k]["new"] = NoDir)

\* Runs that are killed, that cannot undo everything or cannot remove an old
\* directory mar the disk; the others begin and end with a clear one.
LeavesClear ==
  /\ ~marred => Clear(before)
  /\ pc = "over" /\ ~marred /\ outcome # "killed" /\ ~spoiled /\ ~residual => Clear(disk)

\* A run that is not being undone has staging only while it copies, and leaves
\* alone what it does not move.
StagesToCopy ==
  pc \in Active \cup Finishing =>
    /\ ~marred => \A k \in Moved : disk[k]["staging"] # NoDir => pc = "copy" /\ kind = k
    /\ refsOnly => disk["project"] = before["project"]

Refusals ==
  pc = "over" /\ outcome = "refused" /\ obstacles = {} =>
    \E k \in Moved : before[k]["old"] # NoDir /\ before[k]["new"] # NoDir

TrailInv ==
  /\ obstacles \subseteq Obstacles /\ marred \in BOOLEAN
  /\ LeavesClear /\ StagesToCopy /\ Refusals

\* A run that goes on: the history stays, and what is left to show is the disk.
LEMMA TrailGoesOn ==
  ASSUME TrailInv, pc # "over", pc' # "over", UNCHANGED <<obstacles, refsOnly, marred, before>>,
         pc' \in Active \cup Finishing =>
           /\ pc \in Active \cup Finishing
           /\ ~marred => \A k \in Moved : disk'[k]["staging"] # NoDir => pc' = "copy" /\ kind' = k
           /\ refsOnly => disk'["project"] = disk["project"]
  PROVE  TrailInv'
  <1>1. LeavesClear'
    BY DEF TrailInv, LeavesClear, Clear
  <1>2. StagesToCopy'
    BY DEF TrailInv, StagesToCopy
  <1>3. Refusals'
    BY DEF Refusals
  <1>4. QED
    BY <1>1, <1>2, <1>3 DEF TrailInv

\* Rewriting a file leaves staging and the project alone.
LEMMA RewriteKeeps ==
  ASSUME NEW d \in DiskType, NEW f, NEW b
  PROVE  /\ SetText(d, f, b)["project"] = d["project"]
         /\ SetSibling(d, f, b)["project"] = d["project"]
         /\ \A k \in Moved : /\ SetText(d, f, b)[k]["staging"] = d[k]["staging"]
                             /\ SetSibling(d, f, b)[k]["staging"] = d[k]["staging"]
  BY KindOfTyped DEF SetText, SetSibling, DiskType, Kinds, Moved, Places

\* The steps that rewrite files, and the removal of siblings after a success.
LEMMA TrailOfFiles ==
  ASSUME MoveInv, TrailInv, Replace \/ Snapshot \/ Write
  PROVE  TrailInv'
  <1>1. /\ UNCHANGED <<obstacles, refsOnly, marred, before>>
        /\ pc \in Rewriting /\ pc' \in Rewriting \cup {"staging", "restore"}
    BY DEF Replace, ReplaceSmall, OpenSibling, Snapshot, Write, Fail, Abort, kept, Rewriting
  <1>2. \/ disk' = disk
        \/ \E f, b : disk' = SetText(disk, f, b) \/ disk' = SetSibling(disk, f, b)
    BY DEF Replace, ReplaceSmall, OpenSibling, Snapshot, Write, Written
  <1>3. disk \in DiskType
    BY DEF MoveInv, Typed
  <1>4. disk'["project"] = disk["project"] /\ \A k \in Moved : disk'[k]["staging"] = disk[k]["staging"]
    BY <1>2, <1>3, RewriteKeeps
  <1>5. ~marred => \A k \in Moved : disk[k]["staging"] = NoDir
    BY <1>1 DEF TrailInv, StagesToCopy, Active, Rewriting
  <1>6. QED
    BY <1>1, <1>4, <1>5, TrailGoesOn DEF Active, Rewriting, Copying, Finishing

\* A directory somewhere changes, and no other.
LEMMA ElsewhereStays ==
  ASSUME NEW d \in DiskType, NEW k \in Moved, NEW p \in Places, NEW x
  PROVE  /\ [d EXCEPT ![k][p] = x][k][p] = x
         /\ k # "project" => [d EXCEPT ![k][p] = x]["project"] = d["project"]
         /\ \A j \in Moved : j # k \/ p # "staging" =>
              [d EXCEPT ![k][p] = x][j]["staging"] = d[j]["staging"]
  BY DEF DiskType, Kinds, Moved, Places

\* The steps of the project-directory surface, up to the removals.
LEMMA TrailOfSurface ==
  ASSUME MoveInv, TrailInv, Staging \/ Promote \/ Copy \/ Verify
  PROVE  TrailInv'
  <1>1. /\ UNCHANGED <<obstacles, refsOnly, marred, before>>
        /\ pc \in Copying /\ pc # "over" /\ pc' \in Copying \cup {"restore", "remove"}
    BY DEF Staging, Promote, Converged, StartCopy, Copy, Verify, NextDirectory, Fail, Abort, kept, Copying
  <1>2. /\ disk \in DiskType /\ kind \in Moved
        /\ pc # "verify" /\ refsOnly => kind # "project"
    BY <1>1 DEF MoveInv, Typed, Busy, InScope, Copying
  <1>3. ~marred => \A k \in Moved : disk[k]["staging"] # NoDir => pc = "copy" /\ kind = k
    BY <1>1 DEF TrailInv, StagesToCopy, Active
  <1>4. ASSUME NEW p \in {"staging", "new"}, NEW x, disk' = [disk EXCEPT ![kind][p] = x]
        PROVE  /\ disk'[kind][p] = x
               /\ pc # "verify" /\ refsOnly => disk'["project"] = disk["project"]
               /\ \A j \in Moved : j # kind \/ p # "staging" => disk'[j]["staging"] = disk[j]["staging"]
    BY <1>2, <1>4, ElsewhereStays DEF Places
  <1> SUFFICES ASSUME pc' # "restore"
               PROVE  /\ ~marred => \A k \in Moved : disk'[k]["staging"] # NoDir => pc' = "copy" /\ kind' = k
                      /\ refsOnly => disk'["project"] = disk["project"]
    BY <1>1, TrailGoesOn DEF Active, Rewriting, Copying, Finishing
  <1>5. CASE Staging
    <2>1. pc = "staging" /\ pc' = "promote" /\ RemoveDir(kind, "staging")
      BY <1>5 DEF Staging, Fail, Abort
    <2>2. disk' = [disk EXCEPT ![kind]["staging"] = NoDir]
      BY <2>1 DEF RemoveDir
    <2>3. QED
      BY <1>2, <1>3, <1>4, <2>1, <2>2
  <1>6. CASE Promote
    <2>1. pc = "promote"
      BY <1>6 DEF Promote
    <2>2. CASE Converged
      BY <1>3, <2>1, <2>2 DEF Converged
    <2>3. CASE StartCopy
      <3>1. pc' = "copy" /\ kind' = kind /\ disk' = [disk EXCEPT ![kind]["staging"] = Empty]
        BY <2>3 DEF StartCopy, Fail, Abort
      <3>2. QED
        BY <1>2, <1>3, <1>4, <2>1, <3>1
    <2>4. QED
      BY <1>6, <2>2, <2>3 DEF Promote, Fail, Abort
  <1>7. CASE Copy
    <2>1. pc = "copy"
      BY <1>7 DEF Copy
    <2>2. CASE /\ \E e \in Entries(disk[kind]["old"]) : CopyEntry(e)
               /\ UNCHANGED <<pc, kind>>
      <3>1. PICK e, body : disk' = [disk EXCEPT ![kind]["staging"] = Put(@, e, body)]
        BY <2>2 DEF CopyEntry
      <3>2. PICK x : disk' = [disk EXCEPT ![kind]["staging"] = x]
        BY <3>1
      <3>3. QED
        BY <1>2, <1>3, <1>4, <2>1, <2>2, <3>2
    <2>3. CASE /\ disk' = [disk EXCEPT ![kind]["new"] = disk[kind]["staging"],
                                       ![kind]["staging"] = NoDir]
               /\ NextDirectory
      <3>1. PICK d : d = [disk EXCEPT ![kind]["new"] = disk[kind]["staging"]]
        OBVIOUS
      <3>2. /\ d["project"] = disk["project"] \/ kind = "project"
            /\ \A j \in Moved : d[j]["staging"] = disk[j]["staging"]
            /\ d \in DiskType
        <4>1. disk[kind]["staging"] \in Dir \cup {NoDir}
          BY <1>2 DEF DiskType, Kinds, Places
        <4>2. kind \in Kinds /\ "new" \in Places
          BY <1>2 DEF Kinds, Places
        <4>3. QED
          <5>1. d \in DiskType
            BY <1>2, <3>1, <4>1, <4>2, PutDir
          <5>2. /\ kind # "project" => d["project"] = disk["project"]
                /\ \A j \in Moved : d[j]["staging"] = disk[j]["staging"]
            BY <1>2, <3>1, <4>2, ElsewhereStays
          <5>3. QED
            BY <5>1, <5>2
      <3>3. disk' = [d EXCEPT ![kind]["staging"] = NoDir]
        BY <2>3, <3>1
      <3>4. /\ disk'[kind]["staging"] = NoDir
            /\ kind # "project" => disk'["project"] = d["project"]
            /\ \A j \in Moved : j # kind => disk'[j]["staging"] = d[j]["staging"]
        <4>1. d \in DiskType /\ kind \in Moved /\ "staging" \in Places
          BY <1>2, <3>2 DEF Places
        <4> DEFINE e == [d EXCEPT ![kind]["staging"] = NoDir]
        <4>2. /\ e[kind]["staging"] = NoDir
              /\ kind # "project" => e["project"] = d["project"]
              /\ \A j \in Moved : j # kind => e[j]["staging"] = d[j]["staging"]
          BY ONLY <4>1, ElsewhereStays
        <4>3. disk' = e
          BY <3>3
        <4> HIDE DEF e
        <4>4. QED
          BY <4>2, <4>3
      <3>5. ~marred => \A k \in Moved : disk'[k]["staging"] = NoDir
        BY <1>3, <3>2, <3>4
      <3>6. refsOnly => disk'["project"] = disk["project"]
        BY <1>2, <2>1, <3>2, <3>4
      <3>7. QED
        BY <3>5, <3>6
    <2>4. QED
      BY <1>7, <2>2, <2>3 DEF Copy, Fail, Abort
  <1>8. CASE Verify
    BY <1>3, <1>8 DEF Verify, Fail, Abort
  <1>9. QED
    BY <1>5, <1>6, <1>7, <1>8

\* The removals leave staging alone, and what they do not move.
LEMMA TrailOfRemove ==
  ASSUME MoveInv, TrailInv, Remove
  PROVE  TrailInv'
  <1>1. /\ UNCHANGED <<obstacles, refsOnly, marred, before>>
        /\ pc = "remove" /\ pc' \in {"remove", "cleanup"}
    BY DEF Remove, AfterRemoval
  <1>2. /\ disk \in DiskType /\ kind \in Moved
        /\ refsOnly => kind # "project"
    BY <1>1 DEF MoveInv, Typed, Busy, InScope
  <1>3. disk' = disk \/ \E x : disk' = [disk EXCEPT ![kind]["old"] = x]
    <2>1. CASE RemoveEntry(kind, "old")
      <3>1. PICK e : disk' = [disk EXCEPT ![kind]["old"] = Put(@, e, "none")]
        BY <2>1 DEF RemoveEntry
      <3>2. QED
        BY <3>1
    <2>2. QED
      BY <2>1 DEF Remove, RemoveDir
  <1>4. /\ \A j \in Moved : disk'[j]["staging"] = disk[j]["staging"]
        /\ refsOnly => disk'["project"] = disk["project"]
    <2>1. ASSUME NEW x, disk' = [disk EXCEPT ![kind]["old"] = x]
          PROVE  /\ \A j \in Moved : disk'[j]["staging"] = disk[j]["staging"]
                 /\ kind # "project" => disk'["project"] = disk["project"]
      <3>1. "old" \in Places /\ "old" # "staging"
        BY DEF Places
      <3>2. QED
        BY <1>2, <2>1, <3>1, ElsewhereStays
    <2>2. QED
      BY <1>2, <1>3, <2>1
  <1>5. ~marred => \A k \in Moved : disk[k]["staging"] = NoDir
    BY <1>1 DEF TrailInv, StagesToCopy, Finishing
  <1>6. QED
    BY <1>1, <1>4, <1>5, TrailGoesOn DEF Finishing

\* A success that could remove the old directories leaves a clear disk.
LEMMA TrailOfCleanup ==
  ASSUME MoveInv, TrailInv, Cleanup
  PROVE  TrailInv'
  <1>1. /\ UNCHANGED <<obstacles, refsOnly, marred, before, residual, spoiled>>
        /\ pc = "cleanup" /\ disk \in DiskType
    BY DEF Cleanup, MoveInv, Typed
  <1>2. ~marred => \A k \in Moved : disk[k]["staging"] = NoDir
    BY <1>1 DEF TrailInv, StagesToCopy, Finishing
  <1>3. CASE pc' = pc
    <2>1. disk' = disk \/ \E f : disk' = SetSibling(disk, f, "none")
      BY <1>1, <1>3 DEF Cleanup, End
    <2>2. disk'["project"] = disk["project"] /\ \A k \in Moved : disk'[k]["staging"] = disk[k]["staging"]
      BY <1>1, <2>1, RewriteKeeps
    <2>3. QED
      BY <1>1, <1>2, <1>3, <2>2, TrailGoesOn DEF Finishing
  <1>4. CASE pc' # pc
    <2>1. pc' = "over" /\ outcome' = "ok" /\ disk' = disk
      BY <1>4 DEF Cleanup, End
    <2>2. ASSUME ~marred, ~residual PROVE Clear(disk)
      <3>1. /\ disk["encoded"]["old"] = NoDir
            /\ refsOnly \/ disk["project"]["old"] = NoDir
        BY <1>1, <2>2 DEF MoveInv, Progress, Exists
      <3>2. refsOnly => disk["project"]["old"] = NoDir \/ disk["project"]["new"] = NoDir
        BY <1>1, <2>2 DEF TrailInv, LeavesClear, StagesToCopy, Clear, Moved, Finishing
      <3>3. QED
        BY <1>2, <2>2, <3>1, <3>2 DEF Clear, Moved
    <2>3. LeavesClear'
      BY <1>1, <2>1, <2>2 DEF TrailInv, LeavesClear
    <2>4. StagesToCopy' /\ Refusals'
      BY <2>1 DEF StagesToCopy, Refusals, Active, Rewriting, Copying, Finishing
    <2>5. QED
      BY <1>1, <2>3, <2>4 DEF TrailInv
  <1>5. QED
    BY <1>3, <1>4

\* A failure that was undone leaves the disk it found.
LEMMA TrailOfRestore ==
  ASSUME MoveInv', TrailInv, Restore
  PROVE  TrailInv'
  <1>1. UNCHANGED <<obstacles, refsOnly, marred, before, residual>> /\ pc = "restore"
    BY DEF Restore
  <1>2. CASE pc' = pc
    BY <1>1, <1>2, TrailGoesOn DEF Active, Rewriting, Copying, Finishing
  <1>3. CASE pc' # pc
    <2>1. pc' = "over" /\ outcome' = "failed"
      BY <1>3 DEF Restore, End
    <2>2. ASSUME ~marred', ~spoiled' PROVE Clear(disk')
      <3>1. Clear(before')
        BY <1>1, <2>2 DEF TrailInv, LeavesClear
      <3>2. ASSUME NEW k \in Kinds
            PROVE  /\ disk'[k]["staging"] \in {NoDir, before'[k]["staging"]}
                   /\ before'[k]["old"] = NoDir => disk'[k]["old"] = NoDir
                   /\ before'[k]["new"] = NoDir => disk'[k]["new"] = NoDir
        BY <2>1, <2>2 DEF MoveInv, FailureRollsBack, SameFiles
      <3>3. QED
        BY <3>1, <3>2, Sets DEF Clear
    <2>3. LeavesClear'
      BY <1>1, <2>2 DEF TrailInv, LeavesClear
    <2>4. StagesToCopy' /\ Refusals'
      BY <2>1 DEF StagesToCopy, Refusals, Active, Rewriting, Copying, Finishing
    <2>5. QED
      BY <1>1, <2>3, <2>4 DEF TrailInv
  <1>4. QED
    BY <1>2, <1>3

\* A run that begins finds a clear disk, unless one before it was marred.
LEMMA TrailOfBegin ==
  ASSUME TrailInv, marred \in BOOLEAN, Begin
  PROVE  TrailInv'
  <1>1. /\ UNCHANGED <<disk, refsOnly>> /\ before' = disk /\ pc = "over"
        /\ marred' = (marred \/ outcome = "killed" \/ spoiled \/ residual)
        /\ obstacles' \subseteq Obstacles
    BY DEF Begin, Obstructs
  <1>2. ~marred' => Clear(disk)
    BY <1>1 DEF TrailInv, LeavesClear
  <1>3. LeavesClear'
    BY <1>1, <1>2 DEF LeavesClear
  <1>4. StagesToCopy'
    BY <1>1, <1>2 DEF StagesToCopy, Clear
  <1>5. Refusals'
    <2>1. ASSUME outcome' = "refused", obstacles' = {}
          PROVE  \E k \in Moved : Collides(k)
      BY <2>1 DEF Begin, End, Refuse, Moved
    <2>2. QED
      BY <1>1, <2>1 DEF Refusals, Collides, Exists
  <1>6. marred' \in BOOLEAN
    BY <1>1
  <1>7. QED
    BY <1>1, <1>3, <1>4, <1>5, <1>6 DEF TrailInv

\* A kill mars the disk; the user only takes staging away.
LEMMA TrailOfOthers ==
  ASSUME MoveInv, TrailInv, Kill \/ (\E k \in Moved : UserClearsStaging(k)) \/ UNCHANGED vars
  PROVE  TrailInv'
  <1>1. CASE Kill
    <2>1. pc' = "over" /\ outcome' = "killed" /\ UNCHANGED <<obstacles, marred, before>>
      BY <1>1 DEF Kill, End
    <2>2. QED
      BY <2>1 DEF TrailInv, LeavesClear, StagesToCopy, Refusals, Active, Rewriting, Copying, Finishing
  <1>2. ASSUME NEW K \in Moved, UserClearsStaging(K) PROVE TrailInv'
    <2>1. /\ pc = "over" /\ UNCHANGED <<obstacles, marred, before, pc, outcome, spoiled, residual>>
          /\ disk' = [disk EXCEPT ![K]["staging"] = NoDir]
      BY <1>2 DEF UserClearsStaging
    <2>2. DirAt(K, "staging", NoDir)
      BY <2>1, DirIsSet, Sets DEF MoveInv
    <2>3. Clear(disk) => Clear(disk')
      BY <2>2, Sets DEF Clear, DirAt
    <2>4. QED
      BY <2>1, <2>3 DEF TrailInv, LeavesClear, StagesToCopy, Refusals, Active, Rewriting, Copying, Finishing
  <1>3. CASE UNCHANGED vars
    BY <1>3 DEF vars, TrailInv, LeavesClear, StagesToCopy, Refusals, Clear
  <1>4. QED
    BY <1>1, <1>2, <1>3

\* In any number of runs, only a marred one leaves staging, or a destination
\* beside its source, to the next (tool.Restorer, applyProjectDirectoryMove).
THEOREM Trails == Spec => []TrailInv
  <1>1. Init => TrailInv
    <2> SUFFICES ASSUME Init PROVE TrailInv
      OBVIOUS
    <2>1. /\ obstacles \subseteq Obstacles /\ marred = FALSE /\ before = disk
          /\ pc = "over" /\ outcome = "none"
      BY DEF Init, Obstacles
    <2>2. Clear(disk)
      <3>1. PICK place \in {"old", "new"} :
              disk = [k \in Kinds |-> CASE k = "home" -> At("old", With(Home))
                                        [] k = "encoded" -> At("old", With(Inside \cup Kept))
                                        [] k = "project" -> At(place, With(Project))]
        BY DEF Init
      <3>2. /\ disk["encoded"] = At("old", With(Inside \cup Kept))
            /\ disk["project"] = At(place, With(Project))
        BY <3>1 DEF Kinds, Moved
      <3>3. \A d : \A p \in {"old", "new"} :
              At(p, d)["staging"] = NoDir /\ (At(p, d)["old"] = NoDir \/ At(p, d)["new"] = NoDir)
        BY DEF At, Places
      <3>4. \A k \in Moved : \E p \in {"old", "new"} : \E d : disk[k] = At(p, d)
        BY <3>2 DEF Moved
      <3>5. QED
        BY <3>3, <3>4 DEF Clear
    <2>3. QED
      BY <2>1, <2>2 DEF TrailInv, LeavesClear, StagesToCopy, Refusals, Active, Rewriting, Copying, Finishing
  <1>2. MoveInv /\ TrailInv /\ [Next]_vars => TrailInv'
    <2> SUFFICES ASSUME MoveInv, TrailInv, [Next]_vars PROVE TrailInv'
      OBVIOUS
    <2>1. MoveInv'
      BY Inductive
    <2>2. marred \in BOOLEAN
      BY DEF TrailInv
    <2>3. QED
      BY <2>1, <2>2, TrailOfFiles, TrailOfSurface, TrailOfRemove, TrailOfCleanup, TrailOfRestore,
         TrailOfBegin, TrailOfOthers DEF Next
  <1>3. QED
    BY <1>1, <1>2, Moves, PTL DEF Spec

\* The variables of a move stay in the sets they are declared for.
THEOREM Typing == Spec => []TypeOK
  <1>1. MoveInv /\ TrailInv => TypeOK
    BY DEF MoveInv, Typed, TrailInv, TypeOK, DiskType
  <1>2. QED
    BY <1>1, Moves, Trails, PTL

\* Nothing but a fault, an obstacle or what an earlier run marred stops a move,
\* in any number of runs over any files: one that was undone or that succeeded
\* leaves neither staging nor a destination beside its source, and a sibling
\* stops nobody (removeStagingDir, classifyDestination, registerSibling).
THEOREM Causes == Spec => []FailureHasCause
  <1>1. MoveInv /\ TrailInv => FailureHasCause
    BY DEF MoveInv, StagingStops, Obstacle, TrailInv, LeavesClear, Clear, Refusals, FailureHasCause
  <1>2. QED
    BY <1>1, Moves, Trails, PTL
=============================================================================
