-------------------------- MODULE CodexMove_proofs --------------------------
(***************************************************************************)
(* Proofs about CodexMove, for any families of databases, session logs,    *)
(* memory worktrees and number of runs.  The inductive invariant says, for *)
(* each place of a run, what the plan still knows of the old path, which   *)
(* databases have a transaction that will rewrite it, which files are done *)
(* and which registrations of the Restorer would take the disk back to     *)
(* what it was when the apply began.                                       *)
(***************************************************************************)
EXTENDS CodexMove, FiniteSetTheorems, SequenceTheorems, TLAPS

-----------------------------------------------------------------------------
(* The inductive invariant *)

Opening == {"state", "memories", "queue"}
AfterRoots == {"market", "commit", "discard"}
AfterRollouts == {"reconcile", "worktree", "baseline"} \cup AfterRoots
AfterConfig == {"rollouts"} \cup AfterRollouts
Uncommitted == Opening \cup {"config", "rollouts", "reconcile", "worktree", "baseline", "market"}
Applying == Uncommitted \cup {"commit", "discard"}

BeforeTyped ==
  before \in [db : [Databases -> Paths], text : [Texts -> Paths], trust : SUBSET Key,
              git : [Worktrees -> Git], backup : [Worktrees -> Git \ {"remote"}]]

Places ==
  /\ pc \in {"over", "planned"} \cup Opening \cup {"config"} => undo = <<>>
  /\ pc \in {"over", "planned", "restore"} => writes = {}
  /\ pc \in Opening \cup {"reconcile", "commit", "discard"} => at >= 1
  /\ pc \in {"worktree", "baseline"} => at \in DOMAIN Roots
  /\ pc = "restore" => at <= Len(undo)

Shape == TypeOK /\ BeforeTyped /\ Places

\* What the history variables remember of one run.
Remembered ==
  /\ ~drift => late = {}
  /\ anchor = "state" => ~drift
  /\ pc \in {"planned"} \cup Applying => ~spoiled
  /\ pc \in Applying => ~dev

\* The plan names everything of the old path that it could see.
PlanKnows ==
  /\ pc \in {"planned"} \cup Opening =>
       /\ \A d \in there \ late : d \in plan.dbs /\ db[d] = "old" => d \in plan.rows
       /\ ~drift => /\ plan.dbs = InFamily("state") \cup InFamily("queue")
                    /\ \A d \in plan.rows : db[d] = "old"
  /\ pc \in {"planned", "config", "rollouts"} \cup Opening =>
       \A f \in Rollouts \ late : text[f] = "old" => f \in plan.rollouts
  /\ pc \in {"planned", "config"} \cup Opening => plan.keys = OldKeys

\* A place of a family that the run has passed.
Opened(k, i) ==
  \/ pc = k /\ i < at
  \/ k = "state" /\ pc \in {"memories", "queue"}
  \/ k = "memories" /\ pc = "queue"
  \/ pc \in Applying \ Opening

\* Every database passed that has the old path will have the new one.
Databased ==
  /\ \A k \in Families : \A i \in DOMAIN Family[k] :
       Opened(k, i) /\ Family[k][i] \in there \ late /\ db[Family[k][i]] = "old" => Family[k][i] \in writes
  /\ pc \in Applying => \A d \in writes : before.db[d] = "old"
  /\ pc \in Uncommitted => db = before.db
  /\ pc = "commit" => \A i \in DOMAIN CommitOrder :
       IF i < at /\ CommitOrder[i] \in writes THEN db[CommitOrder[i]] = "new"
       ELSE db[CommitOrder[i]] = before.db[CommitOrder[i]]
  /\ pc = "discard" => \A d \in there \ late : db[d] # "old"

Visited(i) ==
  \/ pc \in AfterRoots
  \/ pc \in {"reconcile", "worktree", "baseline"} /\ i < at
  \/ pc = "baseline" /\ i = at

\* The files that the run has passed have no old path, and the worktrees no
\* baseline of it.
Filed ==
  /\ pc \in AfterConfig => OldKeys = {}
  /\ pc \in AfterRollouts => \A f \in Rollouts \ late : text[f] # "old"
  /\ \A i \in DOMAIN Roots : Visited(i) => text[Roots[i]] # "old"
  /\ pc \in {"commit", "discard"} => text[Market] # "old"
  /\ pc \in {"worktree", "baseline"} => backup[Roots[at]] = "none"
  /\ \A i \in DOMAIN Roots :
       Visited(i) /\ ~(pc = "baseline" /\ i = at) /\ text[Roots[i]] = "new" =>
         git[Roots[i]] \in {"none", "remote"}

\* The registrations that the Restorer would still undo.
Live == IF pc = "restore" THEN at ELSE Len(undo)
Registered(u) == \E i \in 1 .. Live : undo[i] = u
TextUndo(f) == [what |-> "text", of |-> f]
GitUndo(r) == [what |-> "git", of |-> r]
TrustUndo == [what |-> "trust"]

\* A worktree's git directories as the apply found them, or as a rename left them.
Untouched(r) == git[r] = before.git[r] /\ backup[r] \in {"none", before.backup[r]}
SetAsideBoth(r) ==
  \/ backup[r] = before.git[r] /\ git[r] = "none"
  \/ backup[r] = "none" /\ git[r] = before.git[r]

\* What is not as the apply found it is registered, and its undo would restore it.
Restorable ==
  pc \in Uncommitted \cup {"commit", "restore"} /\ ~spoiled =>
    /\ \A f \in Texts : text[f] = before.text[f] \/ Registered(TextUndo(f))
    /\ \A f \in Texts : Registered(TextUndo(f)) => before.text[f] = "old"
    /\ trust = before.trust \/ Registered(TrustUndo)
    /\ \A r \in Worktrees : IF Registered(GitUndo(r)) THEN SetAsideBoth(r) ELSE Untouched(r)

\* The baselines set aside are of worktrees that the run has passed.
SetAsides ==
  pc \in Applying => \A r \in Worktrees : Registered(GitUndo(r)) =>
    pc \in AfterRollouts /\ (pc \in AfterRoots \/ \E i \in DOMAIN Roots : i < at /\ Roots[i] = r)

\* A state database has the new path only when no other has the old one.
StateLast ==
  (\E d \in InFamily("state") : db[d] # before.db[d]) =>
    \A d \in (InFamily("memories") \cup InFamily("queue")) \ late : db[d] # "old"

RestoresStateLast == pc = "restore" => StateLast

Anchored ==
  anchor = "state" =>
    /\ pc \in {"over", "planned"} => KnownByState \/ Old = {}
    /\ pc = "planned" /\ ~dev => KnownByState
    /\ pc \in Uncommitted \cup {"commit"} => \E d \in InFamily("state") : before.db[d] = "old"
    /\ pc = "restore" => KnownByState \/ (undo = <<>> /\ Old = {})

Caused ==
  pc = "restore" /\ ~fault => dev \/ drift \/ Cardinality(before.trust) > 1

\* What holds of the end of a run.
Ends == SuccessMovesAll /\ NoStaleBaseline /\ FailureRollsBack /\ FailureHasCause

IInv ==
  /\ Shape /\ Remembered
  /\ PlanKnows /\ Databased /\ Filed
  /\ Restorable /\ SetAsides /\ RestoresStateLast
  /\ Anchored /\ Caused /\ Ends

-----------------------------------------------------------------------------
(* Lemmas about the model's operators *)

\* A database found at a place of a family is of that family (discoverDatabases).
LEMMA PlaceFamily ==
  ASSUME NEW k \in Families, NEW i \in DOMAIN Family[k]
  PROVE  Family[k][i] \in Databases /\ FamilyOf(Family[k][i]) = k
<1>1. Family[k][i] \in Databases
  BY DEF Databases
<1>2. \E l \in Families : \E j \in DOMAIN Family[l] : Family[l][j] = Family[k][i]
  OBVIOUS
<1>3. \A l \in Families : (\E j \in DOMAIN Family[l] : Family[l][j] = Family[k][i]) => l = k
  BY FamilyAssumption
<1>4. QED
  BY <1>1, <1>2, <1>3 DEF FamilyOf

\* Every database has a place in its family.
LEMMA FamilyPlace ==
  ASSUME NEW d \in Databases
  PROVE  FamilyOf(d) \in Families /\ \E i \in DOMAIN Family[FamilyOf(d)] : Family[FamilyOf(d)][i] = d
<1>1. \E k \in Families : \E i \in DOMAIN Family[k] : Family[k][i] = d
  BY DEF Databases
<1>2. QED
  BY <1>1 DEF FamilyOf

\* Every database has exactly one turn to commit, and the state databases have
\* theirs after all others (commitSurface).
LEMMA CommitTurns ==
  /\ CommitOrder \in Seq(Databases)
  /\ \A d \in Databases : \E i \in DOMAIN CommitOrder : CommitOrder[i] = d
  /\ \A i, j \in DOMAIN CommitOrder : CommitOrder[i] = CommitOrder[j] => i = j
  /\ \A i, j \in DOMAIN CommitOrder :
       FamilyOf(CommitOrder[i]) = "state" /\ FamilyOf(CommitOrder[j]) # "state" => j < i
<1> DEFINE M == Family["memories"]
           Q == Family["queue"]
           S == Family["state"]
<1>1. M \in Seq(Databases) /\ Q \in Seq(Databases) /\ S \in Seq(Databases)
  BY FamilyAssumption DEF Families
<1>2. CommitOrder = (M \o Q) \o S
  BY DEF CommitOrder
<1>3. /\ M \o Q \in Seq(Databases)
      /\ Len(M \o Q) = Len(M) + Len(Q)
      /\ \A i \in 1 .. Len(M) + Len(Q) : (M \o Q)[i] = IF i <= Len(M) THEN M[i] ELSE Q[i - Len(M)]
  BY <1>1, ConcatProperties
<1> HIDE DEF M, Q, S
<1> DEFINE MQ == M \o Q
<1>4. /\ MQ \o S \in Seq(Databases)
      /\ Len(MQ \o S) = Len(MQ) + Len(S)
      /\ \A i \in 1 .. Len(MQ) + Len(S) : (MQ \o S)[i] = IF i <= Len(MQ) THEN MQ[i] ELSE S[i - Len(MQ)]
  <2> MQ \in Seq(Databases)
    BY <1>3
  <2> HIDE DEF MQ
  <2> QED
    BY <1>1, ConcatProperties
<1>5. /\ DOMAIN CommitOrder = 1 .. Len(M) + Len(Q) + Len(S)
      /\ Len(M) \in Nat /\ Len(Q) \in Nat /\ Len(S) \in Nat
      /\ DOMAIN M = 1 .. Len(M) /\ DOMAIN Q = 1 .. Len(Q) /\ DOMAIN S = 1 .. Len(S)
  <2>1. Len(CommitOrder) = Len(M) + Len(Q) + Len(S)
    BY <1>2, <1>3, <1>4
  <2>2. CommitOrder \in Seq(Databases)
    BY <1>2, <1>4
  <2> QED
    BY <1>1, <2>1, <2>2
<1>6. \A i \in 1 .. Len(M) : CommitOrder[i] = M[i]
  BY <1>2, <1>3, <1>4, <1>5
<1>7. \A i \in 1 .. Len(Q) : CommitOrder[Len(M) + i] = Q[i]
  BY <1>2, <1>3, <1>4, <1>5
<1>8. \A i \in 1 .. Len(S) : CommitOrder[Len(M) + Len(Q) + i] = S[i]
  BY <1>2, <1>3, <1>4, <1>5
<1>9. \A i \in DOMAIN CommitOrder :
        \/ i \in 1 .. Len(M)
        \/ \E j \in 1 .. Len(Q) : i = Len(M) + j
        \/ \E j \in 1 .. Len(S) : i = Len(M) + Len(Q) + j
  <2> SUFFICES ASSUME NEW i \in DOMAIN CommitOrder,
                      ~(i \in 1 .. Len(M)), ~(\E j \in 1 .. Len(Q) : i = Len(M) + j)
               PROVE  \E j \in 1 .. Len(S) : i = Len(M) + Len(Q) + j
    OBVIOUS
  <2>1. i > Len(M) /\ i \in Nat
    BY <1>5
  <2>2. i - Len(M) \notin 1 .. Len(Q)
    BY <2>1, <1>5
  <2>3. i - Len(M) - Len(Q) \in 1 .. Len(S)
    BY <2>1, <2>2, <1>5
  <2> QED
    BY <2>3, <1>5
<1>10. "state" \in Families /\ "memories" \in Families /\ "queue" \in Families
  BY DEF Families
<1>11. /\ \A i \in 1 .. Len(M) : FamilyOf(M[i]) = "memories"
       /\ \A i \in 1 .. Len(Q) : FamilyOf(Q[i]) = "queue"
       /\ \A i \in 1 .. Len(S) : FamilyOf(S[i]) = "state"
  BY <1>5, <1>10, PlaceFamily DEF M, Q, S
<1>12. /\ \A i, j \in 1 .. Len(M) : M[i] = M[j] => i = j
       /\ \A i, j \in 1 .. Len(Q) : Q[i] = Q[j] => i = j
       /\ \A i, j \in 1 .. Len(S) : S[i] = S[j] => i = j
  BY <1>5, <1>10, FamilyAssumption DEF M, Q, S
<1>13. \A d \in Databases : \E i \in DOMAIN CommitOrder : CommitOrder[i] = d
  <2> TAKE d \in Databases
  <2>1. \/ \E i \in 1 .. Len(M) : M[i] = d
        \/ \E i \in 1 .. Len(Q) : Q[i] = d
        \/ \E i \in 1 .. Len(S) : S[i] = d
    BY <1>5 DEF Databases, Families, M, Q, S
  <2>2. \A i \in 1 .. Len(M) : i \in DOMAIN CommitOrder
    BY <1>5
  <2>3. \A i \in 1 .. Len(Q) : Len(M) + i \in DOMAIN CommitOrder
    BY <1>5
  <2>4. \A i \in 1 .. Len(S) : Len(M) + Len(Q) + i \in DOMAIN CommitOrder
    BY <1>5
  <2>5. CASE \E i \in 1 .. Len(M) : M[i] = d
    BY <2>5, <2>2, <1>6
  <2>6. CASE \E i \in 1 .. Len(Q) : Q[i] = d
    BY <2>6, <2>3, <1>7
  <2>7. CASE \E i \in 1 .. Len(S) : S[i] = d
    BY <2>7, <2>4, <1>8
  <2> QED
    BY <2>1, <2>5, <2>6, <2>7
<1>14. \A i, j \in DOMAIN CommitOrder : CommitOrder[i] = CommitOrder[j] => i = j
  BY <1>5, <1>6, <1>7, <1>8, <1>9, <1>11, <1>12
<1>15. \A i, j \in DOMAIN CommitOrder :
         FamilyOf(CommitOrder[i]) = "state" /\ FamilyOf(CommitOrder[j]) # "state" => j < i
  BY <1>5, <1>6, <1>7, <1>8, <1>9, <1>11
<1>16. QED
  BY <1>2, <1>4, <1>13, <1>14, <1>15

-----------------------------------------------------------------------------
(* Types and places *)

\* A registration is of a file, of a worktree's git, or of the config.
LEMMA UndoForms ==
  ASSUME NEW u \in Undo
  PROVE  /\ u.what \in {"text", "git", "trust"}
         /\ u.what = "text" => u.of \in Texts /\ u = TextUndo(u.of)
         /\ u.what = "git" => u.of \in Worktrees /\ u = GitUndo(u.of)
         /\ u.what = "trust" => u = TrustUndo
  BY DEF Undo, TextUndo, GitUndo, TrustUndo

\* Roots and the registrations made of them.
LEMMA RootForms ==
  /\ \A i \in DOMAIN Roots : Roots[i] \in Worktrees /\ Roots[i] \in Texts /\ GitUndo(Roots[i]) \in Undo
  /\ \A f \in Texts : TextUndo(f) \in Undo
  /\ TrustUndo \in Undo
  /\ Market \in Texts /\ Rollouts \subseteq Texts /\ Worktrees \subseteq Texts
  BY DEF Worktrees, Texts, Undo, TextUndo, GitUndo, TrustUndo

\* Goto and Abort keep the control state's type.
LEMMA ShapeAbort ==
  ASSUME Shape, Abort, undo' \in Seq(Undo), pc \in Applying \cup {"planned"}, renamed' = renamed,
         plan' = plan, outcome' = outcome, there' = there, db' = db, text' = text, trust' = trust,
         git' = git, backup' \in [Worktrees -> Git \ {"remote"}], dev' = dev, fault' \in BOOLEAN, drift' = drift, late' = late,
         spoiled' = spoiled, anchor' = anchor, runs' = runs,
         before' \in [db : [Databases -> Paths], text : [Texts -> Paths], trust : SUBSET Key,
                      git : [Worktrees -> Git], backup : [Worktrees -> Git \ {"remote"}]]
  PROVE  Shape'
<1>1. pc' = "restore" /\ at' = Len(undo') /\ writes' = {} /\ at' \in Nat
  BY DEF Abort, Goto
<1>2. TypeOK'
  BY <1>1 DEF Shape, TypeOK, Control
<1>3. BeforeTyped'
  BY DEF BeforeTyped
<1>4. Places'
  BY <1>1 DEF Places, Opening
<1>5. QED
  BY <1>2, <1>3, <1>4 DEF Shape

\* One lemma for each action: it keeps the types and the places.
LEMMA ShapeInit == ASSUME Init PROVE Shape
<1> USE DEF Init
<1>a. there \subseteq Databases
  BY StartsAssumption
<1>b. db \in [Databases -> Paths] /\ text \in [Texts -> Paths]
  BY DEF Paths
<1>c. trust \in SUBSET Key
  BY TrustsAssumption DEF Key
<1>d. git \in [Worktrees -> Git] /\ backup \in [Worktrees -> Git \ {"remote"}]
  BY DEF Git
<1>e. plan \in Plan /\ pc \in Control
  BY DEF Plan, NoPlan, Control
<1>f. anchor \in {"state", "files", "none"} /\ runs \in 0 .. MaxRuns
  BY MaxRunsAssumption
<1>g. dev \in BOOLEAN /\ fault \in BOOLEAN /\ drift \in BOOLEAN /\ spoiled \in BOOLEAN
  OBVIOUS
<1>h. undo \in Seq(Undo) /\ writes = {} /\ renamed = {} /\ at = 0 /\ outcome = "none" /\ late = {}
  OBVIOUS
<1> HIDE DEF Init
<1>1. TypeOK
  BY <1>a, <1>b, <1>c, <1>d, <1>e, <1>f, <1>g, <1>h DEF TypeOK
<1> USE DEF Init
<1>2. BeforeTyped
  BY <1>1 DEF Init, BeforeTyped, Disk, TypeOK
<1>3. Places
  BY DEF Init, Places, Opening
<1>4. QED
  BY <1>1, <1>2, <1>3 DEF Shape

LEMMA ShapeEnd ==
  ASSUME Shape, NEW why \in {"ok", "absent", "failed", "killed"}, End(why),
         there' = there, db' = db, text' = text, trust' = trust,
         git' = git, backup' = backup, dev' = dev, fault' \in BOOLEAN, drift' \in BOOLEAN,
         late' \subseteq Databases \cup Rollouts, spoiled' \in BOOLEAN, anchor' = anchor,
         runs' \in 0 .. MaxRuns, BeforeTyped'
  PROVE  Shape'
<1>1. pc' = "over" /\ at' = 0 /\ writes' = {} /\ undo' = <<>> /\ renamed' = {} /\ plan' = NoPlan
      /\ outcome' = why
  BY DEF End, Goto
<1>2. TypeOK'
  BY <1>1 DEF Shape, TypeOK, Control, Plan, NoPlan
<1>3. Places'
  BY <1>1 DEF Places, Opening
<1>4. QED
  BY <1>2, <1>3 DEF Shape

LEMMA ShapeBegin == ASSUME Shape, Begin PROVE Shape'
<1> USE DEF Begin, disk
<1>1. BeforeTyped'
  BY DEF Shape, BeforeTyped, Disk, TypeOK
<1>2. runs' \in 0 .. MaxRuns /\ late' = {} /\ fault' = FALSE /\ drift' = FALSE /\ spoiled' = FALSE
  BY MaxRunsAssumption DEF Shape, TypeOK
<1>3. CASE End("absent")
  BY <1>1, <1>2, <1>3, ShapeEnd DEF Shape
<1>4. CASE /\ Goto("planned", 0) /\ outcome' = "none"
           /\ UNCHANGED <<writes, undo, renamed>>
           /\ plan' = [dbs |-> InFamily("state") \cup InFamily("queue"),
                       rows |-> {d \in InFamily("state") \cup InFamily("queue") : db[d] = "old"},
                       keys |-> OldKeys,
                       rollouts |-> {f \in Rollouts : text[f] = "old"}]
  <2>1. plan' \in Plan
    BY <1>4 DEF Shape, TypeOK, Plan, InFamily, OldKeys
  <2>2. TypeOK'
    BY <1>2, <1>4, <2>1 DEF Shape, TypeOK, Control, Goto
  <2>3. Places'
    BY <1>4 DEF Shape, Places, Opening, Goto
  <2>4. QED
    BY <1>1, <2>2, <2>3 DEF Shape
<1>5. QED
  BY <1>3, <1>4

LEMMA ShapeKill == ASSUME Shape, Kill PROVE Shape'
<1>1. BeforeTyped'
  BY DEF Shape, BeforeTyped, Kill, history
<1>2. QED
  BY <1>1, ShapeEnd DEF Kill, disk, history, Shape, TypeOK

LEMMA ShapeApply == ASSUME Shape, Apply PROVE Shape'
<1> USE DEF Apply, disk
<1>1. before' \in [db : [Databases -> Paths], text : [Texts -> Paths], trust : SUBSET Key,
                   git : [Worktrees -> Git], backup : [Worktrees -> Git \ {"remote"}]]
  BY DEF Disk, Shape, TypeOK
<1>2. CASE dev /\ UNCHANGED undo /\ Abort
  BY <1>1, <1>2, ShapeAbort DEF Shape, TypeOK
<1>3. CASE ~dev /\ Goto("state", 1) /\ UNCHANGED <<writes, undo>>
  <2>1. TypeOK'
    BY <1>3 DEF Shape, TypeOK, Control, Goto
  <2>2. Places'
    BY <1>3 DEF Shape, Places, Opening, Goto
  <2>3. QED
    BY <1>1, <2>1, <2>2 DEF Shape, BeforeTyped
<1>4. QED
  BY <1>2, <1>3

\* One step of a family: it is abandoned, done, or one database further on.
LEMMA OpenCases ==
  ASSUME NEW k \in Opening, NEW next, OpenFamily(k, next)
  PROVE  /\ pc = k /\ undo' = undo /\ UNCHANGED <<disk, plan, renamed, kept>>
         /\ \/ Abort /\ fault' = fault /\ Drifted(k)
            \/ Abort /\ fault' = TRUE
            \/ \E i \in Discovered(k, at) : Abort /\ fault' = fault /\ Stale(Family[k][i])
            \/ /\ ~Drifted(k) /\ Discovered(k, at) = {}
               /\ Goto(next, 1) /\ writes' = writes /\ fault' = fault
            \/ \E i \in Discovered(k, at) :
                 /\ ~Drifted(k) /\ (\A j \in Discovered(k, at) : i <= j) /\ ~Stale(Family[k][i])
                 /\ writes' = IF ToWrite(Family[k][i]) THEN writes \cup {Family[k][i]} ELSE writes
                 /\ Goto(k, i + 1) /\ fault' = fault
  BY DEF OpenFamily, Fail

LEMMA OpeningFamilies == Opening = Families
  BY DEF Opening, Families

LEMMA ShapeOpen ==
  ASSUME Shape, NEW k \in Opening, NEW next \in Opening \cup {"config"}, OpenFamily(k, next)
  PROVE  Shape'
<1>1. pc = k /\ undo' = undo /\ UNCHANGED <<disk, plan, renamed, kept>>
  BY OpenCases
<1>2. BeforeTyped'
  BY <1>1 DEF Shape, BeforeTyped, kept
<1>3. CASE Abort /\ fault' \in BOOLEAN
  BY <1>1, <1>2, <1>3, ShapeAbort DEF Shape, TypeOK, BeforeTyped, disk, kept, Applying, Uncommitted
<1>4. CASE Goto(next, 1) /\ writes' = writes /\ fault' = fault
  <2>1. TypeOK'
    BY <1>1, <1>4 DEF Shape, TypeOK, Control, Opening, Goto, disk, kept
  <2>2. Places'
    BY <1>1, <1>4 DEF Shape, Places, Opening, Goto
  <2>3. QED
    BY <1>2, <2>1, <2>2 DEF Shape
<1>5. CASE \E i \in Discovered(k, at) :
             /\ writes' = IF ToWrite(Family[k][i]) THEN writes \cup {Family[k][i]} ELSE writes
             /\ Goto(k, i + 1) /\ fault' = fault
  <2>1. PICK i \in Discovered(k, at) :
             /\ writes' = IF ToWrite(Family[k][i]) THEN writes \cup {Family[k][i]} ELSE writes
             /\ Goto(k, i + 1) /\ fault' = fault
    BY <1>5
  <2>2. Family[k] \in Seq(Databases) /\ i \in DOMAIN Family[k] /\ Family[k][i] \in there
    BY FamilyAssumption, OpeningFamilies DEF Discovered
  <2>3. i \in Nat /\ i >= 1
    BY <2>2
  <2>4. pc' = k /\ at' = i + 1 /\ writes' \subseteq there
    BY <2>1, <2>2 DEF Goto, Shape, TypeOK
  <2>5. TypeOK'
    BY <1>1, <2>1, <2>3, <2>4 DEF Shape, TypeOK, Control, Opening, disk, kept
  <2>6. Places'
    BY <1>1, <2>3, <2>4 DEF Shape, Places, Opening
  <2>7. QED
    BY <1>2, <2>5, <2>6 DEF Shape
<1>6. QED
  BY <1>3, <1>4, <1>5, OpenCases DEF Shape, TypeOK

\* The two ways of replacing a file: unchanged bytes are left alone.
LEMMA ReplaceCases ==
  ASSUME NEW f, Replace(f)
  PROVE  \/ /\ text[f] = "old"
            /\ text' = [text EXCEPT ![f] = "new"] /\ undo' = Append(undo, TextUndo(f))
         \/ /\ text[f] # "old"
            /\ text' = text /\ undo' = undo
  BY DEF Replace, TextUndo

\* An entry appended to the registrations is the last of them.
LEMMA Appended ==
  ASSUME NEW S, NEW s \in Seq(S), NEW u \in S
  PROVE  /\ Append(s, u) \in Seq(S)
         /\ Len(Append(s, u)) = Len(s) + 1
         /\ Append(s, u)[Len(s) + 1] = u
         /\ \A i \in 1 .. Len(s) : Append(s, u)[i] = s[i]
         /\ Len(s) \in Nat
  BY AppendProperties

LEMMA ReplaceTypes ==
  ASSUME NEW f \in Texts, text \in [Texts -> Paths], undo \in Seq(Undo), Replace(f)
  PROVE  text' \in [Texts -> Paths] /\ undo' \in Seq(Undo) /\ text'[f] # "old"
         /\ \A g \in Texts \ {f} : text'[g] = text[g]
<1>1. TextUndo(f) \in Undo
  BY RootForms
<1>2. CASE text[f] = "old" /\ text' = [text EXCEPT ![f] = "new"] /\ undo' = Append(undo, TextUndo(f))
  BY <1>1, <1>2, Appended DEF Paths
<1>3. CASE text[f] # "old" /\ text' = text /\ undo' = undo
  BY <1>3
<1>4. QED
  BY <1>2, <1>3, ReplaceCases

\* A step of a file surface moves on to a place of the surface, or gives up.
LEMMA ShapeFile ==
  ASSUME Shape, NEW label \in {"rollouts", "reconcile", "worktree", "baseline", "market", "commit"},
         NEW place \in Nat,
         Goto(label, place),
         label \in {"worktree", "baseline"} => place \in DOMAIN Roots,
         label \in {"reconcile", "commit"} => place >= 1,
         UNCHANGED <<there, db, dev, outcome, drift, late, spoiled, before, anchor, runs, writes, fault>>,
         text' \in [Texts -> Paths], trust' \in SUBSET Key, git' \in [Worktrees -> Git],
         backup' \in [Worktrees -> Git \ {"remote"}], undo' \in Seq(Undo),
         plan' \in Plan, renamed' \subseteq Worktrees
  PROVE  Shape'
<1>1. TypeOK'
  BY DEF Shape, TypeOK, Control, Goto
<1>2. BeforeTyped'
  BY DEF Shape, BeforeTyped
<1>3. Places'
  BY DEF Shape, Places, Opening, Goto
<1>4. QED
  BY <1>1, <1>2, <1>3 DEF Shape

LEMMA ShapeFail ==
  ASSUME Shape, Abort, fault' \in BOOLEAN, undo' \in Seq(Undo), pc \in Applying,
         UNCHANGED <<disk, plan, renamed, kept>>
  PROVE  Shape'
  BY ShapeAbort DEF Shape, TypeOK, BeforeTyped, disk, kept

\* A key renamed is a key.
LEMMA RenameTypes ==
  ASSUME NEW keys \in SUBSET Key, NEW matched \in Key
  PROVE  RenameKey(keys, matched) \in SUBSET Key
<1>1. \A key \in Key : Renamed(key, matched) \in Key
  BY DEF Renamed, Key
<1>2. QED
  BY <1>1 DEF RenameKey

LEMMA ShapeConfig == ASSUME Shape, Config PROVE Shape'
<1> USE DEF Config
<1>a. UNCHANGED <<there, db, text, git, backup, plan, renamed, kept>> /\ pc = "config"
  OBVIOUS
<1>b. UNCHANGED <<dev, outcome, drift, late, spoiled, before, anchor, runs>>
  BY <1>a DEF kept
<1>1. CASE plan.keys = {} /\ Goto("rollouts", 1) /\ UNCHANGED <<trust, writes, undo, fault>>
  BY <1>1, <1>a, <1>b, ShapeFile DEF Shape, TypeOK
<1>2. ASSUME NEW first \in plan.keys, NEW last \in plan.keys,
             RenameKeys(first, last) # {}, trust' = RenameKeys(first, last),
             undo' = Append(undo, TrustUndo), Goto("rollouts", 1), UNCHANGED <<writes, fault>>
      PROVE  Shape'
  <2>1. first \in Key /\ last \in Key /\ trust \in SUBSET Key
    BY DEF Shape, TypeOK, Plan
  <2>2. trust' \in SUBSET Key
    BY <1>2, <2>1, RenameTypes DEF RenameKeys
  <2>3. undo' \in Seq(Undo)
    BY <1>2, RootForms, Appended DEF Shape, TypeOK
  <2>4. QED
    BY <1>2, <1>a, <1>b, <2>2, <2>3, ShapeFile DEF Shape, TypeOK
<1>3. CASE trust' = trust /\ undo' = undo /\ Abort /\ fault' \in BOOLEAN
  BY <1>3, <1>a, ShapeFail DEF Shape, TypeOK, disk, Applying, Uncommitted
<1>4. QED
  BY <1>1, <1>2, <1>3 DEF Fail, Shape, TypeOK, TrustUndo

LEMMA ShapeRollouts == ASSUME Shape, RewriteRollouts PROVE Shape'
<1> USE DEF RewriteRollouts
<1>a. UNCHANGED <<there, db, trust, git, backup, renamed, kept>> /\ pc = "rollouts"
  OBVIOUS
<1>b. UNCHANGED <<dev, outcome, drift, late, spoiled, before, anchor, runs>>
  BY <1>a DEF kept
<1>1. ASSUME NEW f \in plan.rollouts, Replace(f), plan' = [plan EXCEPT !.rollouts = @ \ {f}],
             UNCHANGED <<pc, at, writes, fault>>
      PROVE  Shape'
  <2>1. f \in Texts
    BY RootForms DEF Shape, TypeOK, Plan
  <2>2. text' \in [Texts -> Paths] /\ undo' \in Seq(Undo)
    BY <1>1, <2>1, ReplaceTypes DEF Shape, TypeOK
  <2>3. plan' \in Plan
    BY <1>1 DEF Shape, TypeOK, Plan
  <2>4. Goto("rollouts", at) /\ at \in Nat
    BY <1>1, <1>a DEF Goto, Shape, TypeOK
  <2>5. QED
    BY <1>1, <1>a, <1>b, <2>2, <2>3, <2>4, ShapeFile DEF Shape, TypeOK
<1>2. CASE Goto("reconcile", 1) /\ UNCHANGED <<text, plan, writes, undo, fault>>
  BY <1>2, <1>a, <1>b, ShapeFile DEF Shape, TypeOK
<1>3. CASE UNCHANGED <<text, plan, undo>> /\ Fail
  BY <1>3, <1>a, ShapeFail DEF Shape, TypeOK, disk, Applying, Uncommitted, Fail
<1>4. QED
  BY <1>1, <1>2, <1>3

LEMMA ShapeReconcile == ASSUME Shape, Reconcile PROVE Shape'
<1> USE DEF Reconcile
<1>a. UNCHANGED <<there, db, text, trust, git, plan, renamed, kept>> /\ pc = "reconcile"
  OBVIOUS
<1>b. UNCHANGED <<dev, outcome, drift, late, spoiled, before, anchor, runs>>
  BY <1>a DEF kept
<1>c. at \in Nat /\ at >= 1 /\ Len(Roots) \in Nat /\ DOMAIN Roots = 1 .. Len(Roots)
  BY RootsAssumption DEF Shape, Places, TypeOK
<1>1. CASE at <= Len(Roots) /\ backup' = WithoutBackup(Roots[at]) /\ Goto("worktree", at)
           /\ UNCHANGED <<writes, undo, fault>>
  <2>1. at \in DOMAIN Roots
    BY <1>1, <1>c
  <2>2. backup' \in [Worktrees -> Git \ {"remote"}]
    BY <1>1 DEF Shape, TypeOK, WithoutBackup, Git
  <2>3. QED
    BY <1>1, <1>a, <1>b, <1>c, <2>1, <2>2, ShapeFile DEF Shape, TypeOK
<1>2. CASE Goto("market", 1) /\ UNCHANGED <<backup, writes, undo, fault>>
  BY <1>2, <1>a, <1>b, ShapeFile DEF Shape, TypeOK
<1>3. CASE UNCHANGED <<backup, undo>> /\ Fail
  BY <1>3, <1>a, ShapeFail DEF Shape, TypeOK, disk, Applying, Uncommitted, Fail
<1>4. QED
  BY <1>1, <1>2, <1>3

LEMMA ShapeWorktree == ASSUME Shape, RewriteWorktree PROVE Shape'
<1> USE DEF RewriteWorktree
<1>a. UNCHANGED <<there, db, trust, git, backup, plan, renamed, kept>> /\ pc = "worktree"
  OBVIOUS
<1>b. UNCHANGED <<dev, outcome, drift, late, spoiled, before, anchor, runs>>
  BY <1>a DEF kept
<1>c. at \in Nat /\ at \in DOMAIN Roots
  BY DEF Shape, Places, TypeOK
<1>1. CASE Replace(Roots[at]) /\ Goto("baseline", at) /\ UNCHANGED <<writes, fault>>
  <2>1. text' \in [Texts -> Paths] /\ undo' \in Seq(Undo)
    BY <1>1, <1>c, RootForms, ReplaceTypes DEF Shape, TypeOK
  <2>2. QED
    BY <1>1, <1>a, <1>b, <1>c, <2>1, ShapeFile DEF Shape, TypeOK
<1>2. CASE UNCHANGED <<text, undo>> /\ Fail
  BY <1>2, <1>a, ShapeFail DEF Shape, TypeOK, disk, Applying, Uncommitted, Fail
<1>3. QED
  BY <1>1, <1>2

LEMMA ShapeBaseline == ASSUME Shape, SetAsideBaseline PROVE Shape'
<1> USE DEF SetAsideBaseline
<1>a. UNCHANGED <<there, db, text, trust, plan, kept>> /\ pc = "baseline"
  OBVIOUS
<1>b. UNCHANGED <<dev, outcome, drift, late, spoiled, before, anchor, runs>>
  BY <1>a DEF kept
<1>c. at \in Nat /\ at \in DOMAIN Roots /\ at >= 1 /\ Roots[at] \in Worktrees
  BY RootsAssumption DEF Shape, Places, TypeOK, Worktrees
<1>d. undo \in Seq(Undo) /\ GitUndo(Roots[at]) \in Undo
  BY <1>c, RootForms DEF Shape, TypeOK
<1>e. Append(undo, GitUndo(Roots[at])) \in Seq(Undo)
  BY <1>d, Appended
<1>1. CASE Goto("reconcile", at + 1) /\ UNCHANGED <<git, backup, writes, undo, renamed, fault>>
  BY <1>1, <1>a, <1>b, <1>c, ShapeFile DEF Shape, TypeOK
<1>2. CASE /\ Outdated(Roots[at]) /\ SetAside(Roots[at])
           /\ renamed' = renamed \cup {Roots[at]}
           /\ Goto("reconcile", at + 1) /\ UNCHANGED <<writes, fault>>
  <2>1. git[Roots[at]] \in Git \ {"remote"}
    BY <1>2, <1>c DEF Outdated, Shape, TypeOK
  <2>2. git' \in [Worktrees -> Git] /\ backup' \in [Worktrees -> Git \ {"remote"}]
    BY <1>2, <2>1 DEF SetAside, Shape, TypeOK, Git
  <2>3. undo' \in Seq(Undo)
    BY <1>2, <1>e DEF SetAside, GitUndo
  <2>4. renamed' \subseteq Worktrees
    BY <1>2, <1>c DEF Shape, TypeOK
  <2>5. QED
    BY <1>2, <1>a, <1>b, <1>c, <2>2, <2>3, <2>4, ShapeFile DEF Shape, TypeOK
<1>3. CASE undo' \in Seq(Undo) /\ UNCHANGED <<git, backup, renamed>> /\ Abort /\ fault' \in BOOLEAN
  BY <1>3, <1>a, ShapeFail DEF disk, Applying, Uncommitted
<1>4. QED
  BY <1>1, <1>2, <1>3, <1>d, <1>e DEF Fail, GitUndo, Shape, TypeOK

LEMMA ShapeMarket == ASSUME Shape, RewriteMarket PROVE Shape'
<1> USE DEF RewriteMarket
<1>a. UNCHANGED <<there, db, trust, git, backup, plan, renamed, kept>> /\ pc = "market"
  OBVIOUS
<1>b. UNCHANGED <<dev, outcome, drift, late, spoiled, before, anchor, runs>>
  BY <1>a DEF kept
<1>1. CASE Replace(Market) /\ Goto("commit", 1) /\ UNCHANGED <<writes, fault>>
  <2>1. text' \in [Texts -> Paths] /\ undo' \in Seq(Undo)
    BY <1>1, RootForms, ReplaceTypes DEF Shape, TypeOK
  <2>2. QED
    BY <1>1, <1>a, <1>b, <2>1, ShapeFile DEF Shape, TypeOK
<1>2. CASE UNCHANGED <<text, undo>> /\ Fail
  BY <1>2, <1>a, ShapeFail DEF Shape, TypeOK, disk, Applying, Uncommitted, Fail
<1>3. QED
  BY <1>1, <1>2

LEMMA ShapeCommit == ASSUME Shape, Commit PROVE Shape'
<1> USE DEF Commit
<1>a. UNCHANGED <<there, text, trust, git, backup, plan, renamed, kept>> /\ pc = "commit"
  OBVIOUS
<1>b. UNCHANGED <<dev, outcome, drift, late, spoiled, before, anchor, runs>>
  BY <1>a DEF kept
<1>c. BeforeTyped'
  BY <1>b DEF Shape, BeforeTyped
<1>1. ASSUME NEW label \in {"commit", "discard"}, NEW place \in Nat, Goto(label, place), place >= 1,
             db' \in [Databases -> Paths], UNCHANGED <<writes, undo, fault>>
      PROVE  Shape'
  <2>1. TypeOK'
    BY <1>1, <1>a, <1>b DEF Shape, TypeOK, Control, Goto
  <2>2. Places'
    BY <1>1, <1>a DEF Shape, Places, Opening, Goto
  <2>3. QED
    BY <1>c, <2>1, <2>2 DEF Shape
<1>2. CASE UNCHANGED <<db, undo>> /\ Fail
  BY <1>2, <1>a, ShapeFail DEF Shape, TypeOK, disk, Applying, Fail
<1>3. at \in Nat /\ at >= 1
  BY <1>a DEF Shape, Places, TypeOK
<1>4. CASE /\ db' = IF CommitOrder[at] \in writes THEN [db EXCEPT ![CommitOrder[at]] = "new"] ELSE db
           /\ Goto("commit", at + 1) /\ UNCHANGED <<writes, undo, fault>>
  <2>1. db' \in [Databases -> Paths]
    BY <1>4 DEF Shape, TypeOK, Paths
  <2>2. QED
    BY <1>1, <1>3, <1>4, <2>1
<1>5. CASE Goto("discard", 1) /\ UNCHANGED <<db, writes, undo, fault>>
  BY <1>1, <1>5 DEF Shape, TypeOK
<1>6. QED
  BY <1>2, <1>4, <1>5

LEMMA ShapeDiscard == ASSUME Shape, Discard PROVE Shape'
<1> USE DEF Discard
<1>a. UNCHANGED <<there, db, text, trust, git, dev, history>> /\ pc = "discard"
  OBVIOUS
<1>b. BeforeTyped'
  BY <1>a DEF Shape, BeforeTyped, history
<1>1. CASE /\ Goto("discard", at + 1) /\ UNCHANGED <<memory, outcome>>
           /\ \/ Roots[at] \in renamed /\ backup' = [backup EXCEPT ![Roots[at]] = "none"]
              \/ UNCHANGED backup
  <2>1. backup' \in [Worktrees -> Git \ {"remote"}]
    BY <1>1 DEF Shape, TypeOK, Git
  <2>2. TypeOK'
    BY <1>1, <1>a, <2>1 DEF Shape, TypeOK, Control, Goto, memory, history
  <2>3. Places'
    BY <1>1, <1>a DEF Shape, Places, TypeOK, Opening, Goto, memory
  <2>4. QED
    BY <1>b, <2>2, <2>3 DEF Shape
<1>2. CASE End("ok") /\ UNCHANGED backup
  BY <1>2, <1>a, <1>b, ShapeEnd DEF Shape, TypeOK, history
<1>3. QED
  BY <1>1, <1>2

\* Undoing a registration leaves files, keys and git directories of their kind.
LEMMA UndoTypes ==
  ASSUME Shape, NEW u \in Undo, UndoOne(u)
  PROVE  /\ text' \in [Texts -> Paths] /\ trust' \in SUBSET Key
         /\ git' \in [Worktrees -> Git] /\ backup' \in [Worktrees -> Git \ {"remote"}]
<1>a. /\ text \in [Texts -> Paths] /\ trust \in SUBSET Key /\ git \in [Worktrees -> Git]
      /\ backup \in [Worktrees -> Git \ {"remote"}] /\ before.trust \in SUBSET Key
  BY DEF Shape, TypeOK, BeforeTyped
<1>1. CASE u.what = "text" /\ text' = [text EXCEPT ![u.of] = "old"] /\ UNCHANGED <<trust, git, backup>>
  BY <1>1, <1>a DEF Paths
<1>2. CASE u.what = "trust" /\ trust' = before.trust /\ UNCHANGED <<text, git, backup>>
  BY <1>2, <1>a
<1>3. CASE u.what = "git" /\ UNCHANGED <<git, backup, text, trust>>
  BY <1>3, <1>a
<1>4. CASE /\ u.what = "git" /\ UNCHANGED <<text, trust>>
           /\ git' = [git EXCEPT ![u.of] = backup[u.of]] /\ backup' = [backup EXCEPT ![u.of] = "none"]
  <2>1. u.of \in Worktrees
    BY <1>4, UndoForms
  <2>2. backup[u.of] \in Git
    BY <2>1, <1>a
  <2>3. "none" \in Git \ {"remote"}
    BY DEF Git
  <2>4. QED
    BY <1>4, <1>a, <2>2, <2>3
<1>5. QED
  BY <1>1, <1>2, <1>3, <1>4 DEF UndoOne

LEMMA ShapeRestore == ASSUME Shape, Restore PROVE Shape'
<1> USE DEF Restore
<1>a. UNCHANGED <<there, db, dev, fault, drift, late, before, anchor, runs>> /\ pc = "restore"
  OBVIOUS
<1>b. BeforeTyped'
  BY <1>a DEF Shape, BeforeTyped
<1>1. CASE /\ at > 0 /\ Goto("restore", at - 1) /\ UNCHANGED <<memory, outcome>>
           /\ \/ UndoOne(undo[at]) /\ UNCHANGED spoiled
              \/ spoiled' = TRUE /\ UNCHANGED <<text, trust, git, backup>>
  <2>1. at \in Nat /\ undo \in Seq(Undo) /\ at <= Len(undo)
    BY <1>a DEF Shape, TypeOK, Places
  <2>2. undo[at] \in Undo
    BY <1>1, <2>1
  <2>3. /\ text' \in [Texts -> Paths] /\ trust' \in SUBSET Key
        /\ git' \in [Worktrees -> Git] /\ backup' \in [Worktrees -> Git \ {"remote"}]
    BY <1>1, <2>2, UndoTypes DEF Shape, TypeOK
  <2>4. spoiled' \in BOOLEAN
    BY <1>1 DEF Shape, TypeOK
  <2>5. pc' = "restore" /\ at' = at - 1 /\ at' \in Nat /\ UNCHANGED <<plan, writes, undo, renamed, outcome>>
    BY <1>1, <2>1 DEF Goto, memory
  <2>6. TypeOK'
    BY <1>a, <2>3, <2>4, <2>5 DEF Shape, TypeOK, Control
  <2>7. Places'
    BY <1>a, <2>1, <2>5 DEF Shape, Places, Opening
  <2>8. QED
    BY <1>b, <2>6, <2>7 DEF Shape
<1>2. CASE End("failed") /\ UNCHANGED <<text, trust, git, backup, spoiled>>
  BY <1>2, <1>a, <1>b, ShapeEnd DEF Shape, TypeOK
<1>3. QED
  BY <1>1, <1>2

LEMMA ShapeBaselines == ASSUME Shape, NEW r \in Worktrees, CodexBaselines(r) PROVE Shape'
<1> USE DEF CodexBaselines, memory, history
<1>1. text[r] \in Paths
  BY DEF Shape, TypeOK, Texts
<1>2. git' \in [Worktrees -> Git]
  BY <1>1 DEF Shape, TypeOK, BaselineOf, Git, Paths
<1>3. TypeOK' /\ BeforeTyped' /\ Places'
  BY <1>2 DEF Shape, TypeOK, BeforeTyped, Places
<1>4. QED
  BY <1>3 DEF Shape

\* What Codex may have written between the plan and the lock, case by case.
LEMMA CodexCases ==
  ASSUME CodexWrites
  PROVE  /\ pc = "planned" /\ ~drift /\ drift' = TRUE /\ anchor' = "none"
         /\ UNCHANGED <<trust, git, backup, dev, pc, at, plan, writes, undo, renamed, outcome, fault,
                        spoiled, before, runs>>
         /\ \/ /\ UNCHANGED <<text, late>>
               /\ \E d \in Databases \ there : \E said \in {"none", "old"} :
                    there' = there \cup {d} /\ db' = [db EXCEPT ![d] = said]
            \/ /\ UNCHANGED <<text, late>>
               /\ \E d \in there : there' = there \ {d} /\ db' = [db EXCEPT ![d] = "none"]
            \/ /\ UNCHANGED <<text, there, late>>
               /\ \E d \in there : db' = [db EXCEPT ![d] = "none"]
            \/ /\ UNCHANGED <<text, there>>
               /\ \E d \in there : db' = [db EXCEPT ![d] = "old"] /\ late' = late \cup {d}
            \/ /\ UNCHANGED <<there, db>>
               /\ \E f \in Rollouts : text' = [text EXCEPT ![f] = "old"] /\ late' = late \cup {f}
  BY DEF CodexWrites, memory

LEMMA ShapeWrites == ASSUME Shape, CodexWrites PROVE Shape'
<1>a. UNCHANGED <<trust, git, backup, dev, pc, at, plan, writes, undo, renamed, outcome, fault,
                  spoiled, before, runs>>
      /\ pc = "planned" /\ drift' = TRUE /\ anchor' = "none" /\ writes = {}
  BY CodexCases DEF Shape, Places
<1>1. there' \subseteq Databases /\ db' \in [Databases -> Paths]
  BY CodexCases DEF Shape, TypeOK, Paths
<1>2. text' \in [Texts -> Paths]
  BY CodexCases, RootForms DEF Shape, TypeOK, Paths
<1>3. late' \subseteq Databases \cup Rollouts
  BY CodexCases DEF Shape, TypeOK
<1>4. TypeOK'
  BY <1>a, <1>1, <1>2, <1>3 DEF Shape, TypeOK
<1>5. BeforeTyped' /\ Places'
  BY <1>a DEF Shape, BeforeTyped, Places
<1>6. QED
  BY <1>4, <1>5 DEF Shape

LEMMA ShapeStutter == ASSUME Shape, UNCHANGED vars PROVE Shape'
<1> USE DEF vars, disk, memory, history
<1>1. TypeOK'
  BY DEF Shape, TypeOK
<1>2. BeforeTyped'
  BY DEF Shape, BeforeTyped
<1>3. Places'
  BY DEF Shape, Places
<1>4. QED
  BY <1>1, <1>2, <1>3 DEF Shape

LEMMA ShapeStep == ASSUME Shape, [Next]_vars PROVE Shape'
<1>1. CASE OpenDatabases
  <2>1. CASE OpenFamily("state", "memories")
    BY <2>1, ShapeOpen DEF Opening
  <2>2. CASE OpenFamily("memories", "queue")
    BY <2>2, ShapeOpen DEF Opening
  <2>3. CASE OpenFamily("queue", "config")
    BY <2>3, ShapeOpen DEF Opening
  <2>4. QED
    BY <1>1, <2>1, <2>2, <2>3 DEF OpenDatabases
<1>2. CASE Step
  BY <1>1, <1>2, ShapeApply, ShapeConfig, ShapeRollouts, ShapeReconcile, ShapeWorktree, ShapeBaseline,
     ShapeMarket, ShapeCommit, ShapeDiscard, ShapeRestore DEF Step
<1>3. CASE \E r \in Worktrees : CodexBaselines(r)
  BY <1>3, ShapeBaselines
<1>4. QED
  BY <1>2, <1>3, ShapeBegin, ShapeKill, ShapeWrites, ShapeStutter DEF Next

\* In every run each variable has a value of its kind: the databases with an
\* open transaction exist, the registrations are of files, worktrees and the
\* config, and a worktree's backup is never a git directory with a remote.
THEOREM CodexMoveTypes == Spec => []TypeOK
<1>1. Init => Shape
  BY ShapeInit
<1>2. Shape /\ [Next]_vars => Shape'
  BY ShapeStep
<1>3. Shape => TypeOK
  BY DEF Shape
<1>4. QED
  BY <1>1, <1>2, <1>3, PTL DEF Spec

-----------------------------------------------------------------------------
(* The steps, case by case *)

Opens(k, next) ==
  /\ \/ k = "state" /\ next = "memories"
     \/ k = "memories" /\ next = "queue"
     \/ k = "queue" /\ next = "config"
  /\ OpenFamily(k, next)

FilePlaces == {"config", "rollouts", "reconcile", "worktree", "baseline", "market"}
FileStep ==
  Config \/ RewriteRollouts \/ Reconcile \/ RewriteWorktree \/ SetAsideBaseline \/ RewriteMarket

LEMMA StepCases ==
  ASSUME [Next]_vars
  PROVE  \/ Begin \/ Kill \/ Apply \/ FileStep \/ Commit \/ Discard \/ Restore \/ CodexWrites
         \/ \E k, next \in Control : Opens(k, next)
         \/ \E r \in Worktrees : CodexBaselines(r)
         \/ UNCHANGED vars
<1>1. CASE OpenDatabases
  <2>1. "state" \in Control /\ "memories" \in Control /\ "queue" \in Control /\ "config" \in Control
    BY DEF Control
  <2>2. \/ Opens("state", "memories") \/ Opens("memories", "queue") \/ Opens("queue", "config")
    BY <1>1 DEF OpenDatabases, Opens
  <2>3. QED
    BY <2>1, <2>2
<1>2. QED
  BY <1>1 DEF Next, Step, FileStep

\* A surface that rewrites files leaves the databases alone and goes on to
\* files, to the commit or to the undoing.
LEMMA FileFrame ==
  ASSUME FileStep
  PROVE  /\ pc \in FilePlaces
         /\ UNCHANGED <<there, db, dev, outcome, drift, late, spoiled, before, anchor, runs>>
         /\ \/ pc' \in FilePlaces /\ writes' = writes
            \/ pc = "market" /\ pc' = "commit" /\ at' = 1 /\ writes' = writes
            \/ pc' = "restore" /\ at' = Len(undo') /\ writes' = {}
<1> USE DEF FilePlaces, kept, Fail, Abort, Goto
<1>1. CASE Config
  BY <1>1 DEF Config
<1>2. CASE RewriteRollouts
  BY <1>2 DEF RewriteRollouts
<1>3. CASE Reconcile
  BY <1>3 DEF Reconcile
<1>4. CASE RewriteWorktree
  BY <1>4 DEF RewriteWorktree
<1>5. CASE SetAsideBaseline
  BY <1>5 DEF SetAsideBaseline
<1>6. CASE RewriteMarket
  BY <1>6 DEF RewriteMarket
<1>7. QED
  BY <1>1, <1>2, <1>3, <1>4, <1>5, <1>6 DEF FileStep

LEMMA OpensFrame ==
  ASSUME NEW k, NEW next, Opens(k, next)
  PROVE  /\ k \in Opening /\ pc = k
         /\ UNCHANGED <<there, db, text, trust, git, backup, plan, undo, renamed, dev, outcome, drift,
                        late, spoiled, before, anchor, runs>>
         /\ \/ pc' = "restore" /\ at' = Len(undo') /\ writes' = {}
            \/ pc' = next /\ at' = 1 /\ writes' = writes
            \/ pc' = k
  BY OpenCases DEF Opens, Opening, disk, kept, Goto, Abort

\* The apply begins, or is refused for a reference in codex-dev.db.
LEMMA ApplyCases ==
  ASSUME Apply
  PROVE  /\ pc = "planned" /\ undo' = undo /\ before' = Disk
         /\ UNCHANGED <<there, db, text, trust, git, backup, dev, plan, renamed, outcome, fault, drift,
                        late, spoiled, anchor, runs>>
         /\ \/ dev /\ pc' = "restore" /\ at' = Len(undo') /\ writes' = {}
            \/ ~dev /\ pc' = "state" /\ at' = 1 /\ writes' = writes
  BY DEF Apply, disk, Goto, Abort

LEMMA EndFrame ==
  ASSUME NEW why, End(why)
  PROVE  pc' = "over" /\ at' = 0 /\ outcome' = why /\ plan' = NoPlan /\ writes' = {} /\ undo' = <<>>
  BY DEF End, Goto

LEMMA KillFrame ==
  ASSUME Kill
  PROVE  /\ pc # "over" /\ pc' = "over" /\ outcome' = "killed" /\ writes' = {} /\ undo' = <<>>
         /\ UNCHANGED <<there, db, text, trust, git, backup, dev, fault, drift, late, spoiled, before,
                        anchor, runs>>
  BY EndFrame DEF Kill, disk, history

LEMMA BeginCases ==
  ASSUME Begin
  PROVE  /\ pc = "over" /\ before' = Disk /\ fault' = FALSE /\ drift' = FALSE /\ late' = {}
         /\ spoiled' = FALSE
         /\ UNCHANGED <<there, db, text, trust, git, backup, dev, anchor>>
         /\ \/ ~Known /\ ~dev /\ pc' = "over" /\ outcome' = "absent" /\ undo' = <<>> /\ writes' = {}
            \/ /\ Known \/ dev
               /\ pc' = "planned" /\ at' = 0 /\ outcome' = "none" /\ UNCHANGED <<writes, undo>>
               /\ plan' = [dbs |-> InFamily("state") \cup InFamily("queue"),
                           rows |-> {d \in InFamily("state") \cup InFamily("queue") : db[d] = "old"},
                           keys |-> OldKeys,
                           rollouts |-> {f \in Rollouts : text[f] = "old"}]
  BY EndFrame DEF Begin, disk, Goto

LEMMA CommitCases ==
  ASSUME Commit
  PROVE  /\ pc = "commit" /\ undo' = undo
         /\ UNCHANGED <<there, text, trust, git, backup, plan, renamed, dev, outcome, drift, late,
                        spoiled, before, anchor, runs>>
         /\ \/ /\ at <= Len(CommitOrder)
               /\ db' = IF CommitOrder[at] \in writes THEN [db EXCEPT ![CommitOrder[at]] = "new"] ELSE db
               /\ pc' = "commit" /\ at' = at + 1 /\ writes' = writes /\ fault' = fault
            \/ /\ at > Len(CommitOrder) /\ db' = db
               /\ pc' = "discard" /\ at' = 1 /\ writes' = writes /\ fault' = fault
            \/ /\ at = 1 \/ (at <= Len(CommitOrder) /\ CommitOrder[at] \in writes)
               /\ db' = db /\ fault' = TRUE
               /\ pc' = "restore" /\ at' = Len(undo') /\ writes' = {}
  BY DEF Commit, kept, Goto, Fail, Abort

LEMMA DiscardCases ==
  ASSUME Discard
  PROVE  /\ pc = "discard"
         /\ UNCHANGED <<there, db, text, trust, git, dev, fault, drift, late, spoiled, before, anchor,
                        runs>>
         /\ \/ pc' = "discard" /\ at' = at + 1 /\ UNCHANGED <<plan, writes, undo, outcome>>
            \/ pc' = "over" /\ outcome' = "ok" /\ writes' = {} /\ undo' = <<>>
  BY EndFrame DEF Discard, history, memory, Goto

LEMMA RestoreCases ==
  ASSUME Restore
  PROVE  /\ pc = "restore"
         /\ UNCHANGED <<there, db, dev, fault, drift, late, before, anchor, runs>>
         /\ \/ /\ at > 0 /\ pc' = "restore" /\ at' = at - 1 /\ UNCHANGED <<plan, writes, undo, outcome>>
               /\ \/ UndoOne(undo[at]) /\ spoiled' = spoiled
                  \/ spoiled' = TRUE /\ UNCHANGED <<text, trust, git, backup>>
            \/ /\ at = 0 /\ pc' = "over" /\ outcome' = "failed" /\ writes' = {} /\ undo' = <<>>
               /\ UNCHANGED <<text, trust, git, backup, spoiled>>
  BY EndFrame DEF Restore, memory, Goto

LEMMA BaselinesFrame ==
  ASSUME NEW r \in Worktrees, CodexBaselines(r)
  PROVE  /\ pc = "over" /\ git[r] = "none" /\ git' = [git EXCEPT ![r] = BaselineOf(text[r])]
         /\ UNCHANGED <<there, db, text, trust, backup, dev, pc, at, plan, writes, undo, outcome, fault,
                        drift, late, spoiled, before, anchor, runs>>
  BY DEF CodexBaselines, memory, history

LEMMA StutterFrame ==
  ASSUME UNCHANGED vars
  PROVE  UNCHANGED <<there, db, text, trust, git, backup, dev, pc, at, plan, writes, undo, renamed,
                     outcome, fault, drift, late, spoiled, before, anchor, runs>>
  BY DEF vars, disk, memory, history

-----------------------------------------------------------------------------
(* What the history and the plan know *)

LEMMA RememberedStep == ASSUME Shape, Remembered, [Next]_vars PROVE Remembered'
<1> USE DEF Remembered, Applying, Uncommitted, Opening
<1>1. CASE Begin
  BY <1>1, BeginCases
<1>2. CASE Kill
  BY <1>2, KillFrame
<1>3. CASE Apply
  BY <1>3, ApplyCases
<1>4. CASE FileStep
  BY <1>4, FileFrame DEF FilePlaces
<1>5. CASE Commit
  BY <1>5, CommitCases
<1>6. CASE Discard
  BY <1>6, DiscardCases
<1>7. CASE Restore
  <2>1. pc' \in {"restore", "over"} /\ UNCHANGED <<drift, late, anchor>>
    BY <1>7, RestoreCases
  <2>2. QED
    BY <2>1
<1>8. CASE CodexWrites
  BY <1>8, CodexCases
<1>9. ASSUME NEW k \in Control, NEW next \in Control, Opens(k, next) PROVE Remembered'
  BY <1>9, OpensFrame DEF Opens
<1>10. ASSUME NEW r \in Worktrees, CodexBaselines(r) PROVE Remembered'
  BY <1>10, BaselinesFrame
<1>11. CASE UNCHANGED vars
  BY <1>11, StutterFrame
<1>12. QED
  BY <1>1, <1>2, <1>3, <1>4, <1>5, <1>6, <1>7, <1>8, <1>9, <1>10, <1>11, StepCases

\* Replacing the planned rollouts one by one leaves the old path in none of them.
LEMMA PlanKnowsRollouts ==
  ASSUME Shape, PlanKnows, RewriteRollouts, pc' = "rollouts"
  PROVE  PlanKnows'
<1>1. /\ UNCHANGED <<there, db, trust, git, backup, renamed, kept>> /\ pc = "rollouts"
      /\ \E f \in plan.rollouts : Replace(f) /\ plan' = [plan EXCEPT !.rollouts = @ \ {f}]
  BY DEF RewriteRollouts, Goto, Fail, Abort
<1>2. PICK f \in plan.rollouts : Replace(f) /\ plan' = [plan EXCEPT !.rollouts = @ \ {f}]
  BY <1>1
<1>3. f \in Texts /\ plan'.rollouts = plan.rollouts \ {f} /\ late' = late
  BY <1>1, <1>2, RootForms DEF Shape, TypeOK, Plan, kept
<1>4. text'[f] # "old" /\ \A g \in Texts \ {f} : text'[g] = text[g]
  BY <1>2, <1>3, ReplaceTypes DEF Shape, TypeOK
<1>5. \A g \in Rollouts \ late : text'[g] = "old" => g \in plan'.rollouts
  BY <1>1, <1>3, <1>4, RootForms DEF PlanKnows
<1>6. QED
  BY <1>3, <1>5 DEF PlanKnows, Opening

LEMMA PlanKnowsConfig ==
  ASSUME PlanKnows, Config
  PROVE  PlanKnows'
<1>1. UNCHANGED <<text, plan, late>> /\ pc = "config" /\ pc' \in {"rollouts", "restore"}
  BY DEF Config, kept, Goto, Abort, Fail
<1>2. QED
  BY <1>1 DEF PlanKnows, Opening

LEMMA PlanKnowsWrites ==
  ASSUME Shape, PlanKnows, Remembered, CodexWrites
  PROVE  PlanKnows'
<1>1. /\ pc = "planned" /\ ~drift /\ drift' = TRUE /\ UNCHANGED <<trust, pc, plan>>
  BY CodexCases
<1>2. /\ plan.dbs \subseteq there
      /\ \A d \in there \ late : d \in plan.dbs /\ db[d] = "old" => d \in plan.rows
      /\ \A f \in Rollouts \ late : text[f] = "old" => f \in plan.rollouts
      /\ plan.keys = OldKeys
  BY <1>1 DEF PlanKnows, InFamily
<1>3. there \subseteq Databases /\ db \in [Databases -> Paths] /\ text \in [Texts -> Paths]
  BY DEF Shape, TypeOK
<1>4. \A d \in there' \ late' : d \in plan.dbs /\ db'[d] = "old" => d \in plan.rows
  <2>1. CASE late' = late /\ \E d \in Databases \ there : \E said \in {"none", "old"} :
               there' = there \cup {d} /\ db' = [db EXCEPT ![d] = said]
    BY <2>1, <1>2, <1>3
  <2>2. CASE late' = late /\ \E d \in there : there' \subseteq there /\ db' = [db EXCEPT ![d] = "none"]
    BY <2>2, <1>2, <1>3
  <2>3. CASE there' = there /\ \E d \in there : db' = [db EXCEPT ![d] = "old"] /\ late' = late \cup {d}
    BY <2>3, <1>2, <1>3
  <2>4. CASE UNCHANGED <<there, db>> /\ late \subseteq late'
    BY <2>4, <1>2
  <2>5. QED
    BY <2>1, <2>2, <2>3, <2>4, CodexCases
<1>5. \A f \in Rollouts \ late' : text'[f] = "old" => f \in plan.rollouts
  <2>1. CASE text' = text /\ late \subseteq late'
    BY <2>1, <1>2
  <2>2. CASE \E f \in Rollouts : text' = [text EXCEPT ![f] = "old"] /\ late' = late \cup {f}
    BY <2>2, <1>2, <1>3
  <2>3. QED
    BY <2>1, <2>2, CodexCases
<1>6. QED
  BY <1>1, <1>2, <1>4, <1>5 DEF PlanKnows, OldKeys

LEMMA PlanKnowsStep == ASSUME Shape, PlanKnows, Remembered, [Next]_vars PROVE PlanKnows'
<1>1. CASE Begin
  <2>1. CASE pc' = "over"
    BY <2>1 DEF PlanKnows, Opening
  <2>2. CASE pc' # "over"
    BY <1>1, <2>2, BeginCases DEF PlanKnows, InFamily, OldKeys
  <2>3. QED
    BY <2>1, <2>2
<1>2. CASE Kill
  BY <1>2, KillFrame DEF PlanKnows, Opening
<1>3. CASE Apply
  BY <1>3, ApplyCases DEF PlanKnows, Opening, InFamily, OldKeys
<1>4. CASE FileStep
  <2>1. CASE Config
    BY <2>1, PlanKnowsConfig
  <2>2. CASE RewriteRollouts /\ pc' = "rollouts"
    BY <2>2, PlanKnowsRollouts
  <2>3. CASE pc' \notin {"planned", "config", "rollouts"} \cup Opening
    BY <2>3 DEF PlanKnows
  <2>4. RewriteRollouts => pc' \in {"rollouts", "reconcile", "restore"}
    BY DEF RewriteRollouts, Goto, Abort, Fail
  <2>5. Reconcile \/ RewriteWorktree \/ SetAsideBaseline \/ RewriteMarket =>
          pc' \in {"worktree", "market", "baseline", "reconcile", "commit", "restore"}
    BY DEF Reconcile, RewriteWorktree, SetAsideBaseline, RewriteMarket, Goto, Abort, Fail
  <2>6. QED
    BY <1>4, <2>1, <2>2, <2>3, <2>4, <2>5 DEF FileStep, Opening
<1>5. CASE Commit \/ Discard \/ Restore
  BY <1>5, CommitCases, DiscardCases, RestoreCases DEF PlanKnows, Opening
<1>6. CASE CodexWrites
  BY <1>6, PlanKnowsWrites
<1>7. ASSUME NEW k \in Control, NEW next \in Control, Opens(k, next) PROVE PlanKnows'
  BY <1>7, OpensFrame DEF Opens, PlanKnows, Opening, InFamily, OldKeys
<1>8. ASSUME NEW r \in Worktrees, CodexBaselines(r) PROVE PlanKnows'
  BY <1>8, BaselinesFrame DEF PlanKnows, Opening
<1>9. CASE UNCHANGED vars
  BY <1>9, StutterFrame DEF PlanKnows, InFamily, OldKeys
<1>10. QED
  BY <1>1, <1>2, <1>3, <1>4, <1>5, <1>6, <1>7, <1>8, <1>9, StepCases

-----------------------------------------------------------------------------
(* The databases *)

\* Outside the apply no place of a family counts as passed.
LEMMA OpenedNot ==
  ASSUME pc \notin Applying
  PROVE  \A k \in Families : \A i \in DOMAIN Family[k] : ~Opened(k, i)
  BY DEF Opened, Applying, Uncommitted, Opening, Families

LEMMA DatabasedNot ==
  ASSUME pc \notin Applying
  PROVE  Databased
<1>1. pc # "commit" /\ pc # "discard" /\ pc \notin Uncommitted
  BY DEF Applying
<1>2. QED
  BY <1>1, OpenedNot DEF Databased

LEMMA DatabasedNotNext ==
  ASSUME pc' \notin Applying
  PROVE  Databased'
<1>1. pc' # "commit" /\ pc' # "discard" /\ pc' \notin Uncommitted
  BY DEF Applying
<1>2. \A k \in Families : \A i \in DOMAIN Family[k] : ~Opened(k, i)'
  BY DEF Opened, Applying, Uncommitted, Opening, Families
<1>3. QED
  BY <1>1, <1>2 DEF Databased

\* The apply starts with no place passed and no transaction written.
LEMMA DatabasedApply == ASSUME Shape, Apply PROVE Databased'
<1>1. CASE pc' = "restore"
  BY <1>1, DatabasedNotNext DEF Applying, Uncommitted, Opening
<1>2. CASE pc' = "state" /\ at' = 1
  <2>1. writes' = {} /\ db' = db /\ before' = Disk
    BY <1>2, ApplyCases DEF Shape, Places
  <2>2. before'.db = db'
    BY <2>1 DEF Disk
  <2>3. \A k \in Families : \A i \in DOMAIN Family[k] : ~Opened(k, i)'
    <3> TAKE k \in Families
    <3> TAKE i \in DOMAIN Family[k]
    <3>1. i \in Nat /\ i >= 1
      BY FamilyAssumption
    <3>2. QED
      BY <1>2, <3>1 DEF Opened, Opening
  <2>4. QED
    BY <1>2, <2>1, <2>2, <2>3 DEF Databased
<1>3. QED
  BY <1>1, <1>2, ApplyCases

\* A database found that has the old path is written, unless it came too late.
LEMMA WrittenIfOld ==
  ASSUME Shape, PlanKnows, pc \in Opening, ~Drifted(pc), NEW i \in DOMAIN Family[pc],
         Family[pc][i] \in there \ late, db[Family[pc][i]] = "old"
  PROVE  ToWrite(Family[pc][i])
<1> DEFINE d == Family[pc][i]
<1>1. FamilyOf(d) = pc
  BY PlaceFamily, OpeningFamilies
<1>2. CASE pc = "memories"
  BY <1>1, <1>2 DEF ToWrite
<1>3. CASE pc # "memories"
  <2>1. d \in InFamily(pc)
    BY <1>1 DEF InFamily
  <2>2. d \in plan.dbs
    BY <1>3, <2>1 DEF Drifted
  <2>3. d \in plan.rows
    BY <2>2 DEF PlanKnows
  <2>4. QED
    BY <1>1, <1>3, <2>3 DEF ToWrite
<1>4. QED
  BY <1>2, <1>3

\* A family opened one database further: the one found is written or has no old
\* path that the plan could know, and those between are not there.
LEMMA DatabasedOpens ==
  ASSUME Shape, PlanKnows, Databased, NEW k, NEW next, Opens(k, next)
  PROVE  Databased'
<1>a. /\ k \in Opening /\ pc = k /\ k \in Families /\ pc \in Applying /\ pc \in Uncommitted
      /\ UNCHANGED <<there, db, before, late>>
  BY OpensFrame, OpeningFamilies DEF Applying, Uncommitted
<1>b. /\ db = before.db /\ \A d \in writes : before.db[d] = "old"
  BY <1>a DEF Databased
<1>c. \/ k = "state" /\ next = "memories"
      \/ k = "memories" /\ next = "queue"
      \/ k = "queue" /\ next = "config"
  BY DEF Opens
<1>d. at \in Nat /\ at >= 1
  BY <1>a DEF Shape, TypeOK, Places
<1>e. \A l \in Families : \A i \in DOMAIN Family[l] : i \in Nat /\ i >= 1
  BY FamilyAssumption
<1>1. CASE pc' = "restore"
  BY <1>1, DatabasedNotNext DEF Applying, Uncommitted, Opening
<1>2. CASE ~Drifted(k) /\ Discovered(k, at) = {} /\ pc' = next /\ at' = 1 /\ writes' = writes
  <2>1. \A l \in Families : \A i \in DOMAIN Family[l] :
          Opened(l, i)' => l = k \/ Opened(l, i)
    BY <1>2, <1>a, <1>c, <1>e DEF Opened, Opening, Applying, Uncommitted, Families
  <2>2. \A i \in DOMAIN Family[k] : Family[k][i] \in there => Opened(k, i)
    BY <1>2, <1>a, <1>d, <1>e DEF Discovered, Opened
  <2>3. \A l \in Families : \A i \in DOMAIN Family[l] :
          Opened(l, i)' /\ Family[l][i] \in there \ late /\ db[Family[l][i]] = "old" => Family[l][i] \in writes
    BY <2>1, <2>2 DEF Databased
  <2>4. pc' \notin {"commit", "discard"}
    BY <1>2, <1>c
  <2>5. QED
    BY <1>2, <1>a, <1>b, <2>3, <2>4 DEF Databased
<1>3. ASSUME NEW i \in Discovered(k, at),
             ~Drifted(k), \A j \in Discovered(k, at) : i <= j, ~Stale(Family[k][i]),
             writes' = IF ToWrite(Family[k][i]) THEN writes \cup {Family[k][i]} ELSE writes,
             pc' = k, at' = i + 1
      PROVE  Databased'
  <2>1. i \in DOMAIN Family[k] /\ Family[k][i] \in there /\ i \in Nat
    BY <1>a, <1>e DEF Discovered
  <2>2. Family[k][i] \notin late /\ db[Family[k][i]] = "old" => Family[k][i] \in writes'
    BY <1>3, <1>a, <2>1, WrittenIfOld
  <2>3. \A l \in Families : \A j \in DOMAIN Family[l] :
          Opened(l, j)' /\ Family[l][j] \in there => Opened(l, j) \/ (l = k /\ j = i)
    <3> SUFFICES ASSUME NEW l \in Families, NEW j \in DOMAIN Family[l],
                        Opened(l, j)', Family[l][j] \in there, ~Opened(l, j)
                 PROVE  l = k /\ j = i
      OBVIOUS
    <3>1. l = k /\ j < i + 1 /\ ~(j < at)
      BY <1>3, <1>a DEF Opened
    <3>2. j \in Nat
      BY <1>e
    <3>3. j \in Discovered(k, at)
      BY <3>1, <3>2, <1>d DEF Discovered
    <3>4. i <= j
      BY <3>3, <1>3
    <3>5. QED
      BY <3>1, <3>2, <3>4, <2>1
  <2>4. \A l \in Families : \A j \in DOMAIN Family[l] :
          Opened(l, j)' /\ Family[l][j] \in there \ late /\ db[Family[l][j]] = "old" =>
            Family[l][j] \in writes'
    BY <1>3, <2>2, <2>3 DEF Databased
  <2>5. ToWrite(Family[k][i]) => db[Family[k][i]] = "old"
    BY <1>3 DEF ToWrite, Stale
  <2>6. \A d \in writes' : before.db[d] = "old"
    BY <1>3, <1>b, <2>5
  <2>7. pc' \notin {"commit", "discard"}
    BY <1>3, <1>a DEF Opening
  <2>8. QED
    BY <1>a, <1>b, <2>4, <2>6, <2>7 DEF Databased
<1>4. QED
  BY <1>1, <1>2, <1>3, OpenCases DEF Opens, Opening, Goto, Abort

\* The files leave what is written in the open transactions alone.
LEMMA DatabasedFiles ==
  ASSUME Shape, Databased, FileStep
  PROVE  Databased'
<1>a. pc \in FilePlaces /\ UNCHANGED <<there, db, before, late>>
  BY FileFrame
<1>b. pc \in Applying \ Opening /\ pc \in Uncommitted
  BY <1>a DEF FilePlaces, Applying, Uncommitted, Opening
<1>c. /\ db = before.db /\ \A d \in writes : before.db[d] = "old"
      /\ \A k \in Families : \A i \in DOMAIN Family[k] :
           Family[k][i] \in there \ late /\ db[Family[k][i]] = "old" => Family[k][i] \in writes
  BY <1>b DEF Databased, Opened
<1>1. CASE pc' = "restore"
  BY <1>1, DatabasedNotNext DEF Applying, Uncommitted, Opening
<1>2. CASE pc' \in FilePlaces /\ writes' = writes
  BY <1>2, <1>a, <1>c DEF Databased, FilePlaces
<1>3. CASE pc' = "commit" /\ at' = 1 /\ writes' = writes
  <2>1. \A i \in DOMAIN CommitOrder : ~(i < at')
    BY <1>3, CommitTurns
  <2>2. QED
    BY <1>3, <1>a, <1>c, <2>1 DEF Databased, Uncommitted, Opening
<1>4. QED
  BY <1>1, <1>2, <1>3, FileFrame

\* One more commit: its database has the new path, all others what they had.
LEMMA DatabasedCommit ==
  ASSUME Shape, Databased, Commit
  PROVE  Databased'
<1>a. pc = "commit" /\ UNCHANGED <<there, late, before>> /\ at \in Nat /\ at >= 1
  BY CommitCases DEF Shape, TypeOK, Places
<1>b. /\ \A d \in writes : before.db[d] = "old"
      /\ \A k \in Families : \A i \in DOMAIN Family[k] :
           Family[k][i] \in there \ late /\ db[Family[k][i]] = "old" => Family[k][i] \in writes
      /\ \A i \in DOMAIN CommitOrder :
           IF i < at /\ CommitOrder[i] \in writes THEN db[CommitOrder[i]] = "new"
           ELSE db[CommitOrder[i]] = before.db[CommitOrder[i]]
  BY <1>a DEF Databased, Opened, Applying, Uncommitted, Opening
<1>c. \A d \in there \ late : db[d] = "old" => d \in writes
  <2>1. \A d \in there : \E k \in Families : \E i \in DOMAIN Family[k] : Family[k][i] = d
    BY FamilyPlace DEF Shape, TypeOK
  <2>2. QED
    BY <2>1, <1>b
<1>d. /\ there \subseteq Databases /\ writes \subseteq there /\ db \in [Databases -> Paths]
      /\ DOMAIN CommitOrder = 1 .. Len(CommitOrder) /\ Len(CommitOrder) \in Nat
      /\ \A i \in DOMAIN CommitOrder : CommitOrder[i] \in Databases
  BY CommitTurns DEF Shape, TypeOK
<1>1. CASE pc' = "restore"
  BY <1>1, DatabasedNotNext DEF Applying, Uncommitted, Opening
<1>2. CASE /\ at <= Len(CommitOrder)
           /\ db' = IF CommitOrder[at] \in writes THEN [db EXCEPT ![CommitOrder[at]] = "new"] ELSE db
           /\ pc' = "commit" /\ at' = at + 1 /\ writes' = writes
  <2>1. at \in DOMAIN CommitOrder
    BY <1>2, <1>a, <1>d
  <2>2. \A d \in Databases : db'[d] = IF d = CommitOrder[at] /\ d \in writes THEN "new" ELSE db[d]
    BY <1>2, <1>d, <2>1
  <2>3. \A i \in DOMAIN CommitOrder :
          IF i < at' /\ CommitOrder[i] \in writes THEN db'[CommitOrder[i]] = "new"
          ELSE db'[CommitOrder[i]] = before.db[CommitOrder[i]]
    <3> TAKE i \in DOMAIN CommitOrder
    <3>1. i < at' <=> i < at \/ i = at
      BY <1>2, <1>a, <1>d
    <3>2. CommitOrder[i] = CommitOrder[at] <=> i = at
      BY <2>1, CommitTurns
    <3>3. QED
      BY <1>b, <1>d, <2>2, <3>1, <3>2
  <2>4. \A d \in there \ late : db'[d] = "old" => d \in writes
    BY <1>c, <1>d, <2>2
  <2>5. \A k \in Families : \A i \in DOMAIN Family[k] :
           Family[k][i] \in there \ late /\ db'[Family[k][i]] = "old" => Family[k][i] \in writes
    BY <2>4
  <2>6. pc' \notin Uncommitted /\ pc' # "discard"
    BY <1>2 DEF Uncommitted, Opening
  <2>7. QED
    BY <1>2, <1>a, <1>b, <2>3, <2>5, <2>6 DEF Databased
<1>3. CASE /\ at > Len(CommitOrder) /\ db' = db
           /\ pc' = "discard" /\ at' = 1 /\ writes' = writes
  <2>1. \A i \in DOMAIN CommitOrder : i < at
    BY <1>3, <1>a, <1>d
  <2>2. \A d \in writes : db[d] = "new"
    BY <2>1, <1>b, <1>d, CommitTurns
  <2>3. \A d \in there \ late : db[d] # "old"
    BY <1>c, <2>2
  <2>4. pc' \notin Uncommitted /\ pc' # "commit"
    BY <1>3 DEF Uncommitted, Opening
  <2>5. QED
    BY <1>3, <1>a, <1>b, <2>3, <2>4 DEF Databased
<1>4. QED
  BY <1>1, <1>2, <1>3, CommitCases

LEMMA DatabasedStep ==
  ASSUME Shape, PlanKnows, Databased, [Next]_vars
  PROVE  Databased'
<1>1. CASE pc' \notin Applying
  BY <1>1, DatabasedNotNext
<1>2. CASE Begin \/ Kill \/ Restore \/ CodexWrites
  <2>1. pc' \in {"over", "planned", "restore"}
    BY <1>2, BeginCases, KillFrame, RestoreCases, CodexCases
  <2>2. QED
    BY <2>1, <1>1 DEF Applying, Uncommitted, Opening
<1>3. ASSUME NEW r \in Worktrees, CodexBaselines(r) PROVE Databased'
  BY <1>3, <1>1, BaselinesFrame DEF Applying, Uncommitted, Opening
<1>4. CASE Discard
  <2>1. CASE pc' = "over"
    BY <2>1, <1>1 DEF Applying, Uncommitted, Opening
  <2>2. CASE pc' = "discard" /\ UNCHANGED writes
    <3>1. pc = "discard" /\ UNCHANGED <<there, db, late, before>>
      BY <1>4, DiscardCases
    <3>2. QED
      BY <2>2, <3>1 DEF Databased, Opened, Applying, Uncommitted, Opening, Families
  <2>3. QED
    BY <1>4, <2>1, <2>2, DiscardCases
<1>5. CASE UNCHANGED vars
  BY <1>5, StutterFrame DEF Databased, Opened
<1>6. QED
  BY <1>2, <1>3, <1>4, <1>5, DatabasedApply, DatabasedOpens, DatabasedFiles, DatabasedCommit, StepCases

-----------------------------------------------------------------------------
(* The files *)

\* What a rename leaves of the keys with the old path: none, once it is by a key
\* that matches the project or by the only one.
LEMMA RenamedRoots ==
  ASSUME NEW keys \in SUBSET Key, NEW matched \in Key, matched.root = "old",
         NEW key \in RenameKey(keys, matched), key.root = "old"
  PROVE  key \in keys /\ matched.sub /\ ~key.sub
<1>1. PICK k \in keys : key = Renamed(k, matched)
  BY DEF RenameKey
<1>2. k \in Key
  OBVIOUS
<1>3. CASE k.root = "old" /\ (matched.sub => k.sub)
  BY <1>1, <1>2, <1>3 DEF Renamed
<1>4. CASE ~(k.root = "old" /\ (matched.sub => k.sub))
  BY <1>1, <1>2, <1>4 DEF Renamed, Key
<1>5. QED
  BY <1>3, <1>4

\* The config keeps no key with the old path, once its rewrite has gone through.
LEMMA ConfigMovesKeys ==
  ASSUME trust \in SUBSET Key, NEW first \in OldKeys, NEW last \in OldKeys,
         OldKeys = {first, last}, RenameKeys(first, last) # {}
  PROVE  \A key \in RenameKeys(first, last) : key.root # "old"
<1>1. first \in Key /\ last \in Key /\ first.root = "old" /\ last.root = "old"
  BY DEF OldKeys
<1> DEFINE once == RenameKey(trust, first)
<1>2. once \in SUBSET Key
  BY <1>1, RenameTypes
<1>3. \A key \in once : key.root = "old" => key \in OldKeys /\ first.sub /\ ~key.sub
  BY <1>1, RenamedRoots DEF OldKeys
<1>4. CASE first = last
  <2>1. \A key \in once : key.root = "old" => key = first
    BY <1>3, <1>4
  <2>2. QED
    BY <1>3, <1>4, <2>1 DEF RenameKeys
<1>5. CASE first # last
  <2>1. RenameKeys(first, last) = RenameKey(once, last)
    BY <1>5 DEF RenameKeys
  <2> HIDE DEF once
  <2>2. \A key \in RenameKey(once, last) : key.root = "old" => key \in once /\ last.sub /\ ~key.sub
    BY <1>1, <1>2, RenamedRoots
  <2>3. \A key \in RenameKey(once, last) : key.root = "old" =>
          key \in {first, last} /\ first.sub /\ ~key.sub /\ last.sub
    BY <1>3, <2>2
  <2>4. QED
    BY <2>1, <2>3
<1>6. QED
  BY <1>4, <1>5

\* An index of the roots that the run has passed, before or after the step.
LEMMA RootPlaces ==
  /\ Roots \in Seq(Worktrees) /\ Len(Roots) \in Nat /\ DOMAIN Roots = 1 .. Len(Roots)
  /\ \A i \in DOMAIN Roots : i \in Nat /\ i >= 1
  /\ \A i, j \in DOMAIN Roots : Roots[i] = Roots[j] => i = j
  /\ \A r \in Worktrees : \E i \in DOMAIN Roots : Roots[i] = r
  /\ \A i \in DOMAIN Roots : Roots[i] \in Worktrees
  BY RootsAssumption DEF Worktrees

LEMMA FiledNotNext ==
  ASSUME pc' \notin AfterConfig
  PROVE  Filed'
  BY DEF Filed, AfterConfig, AfterRollouts, AfterRoots, Visited

\* Each surface leaves the files of those before it as they are and its own
\* without the old path; an error leaves nothing to show.
LEMMA FiledConfig == ASSUME Shape, PlanKnows, Config PROVE Filed'
<1> USE DEF Config
<1>1. CASE pc' = "restore"
  BY <1>1, FiledNotNext DEF AfterConfig, AfterRollouts, AfterRoots
<1>2. CASE pc' = "rollouts" /\ \A key \in trust' : key.root # "old"
  BY <1>2 DEF Filed, AfterConfig, AfterRollouts, AfterRoots, Visited, OldKeys
<1>3. plan.keys = OldKeys
  BY DEF PlanKnows
<1>4. CASE plan.keys = {} /\ Goto("rollouts", 1) /\ trust' = trust
  BY <1>2, <1>3, <1>4 DEF Goto, OldKeys
<1>5. ASSUME NEW first \in plan.keys, NEW last \in plan.keys, plan.keys = {first, last},
             RenameKeys(first, last) # {}, trust' = RenameKeys(first, last), Goto("rollouts", 1)
      PROVE  Filed'
  <2>1. trust \in SUBSET Key
    BY DEF Shape, TypeOK
  <2>2. \A key \in RenameKeys(first, last) : key.root # "old"
    BY <1>3, <1>5, <2>1, ConfigMovesKeys
  <2>3. QED
    BY <1>2, <1>5, <2>2 DEF Goto
<1>6. QED
  BY <1>1, <1>4, <1>5 DEF Abort, Fail, Goto

LEMMA FiledRollouts == ASSUME Shape, PlanKnows, Filed, RewriteRollouts PROVE Filed'
<1> USE DEF RewriteRollouts
<1>a. pc = "rollouts" /\ trust' = trust /\ late' = late
  BY DEF kept
<1>b. OldKeys = {}
  BY <1>a DEF Filed, AfterConfig
<1>1. CASE pc' = "restore"
  BY <1>1, FiledNotNext DEF AfterConfig, AfterRollouts, AfterRoots
<1>2. CASE pc' = "rollouts"
  BY <1>2, <1>a, <1>b DEF Filed, AfterConfig, AfterRollouts, AfterRoots, Visited, OldKeys
<1>3. CASE plan.rollouts = {} /\ Goto("reconcile", 1) /\ text' = text
  <2>1. \A f \in Rollouts \ late : text[f] # "old"
    BY <1>a, <1>3 DEF PlanKnows
  <2>2. \A i \in DOMAIN Roots : ~Visited(i)'
    BY <1>3, RootPlaces DEF Visited, AfterRoots, Goto
  <2>3. QED
    BY <1>3, <1>a, <1>b, <2>1, <2>2 DEF Filed, Goto, OldKeys, AfterRoots
<1>4. QED
  BY <1>a, <1>1, <1>2, <1>3 DEF Fail, Abort, Goto

LEMMA FiledReconcile == ASSUME Shape, Filed, Reconcile PROVE Filed'
<1> USE DEF Reconcile
<1>a. pc = "reconcile" /\ UNCHANGED <<text, trust, git, late>> /\ at \in Nat /\ at >= 1
  BY DEF kept, Shape, TypeOK, Places
<1>b. /\ OldKeys = {} /\ \A f \in Rollouts \ late : text[f] # "old"
      /\ \A i \in DOMAIN Roots : i < at =>
           /\ text[Roots[i]] # "old"
           /\ text[Roots[i]] = "new" => git[Roots[i]] \in {"none", "remote"}
  BY <1>a DEF Filed, AfterConfig, AfterRollouts, AfterRoots, Visited
<1>1. CASE pc' = "restore"
  BY <1>1, FiledNotNext DEF AfterConfig, AfterRollouts, AfterRoots
<1>2. CASE at <= Len(Roots) /\ backup' = WithoutBackup(Roots[at]) /\ Goto("worktree", at)
  <2>1. at \in DOMAIN Roots /\ Roots[at] \in Worktrees
    BY <1>2, <1>a, RootPlaces
  <2>2. backup'[Roots[at]] = "none"
    BY <1>2, <2>1 DEF WithoutBackup, Shape, TypeOK
  <2>3. \A i \in DOMAIN Roots : Visited(i)' => i < at
    BY <1>2 DEF Visited, AfterRoots, Goto
  <2>4. QED
    BY <1>2, <1>a, <1>b, <2>2, <2>3 DEF Filed, OldKeys, Goto
<1>3. CASE at > Len(Roots) /\ Goto("market", 1)
  <2>1. \A i \in DOMAIN Roots : i < at
    BY <1>3, <1>a, RootPlaces
  <2>2. QED
    BY <1>3, <1>a, <1>b, <2>1 DEF Filed, OldKeys, Goto
<1>4. QED
  BY <1>1, <1>2, <1>3 DEF Fail, Abort, Goto

LEMMA FiledWorktree == ASSUME Shape, Filed, RewriteWorktree PROVE Filed'
<1> USE DEF RewriteWorktree
<1>a. pc = "worktree" /\ UNCHANGED <<backup, trust, git, late>> /\ at \in DOMAIN Roots /\ at \in Nat
  BY DEF kept, Shape, TypeOK, Places
<1>b. /\ OldKeys = {} /\ \A f \in Rollouts \ late : text[f] # "old"
      /\ \A i \in DOMAIN Roots : i < at =>
           /\ text[Roots[i]] # "old"
           /\ text[Roots[i]] = "new" => git[Roots[i]] \in {"none", "remote"}
      /\ backup[Roots[at]] = "none"
  BY <1>a DEF Filed, AfterConfig, AfterRollouts, AfterRoots, Visited
<1>1. CASE pc' = "restore"
  BY <1>1, FiledNotNext DEF AfterConfig, AfterRollouts, AfterRoots
<1>2. CASE Replace(Roots[at]) /\ Goto("baseline", at)
  <2>1. text'[Roots[at]] # "old" /\ \A g \in Texts \ {Roots[at]} : text'[g] = text[g]
    BY <1>2, <1>a, RootForms, ReplaceTypes DEF Shape, TypeOK
  <2>2. \A f \in Rollouts : text'[f] = text[f]
    BY <2>1, <1>a, RootForms, RootPlaces, TextsAssumption
  <2>3. \A i \in DOMAIN Roots : i < at => text'[Roots[i]] = text[Roots[i]]
    <3> SUFFICES ASSUME NEW i \in DOMAIN Roots, i < at PROVE text'[Roots[i]] = text[Roots[i]]
      OBVIOUS
    <3>1. Roots[i] # Roots[at]
      BY <1>a, RootPlaces
    <3>2. QED
      BY <3>1, <2>1, RootForms
  <2>4. \A i \in DOMAIN Roots : Visited(i)' => i < at \/ i = at
    BY <1>2 DEF Visited, AfterRoots, Goto
  <2>5. QED
    BY <1>2, <1>a, <1>b, <2>1, <2>2, <2>3, <2>4 DEF Filed, OldKeys, Goto
<1>3. QED
  BY <1>1, <1>2 DEF Fail, Abort, Goto

LEMMA FiledBaseline == ASSUME Shape, Filed, SetAsideBaseline PROVE Filed'
<1> USE DEF SetAsideBaseline
<1>a. pc = "baseline" /\ UNCHANGED <<text, trust, late>> /\ at \in DOMAIN Roots /\ at \in Nat
  BY DEF kept, Shape, TypeOK, Places
<1>b. /\ OldKeys = {} /\ \A f \in Rollouts \ late : text[f] # "old"
      /\ \A i \in DOMAIN Roots : i < at =>
           /\ text[Roots[i]] # "old"
           /\ text[Roots[i]] = "new" => git[Roots[i]] \in {"none", "remote"}
      /\ text[Roots[at]] # "old"
  BY <1>a DEF Filed, AfterConfig, AfterRollouts, AfterRoots, Visited
<1>1. CASE pc' = "restore"
  BY <1>1, FiledNotNext DEF AfterConfig, AfterRollouts, AfterRoots
<1>2. ASSUME Goto("reconcile", at + 1),
             \A i \in DOMAIN Roots : i # at => git'[Roots[i]] = git[Roots[i]],
             text[Roots[at]] = "new" => git'[Roots[at]] \in {"none", "remote"}
      PROVE  Filed'
  <2>1. \A i \in DOMAIN Roots : Visited(i)' => i < at \/ i = at
    BY <1>2, <1>a, RootPlaces DEF Visited, AfterRoots, Goto
  <2>2. \A i \in DOMAIN Roots : i < at => git'[Roots[i]] = git[Roots[i]]
    BY <1>2, <1>a
  <2>3. QED
    BY <1>2, <1>a, <1>b, <2>1, <2>2 DEF Filed, OldKeys, Goto
<1>3. CASE ~Outdated(Roots[at]) /\ Goto("reconcile", at + 1) /\ git' = git
  BY <1>2, <1>3 DEF Outdated
<1>4. CASE SetAside(Roots[at]) /\ Goto("reconcile", at + 1)
  <2>1. \A i \in DOMAIN Roots : i # at => Roots[i] # Roots[at]
    BY <1>a, RootPlaces
  <2>2. QED
    BY <1>a, <1>2, <1>4, <2>1, RootPlaces DEF SetAside, Shape, TypeOK
<1>5. QED
  BY <1>1, <1>3, <1>4 DEF Fail, Abort, Goto

LEMMA FiledMarket == ASSUME Shape, Filed, RewriteMarket PROVE Filed'
<1> USE DEF RewriteMarket
<1>a. pc = "market" /\ UNCHANGED <<trust, git, late>>
  BY DEF kept
<1>b. /\ OldKeys = {} /\ \A f \in Rollouts \ late : text[f] # "old"
      /\ \A i \in DOMAIN Roots :
           /\ text[Roots[i]] # "old"
           /\ text[Roots[i]] = "new" => git[Roots[i]] \in {"none", "remote"}
  BY <1>a DEF Filed, AfterConfig, AfterRollouts, AfterRoots, Visited
<1>1. CASE pc' = "restore"
  BY <1>1, FiledNotNext DEF AfterConfig, AfterRollouts, AfterRoots
<1>2. CASE Replace(Market) /\ Goto("commit", 1)
  <2>1. text'[Market] # "old" /\ \A g \in Texts \ {Market} : text'[g] = text[g]
    BY <1>2, RootForms, ReplaceTypes DEF Shape, TypeOK
  <2>2. /\ \A f \in Rollouts : text'[f] = text[f]
        /\ \A i \in DOMAIN Roots : text'[Roots[i]] = text[Roots[i]]
    BY <2>1, RootForms, RootPlaces, TextsAssumption
  <2>3. QED
    BY <1>2, <1>a, <1>b, <2>1, <2>2 DEF Filed, OldKeys, Goto
<1>3. QED
  BY <1>1, <1>2 DEF Fail, Abort, Goto

LEMMA FiledStep == ASSUME Shape, PlanKnows, Filed, [Next]_vars PROVE Filed'
<1>1. CASE pc' \in {"over", "planned", "restore"} \cup Opening \cup {"config"}
  BY <1>1, FiledNotNext DEF AfterConfig, AfterRollouts, AfterRoots, Opening
<1>2. CASE Begin \/ Kill \/ Restore \/ CodexWrites \/ Apply
  BY <1>1, <1>2, BeginCases, KillFrame, RestoreCases, CodexCases, ApplyCases DEF Opening
<1>3. ASSUME NEW k \in Control, NEW next \in Control, Opens(k, next) PROVE Filed'
  BY <1>1, <1>3, OpensFrame DEF Opens, Opening
<1>4. ASSUME NEW r \in Worktrees, CodexBaselines(r) PROVE Filed'
  BY <1>1, <1>4, BaselinesFrame
<1>5. CASE FileStep
  BY <1>5, FiledConfig, FiledRollouts, FiledReconcile, FiledWorktree, FiledBaseline, FiledMarket DEF FileStep
<1>6. CASE Commit
  <2>1. CASE pc' = "restore"
    BY <1>1, <2>1
  <2>2. pc = "commit" /\ UNCHANGED <<text, trust, git, late>> /\ pc' \in {"commit", "discard", "restore"}
    BY <1>6, CommitCases
  <2>3. CASE pc' \in {"commit", "discard"}
    BY <2>2, <2>3 DEF Filed, OldKeys, AfterConfig, AfterRollouts, AfterRoots, Visited
  <2>4. QED
    BY <2>1, <2>2, <2>3
<1>7. CASE Discard
  <2>1. CASE pc' = "over"
    BY <1>1, <2>1
  <2>2. pc = "discard" /\ UNCHANGED <<text, trust, git, late>> /\ pc' \in {"discard", "over"}
    BY <1>7, DiscardCases
  <2>3. CASE pc' = "discard"
    BY <2>2, <2>3 DEF Filed, OldKeys, AfterConfig, AfterRollouts, AfterRoots, Visited
  <2>4. QED
    BY <2>1, <2>2, <2>3
<1>8. CASE UNCHANGED vars
  BY <1>8, StutterFrame DEF Filed, OldKeys, Visited
<1>9. QED
  BY <1>2, <1>3, <1>4, <1>5, <1>6, <1>7, <1>8, StepCases

-----------------------------------------------------------------------------
(* The registrations *)

LEMMA UndoDistinct ==
  /\ \A f, g : TextUndo(f) = TextUndo(g) => f = g
  /\ \A f, g : GitUndo(f) = GitUndo(g) => f = g
  /\ \A f, g : TextUndo(f) # GitUndo(g) /\ TextUndo(f) # TrustUndo /\ GitUndo(f) # TrustUndo
<1>1. \A f : TextUndo(f).what = "text" /\ TextUndo(f).of = f
  BY DEF TextUndo
<1>2. \A f : GitUndo(f).what = "git" /\ GitUndo(f).of = f
  BY DEF GitUndo
<1>3. TrustUndo.what = "trust"
  BY DEF TrustUndo
<1>4. QED
  BY <1>1, <1>2, <1>3

\* A run that goes on, or that gives up, has all its registrations still to undo.
GoesOn == pc' # "restore" \/ at' = Len(undo')

LEMMA LiveNext == ASSUME GoesOn PROVE Live' = Len(undo')
  BY DEF GoesOn, Live

LEMMA RegisteredKept ==
  ASSUME pc # "restore", GoesOn, undo' = undo, NEW u
  PROVE  Registered(u)' <=> Registered(u)
<1>1. Live = Len(undo)
  BY DEF Live
<1>2. Live' = Len(undo)
  BY LiveNext
<1>3. QED
  BY <1>1, <1>2 DEF Registered

LEMMA RegisteredMore ==
  ASSUME Shape, pc # "restore", GoesOn, NEW v \in Undo, undo' = Append(undo, v), NEW u
  PROVE  Registered(u)' <=> Registered(u) \/ u = v
<1>1. undo \in Seq(Undo)
  BY DEF Shape, TypeOK
<1>2. Live = Len(undo)
  BY DEF Live
<1>3. Live' = Len(undo') /\ Len(undo') = Len(undo) + 1 /\ Len(undo) \in Nat
  BY <1>1, LiveNext, Appended
<1>4. undo'[Len(undo) + 1] = v /\ \A i \in 1 .. Len(undo) : undo'[i] = undo[i]
  BY <1>1, Appended
<1>5. \A i : i \in 1 .. Live' <=> i \in 1 .. Live \/ i = Len(undo) + 1
  BY <1>2, <1>3
<1>6. QED
  BY <1>2, <1>4, <1>5 DEF Registered

Journal == Uncommitted \cup {"commit", "restore"}

LEMMA RestorableNot == ASSUME pc' \notin Journal PROVE Restorable'
  BY DEF Restorable, Journal

\* Nothing that the Restorer is for changes.
LEMMA RestorableKept ==
  ASSUME Restorable, pc \in Journal, pc # "restore", GoesOn, spoiled' = spoiled,
         UNCHANGED <<undo, text, trust, git, backup, before>>
  PROVE  Restorable'
<1> SUFFICES ASSUME ~spoiled PROVE Restorable'
  BY DEF Restorable
<1>1. \A u : Registered(u)' <=> Registered(u)
  BY RegisteredKept
<1>2. QED
  BY <1>1 DEF Restorable, Journal, SetAsideBoth, Untouched, TextUndo, GitUndo, TrustUndo

LEMMA RestorableApply == ASSUME Shape, Apply PROVE Restorable'
<1>1. undo' = <<>> /\ GoesOn
  BY ApplyCases DEF Shape, Places, GoesOn
<1>2. Live' = 0
  BY <1>1, LiveNext
<1>3. \A u : ~Registered(u)'
  BY <1>2 DEF Registered
<1>4. /\ before'.text = text' /\ before'.trust = trust' /\ before'.git = git' /\ before'.backup = backup'
  BY ApplyCases DEF Disk
<1>5. QED
  BY <1>3, <1>4 DEF Restorable, Untouched

\* A file surface may replace a file once: its pre-image is registered.
LEMMA RestorableReplace ==
  ASSUME Shape, Restorable, pc \in Journal, pc # "restore", GoesOn, spoiled' = spoiled,
         NEW f \in Texts, Replace(f), UNCHANGED <<trust, git, backup, before>>
  PROVE  Restorable'
<1>1. CASE text[f] # "old" /\ text' = text /\ undo' = undo
  BY <1>1, RestorableKept
<1>2. CASE /\ text[f] = "old"
           /\ text' = [text EXCEPT ![f] = "new"] /\ undo' = Append(undo, TextUndo(f))
  <2> SUFFICES ASSUME ~spoiled PROVE Restorable'
    BY DEF Restorable
  <2>1. \A u : Registered(u)' <=> Registered(u) \/ u = TextUndo(f)
    BY <1>2, RootForms, RegisteredMore
  <2>2. /\ \A g \in Texts : text[g] = before.text[g] \/ Registered(TextUndo(g))
        /\ \A g \in Texts : Registered(TextUndo(g)) => before.text[g] = "old"
        /\ trust = before.trust \/ Registered(TrustUndo)
        /\ \A r \in Worktrees : IF Registered(GitUndo(r)) THEN SetAsideBoth(r) ELSE Untouched(r)
    BY DEF Restorable, Journal
  <2>3. \A g \in Texts : g # f => text'[g] = text[g]
    BY <1>2 DEF Shape, TypeOK
  <2>4. \A g \in Texts : text'[g] = before.text[g] \/ Registered(TextUndo(g))'
    BY <2>1, <2>2, <2>3
  <2>5. before.text[f] = "old"
    BY <1>2, <2>2
  <2>6. \A g \in Texts : Registered(TextUndo(g))' => before.text[g] = "old"
    BY <2>1, <2>2, <2>5, UndoDistinct
  <2>7. trust = before.trust \/ Registered(TrustUndo)'
    BY <2>1, <2>2
  <2>8. \A r \in Worktrees : Registered(GitUndo(r))' <=> Registered(GitUndo(r))
    BY <2>1, UndoDistinct
  <2>9. QED
    BY <2>2, <2>4, <2>6, <2>7, <2>8 DEF Restorable, SetAsideBoth, Untouched, TextUndo, GitUndo, TrustUndo
<1>3. QED
  BY <1>1, <1>2, ReplaceCases

LEMMA RestorableConfig == ASSUME Shape, Restorable, Config PROVE Restorable'
<1> USE DEF Config
<1>a. UNCHANGED <<text, git, backup, before, spoiled>> /\ pc = "config" /\ pc \in Journal /\ pc # "restore"
  BY DEF kept, Journal, Uncommitted
<1>b. GoesOn
  BY DEF GoesOn, Goto, Abort, Fail
<1>1. CASE undo' = undo /\ trust' = trust
  BY <1>1, <1>a, <1>b, RestorableKept
<1>2. CASE undo' = Append(undo, TrustUndo)
  <2> SUFFICES ASSUME ~spoiled PROVE Restorable'
    BY <1>a DEF Restorable
  <2>1. \A u : Registered(u)' <=> Registered(u) \/ u = TrustUndo
    BY <1>2, <1>a, <1>b, RootForms, RegisteredMore
  <2>2. /\ \A g : Registered(TextUndo(g))' <=> Registered(TextUndo(g))
        /\ \A r : Registered(GitUndo(r))' <=> Registered(GitUndo(r))
        /\ Registered(TrustUndo)'
    BY <2>1, UndoDistinct
  <2>3. QED
    BY <2>2, <1>a DEF Restorable, SetAsideBoth, Untouched, Journal, TextUndo, GitUndo, TrustUndo
<1>3. QED
  BY <1>1, <1>2 DEF Fail, TrustUndo

LEMMA RestorableRollouts == ASSUME Shape, Restorable, RewriteRollouts PROVE Restorable'
<1> USE DEF RewriteRollouts
<1>a. /\ UNCHANGED <<trust, git, backup, before, spoiled>> /\ pc = "rollouts"
      /\ pc \in Journal /\ pc # "restore" /\ GoesOn
  BY DEF kept, Journal, Uncommitted, GoesOn, Goto, Abort, Fail
<1>1. ASSUME NEW f \in plan.rollouts, Replace(f) PROVE Restorable'
  <2>1. f \in Texts
    BY RootForms DEF Shape, TypeOK, Plan
  <2>2. QED
    BY <1>1, <1>a, <2>1, RestorableReplace
<1>2. CASE undo' = undo /\ text' = text
  BY <1>2, <1>a, RestorableKept
<1>3. QED
  BY <1>1, <1>2

LEMMA RestorableWorktree == ASSUME Shape, Restorable, RewriteWorktree PROVE Restorable'
<1> USE DEF RewriteWorktree
<1>a. /\ UNCHANGED <<trust, git, backup, before, spoiled>> /\ pc = "worktree"
      /\ pc \in Journal /\ pc # "restore" /\ GoesOn
  BY DEF kept, Journal, Uncommitted, GoesOn, Goto, Abort, Fail
<1>1. CASE Replace(Roots[at])
  <2>1. Roots[at] \in Texts
    BY <1>a, RootForms DEF Shape, Places
  <2>2. QED
    BY <1>1, <1>a, <2>1, RestorableReplace
<1>2. CASE undo' = undo /\ text' = text
  BY <1>2, <1>a, RestorableKept
<1>3. QED
  BY <1>1, <1>2

LEMMA RestorableMarket == ASSUME Shape, Restorable, RewriteMarket PROVE Restorable'
<1> USE DEF RewriteMarket
<1>a. /\ UNCHANGED <<trust, git, backup, before, spoiled>> /\ pc = "market"
      /\ pc \in Journal /\ pc # "restore" /\ GoesOn
  BY DEF kept, Journal, Uncommitted, GoesOn, Goto, Abort, Fail
<1>1. CASE Replace(Market)
  BY <1>1, <1>a, RootForms, RestorableReplace
<1>2. CASE undo' = undo /\ text' = text
  BY <1>2, <1>a, RestorableKept
<1>3. QED
  BY <1>1, <1>2

\* The backup that a reconcile removes is not one of this run.
LEMMA RestorableReconcile == ASSUME Shape, SetAsides, Restorable, Reconcile PROVE Restorable'
<1> USE DEF Reconcile
<1>a. /\ UNCHANGED <<text, trust, git, before, spoiled, undo>> /\ pc = "reconcile"
      /\ pc \in Journal /\ pc # "restore" /\ GoesOn /\ pc \in Applying
  BY DEF kept, Journal, Uncommitted, GoesOn, Goto, Abort, Fail, Applying
<1>1. CASE backup' = backup
  BY <1>1, <1>a, RestorableKept
<1>2. CASE at <= Len(Roots) /\ backup' = WithoutBackup(Roots[at])
  <2> SUFFICES ASSUME ~spoiled PROVE Restorable'
    BY <1>a DEF Restorable
  <2>1. at \in Nat /\ at >= 1 /\ at \in DOMAIN Roots
    BY <1>2, <1>a, RootPlaces DEF Shape, TypeOK, Places
  <2>2. \A u : Registered(u)' <=> Registered(u)
    BY <1>a, RegisteredKept
  <2>3. ~Registered(GitUndo(Roots[at]))
    <3>1. Registered(GitUndo(Roots[at])) => \E i \in DOMAIN Roots : i < at /\ Roots[i] = Roots[at]
      BY <1>a, <2>1, RootPlaces DEF SetAsides, AfterRoots
    <3>2. QED
      BY <3>1, <2>1, RootPlaces
  <2>4. \A r \in Worktrees : r # Roots[at] => backup'[r] = backup[r]
    BY <1>2 DEF WithoutBackup, Shape, TypeOK
  <2>5. backup'[Roots[at]] = "none"
    BY <1>2, <2>1, RootPlaces DEF WithoutBackup, Shape, TypeOK
  <2>6. \A r \in Worktrees : IF Registered(GitUndo(r)) THEN SetAsideBoth(r) ELSE Untouched(r)
    BY <1>a DEF Restorable, Journal
  <2>7. \A r \in Worktrees : IF Registered(GitUndo(r))' THEN SetAsideBoth(r)' ELSE Untouched(r)'
    <3> TAKE r \in Worktrees
    <3>1. CASE r = Roots[at]
      BY <3>1, <1>a, <2>2, <2>3, <2>5, <2>6 DEF Untouched
    <3>2. CASE r # Roots[at]
      BY <3>2, <1>a, <2>2, <2>4, <2>6 DEF Untouched, SetAsideBoth
    <3>3. QED
      BY <3>1, <3>2
  <2>8. QED
    BY <1>a, <2>2, <2>7 DEF Restorable, Journal, TextUndo, GitUndo, TrustUndo
<1>3. QED
  BY <1>1, <1>2

\* A git directory set aside, or one whose rename failed, is registered.
LEMMA RestorableBaseline == ASSUME Shape, SetAsides, Filed, Restorable, SetAsideBaseline PROVE Restorable'
<1> USE DEF SetAsideBaseline
<1>a. /\ UNCHANGED <<text, trust, before, spoiled>> /\ pc = "baseline"
      /\ pc \in Journal /\ pc # "restore" /\ GoesOn /\ pc \in Applying
  BY DEF kept, Journal, Uncommitted, GoesOn, Goto, Abort, Fail, Applying
<1>b. /\ at \in DOMAIN Roots /\ backup[Roots[at]] = "none" /\ Roots[at] \in Worktrees /\ at \in Nat
  BY <1>a, RootPlaces DEF Shape, Places, Filed, TypeOK
<1>1. CASE UNCHANGED <<git, backup, undo>>
  BY <1>1, <1>a, RestorableKept
<1>2. CASE /\ undo' = Append(undo, GitUndo(Roots[at]))
           /\ \/ UNCHANGED <<git, backup>>
              \/ /\ git' = [git EXCEPT ![Roots[at]] = "none"]
                 /\ backup' = [backup EXCEPT ![Roots[at]] = git[Roots[at]]]
  <2> SUFFICES ASSUME ~spoiled PROVE Restorable'
    BY <1>a DEF Restorable
  <2>1. PICK w \in Worktrees : w = Roots[at]
    BY <1>b
  <2>2. GitUndo(w) \in Undo /\ undo' = Append(undo, GitUndo(w))
    BY <1>2, <1>b, <2>1, RootForms
  <2>3. \A u : Registered(u)' <=> Registered(u) \/ u = GitUndo(w)
    BY <1>a, <2>2, RegisteredMore
  <2>4. ~Registered(GitUndo(w))
    <3>1. Registered(GitUndo(w)) => \E i \in DOMAIN Roots : i < at /\ Roots[i] = Roots[at]
      BY <1>a, <1>b, <2>1 DEF SetAsides, AfterRoots
    <3>2. QED
      BY <3>1, <1>b, RootPlaces
  <2>5. \A r \in Worktrees : IF Registered(GitUndo(r)) THEN SetAsideBoth(r) ELSE Untouched(r)
    BY <1>a DEF Restorable, Journal
  <2>6. \A r \in Worktrees : r # w => git'[r] = git[r] /\ backup'[r] = backup[r]
    BY <1>2, <2>1 DEF Shape, TypeOK
  <2>7. \/ git'[w] = git[w] /\ backup'[w] = backup[w]
        \/ git'[w] = "none" /\ backup'[w] = git[w]
    BY <1>2, <1>b, <2>1 DEF Shape, TypeOK
  <2>8. git[w] = before.git[w] /\ backup[w] = "none"
    BY <1>b, <2>1, <2>4, <2>5 DEF Untouched
  <2>9. SetAsideBoth(w)'
    BY <1>a, <2>7, <2>8 DEF SetAsideBoth
  <2>10. \A r \in Worktrees : IF Registered(GitUndo(r))' THEN SetAsideBoth(r)' ELSE Untouched(r)'
    <3> TAKE r \in Worktrees
    <3>1. CASE r = w
      BY <3>1, <2>3, <2>9
    <3>2. CASE r # w
      <4>1. Registered(GitUndo(r))' <=> Registered(GitUndo(r))
        BY <3>2, <2>3, UndoDistinct
      <4>2. QED
        BY <3>2, <4>1, <1>a, <2>5, <2>6 DEF Untouched, SetAsideBoth
    <3>3. QED
      BY <3>1, <3>2
  <2>11. /\ \A g : Registered(TextUndo(g))' <=> Registered(TextUndo(g))
         /\ Registered(TrustUndo)' <=> Registered(TrustUndo)
    BY <2>3, UndoDistinct
  <2>12. QED
    BY <1>a, <2>10, <2>11 DEF Restorable, Journal, TextUndo, GitUndo, TrustUndo
<1>3. QED
  BY <1>1, <1>2 DEF SetAside, GitUndo, Fail

\* The Restorer undoes the last registration that is left.
LEMMA RestorableUndone ==
  ASSUME Shape, Restorable, ~spoiled, pc = "restore", at > 0, pc' = "restore", at' = at - 1,
         undo' = undo, before' = before, UndoOne(undo[at])
  PROVE  Restorable'
<1>a. /\ at \in Nat /\ undo \in Seq(Undo) /\ at <= Len(undo) /\ undo[at] \in Undo
      /\ Live = at /\ Live' = at - 1
  <2>1. at \in Nat /\ undo \in Seq(Undo) /\ at <= Len(undo) /\ at \in 1 .. Len(undo)
    BY DEF Shape, TypeOK, Places
  <2>2. QED
    BY <2>1 DEF Live
<1>b. PICK last \in Undo : last = undo[at]
  BY <1>a
<1>c. /\ text \in [Texts -> Paths] /\ git \in [Worktrees -> Git]
      /\ backup \in [Worktrees -> Git \ {"remote"}]
  BY DEF Shape, TypeOK
<1>d. \A i : i \in 1 .. Live <=> i \in 1 .. Live' \/ i = at
  BY <1>a
<1>e. \A u : Registered(u) <=> Registered(u)' \/ u = last
  BY <1>b, <1>d DEF Registered
<1>f. /\ \A f \in Texts : text[f] = before.text[f] \/ Registered(TextUndo(f))
      /\ \A f \in Texts : Registered(TextUndo(f)) => before.text[f] = "old"
      /\ trust = before.trust \/ Registered(TrustUndo)
      /\ \A r \in Worktrees : IF Registered(GitUndo(r)) THEN SetAsideBoth(r) ELSE Untouched(r)
  BY DEF Restorable, Journal
<1>1. ASSUME \A f \in Texts : text'[f] = before.text[f] \/ Registered(TextUndo(f))',
             trust' = before.trust \/ Registered(TrustUndo)',
             \A r \in Worktrees : IF Registered(GitUndo(r))' THEN SetAsideBoth(r)' ELSE Untouched(r)'
      PROVE  Restorable'
  BY <1>1, <1>e, <1>f DEF Restorable, Journal, TextUndo, GitUndo, TrustUndo
<1>2. CASE last.what = "text" /\ text' = [text EXCEPT ![last.of] = "old"] /\ UNCHANGED <<trust, git, backup>>
  <2>1. last.of \in Texts /\ last = TextUndo(last.of)
    BY <1>2, UndoForms
  <2>2. PICK f \in Texts : f = last.of
    BY <2>1
  <2>3. before.text[f] = "old"
    BY <1>e, <1>f, <2>1, <2>2
  <2>4. text'[f] = "old" /\ \A g \in Texts : g # f => text'[g] = text[g]
    BY <1>2, <1>c, <2>2
  <2>5. \A u : u # TextUndo(f) => (Registered(u)' <=> Registered(u))
    BY <1>e, <2>1, <2>2
  <2>6. \A g \in Texts : text'[g] = before.text[g] \/ Registered(TextUndo(g))'
    BY <1>f, <2>3, <2>4, <2>5, UndoDistinct
  <2>7. /\ Registered(TrustUndo)' <=> Registered(TrustUndo)
        /\ \A r : Registered(GitUndo(r))' <=> Registered(GitUndo(r))
    BY <2>5, UndoDistinct
  <2>8. trust' = before.trust \/ Registered(TrustUndo)'
    BY <1>2, <1>f, <2>7
  <2>9. \A r \in Worktrees : IF Registered(GitUndo(r))' THEN SetAsideBoth(r)' ELSE Untouched(r)'
    BY <1>2, <1>f, <2>7 DEF SetAsideBoth, Untouched
  <2>10. QED
    BY <1>1, <2>6, <2>8, <2>9
<1>3. CASE last.what = "trust" /\ trust' = before.trust /\ UNCHANGED <<text, git, backup>>
  <2>1. last = TrustUndo
    BY <1>3, UndoForms
  <2>2. \A u : u # TrustUndo => (Registered(u)' <=> Registered(u))
    BY <1>e, <2>1
  <2>3. /\ \A f : Registered(TextUndo(f))' <=> Registered(TextUndo(f))
        /\ \A r : Registered(GitUndo(r))' <=> Registered(GitUndo(r))
    BY <2>2, UndoDistinct
  <2>4. \A f \in Texts : text'[f] = before.text[f] \/ Registered(TextUndo(f))'
    BY <1>3, <1>f, <2>3
  <2>5. \A r \in Worktrees : IF Registered(GitUndo(r))' THEN SetAsideBoth(r)' ELSE Untouched(r)'
    BY <1>3, <1>f, <2>3 DEF SetAsideBoth, Untouched
  <2>6. QED
    BY <1>1, <1>3, <2>4, <2>5
<1>4. CASE /\ last.what = "git" /\ UNCHANGED <<text, trust>>
           /\ IF backup[last.of] = "none" THEN UNCHANGED <<git, backup>>
              ELSE /\ git' = [git EXCEPT ![last.of] = backup[last.of]]
                   /\ backup' = [backup EXCEPT ![last.of] = "none"]
  <2>1. last.of \in Worktrees /\ last = GitUndo(last.of)
    BY <1>4, UndoForms
  <2>2. PICK w \in Worktrees : w = last.of
    BY <2>1
  <2>3. \A u : u # GitUndo(w) => (Registered(u)' <=> Registered(u))
    BY <1>e, <2>1, <2>2
  <2>4. /\ \A f : Registered(TextUndo(f))' <=> Registered(TextUndo(f))
        /\ Registered(TrustUndo)' <=> Registered(TrustUndo)
    BY <2>3, UndoDistinct
  <2>5. \A f \in Texts : text'[f] = before.text[f] \/ Registered(TextUndo(f))'
    BY <1>4, <1>f, <2>4
  <2>6. trust' = before.trust \/ Registered(TrustUndo)'
    BY <1>4, <1>f, <2>4
  <2>7. SetAsideBoth(w)
    BY <1>e, <1>f, <2>1, <2>2
  <2>8. \A r \in Worktrees : r # w => git'[r] = git[r] /\ backup'[r] = backup[r]
    BY <1>4, <1>c, <2>2
  <2>9. IF backup[w] = "none" THEN git'[w] = git[w] /\ backup'[w] = "none"
        ELSE git'[w] = backup[w] /\ backup'[w] = "none"
    BY <1>4, <1>c, <2>2
  <2>10. git'[w] = before.git[w] /\ backup'[w] = "none"
    BY <2>7, <2>9 DEF SetAsideBoth
  <2>11. \A r \in Worktrees : IF Registered(GitUndo(r))' THEN SetAsideBoth(r)' ELSE Untouched(r)'
    <3> TAKE r \in Worktrees
    <3>1. CASE r = w
      BY <3>1, <2>10 DEF SetAsideBoth, Untouched
    <3>2. CASE r # w
      <4>1. Registered(GitUndo(r))' <=> Registered(GitUndo(r))
        BY <3>2, <2>3, UndoDistinct
      <4>2. QED
        BY <3>2, <4>1, <1>f, <2>8 DEF Untouched, SetAsideBoth
    <3>3. QED
      BY <3>1, <3>2
  <2>12. QED
    BY <1>1, <2>5, <2>6, <2>11
<1>5. QED
  BY <1>b, <1>2, <1>3, <1>4 DEF UndoOne

LEMMA RestorableRestore == ASSUME Shape, Restorable, Restore PROVE Restorable'
<1>a. pc = "restore" /\ before' = before
  BY RestoreCases
<1>1. CASE at > 0 /\ pc' = "restore" /\ at' = at - 1 /\ undo' = undo /\ UndoOne(undo[at]) /\ spoiled' = spoiled
  <2>1. CASE spoiled
    BY <1>1, <2>1 DEF Restorable
  <2>2. CASE ~spoiled
    BY <1>1, <2>2, <1>a, RestorableUndone
  <2>3. QED
    BY <2>1, <2>2
<1>2. CASE spoiled' = TRUE
  BY <1>2 DEF Restorable
<1>3. CASE pc' = "over"
  BY <1>3, RestorableNot DEF Journal, Uncommitted, Opening
<1>4. QED
  BY <1>1, <1>2, <1>3, RestoreCases

LEMMA RestorableStep ==
  ASSUME Shape, SetAsides, Filed, Restorable, [Next]_vars
  PROVE  Restorable'
<1>1. CASE pc' \in {"over", "planned", "discard"}
  BY <1>1, RestorableNot DEF Journal, Uncommitted, Opening
<1>2. CASE Begin \/ Kill \/ CodexWrites
  BY <1>1, <1>2, BeginCases, KillFrame, CodexCases
<1>3. ASSUME NEW k \in Control, NEW next \in Control, Opens(k, next) PROVE Restorable'
  <2>1. /\ pc \in Journal /\ pc # "restore" /\ spoiled' = spoiled
        /\ UNCHANGED <<undo, text, trust, git, backup, before>> /\ GoesOn
    BY <1>3, OpensFrame DEF Journal, Uncommitted, Opening, GoesOn, Opens
  <2>2. QED
    BY <2>1, RestorableKept
<1>4. ASSUME NEW r \in Worktrees, CodexBaselines(r) PROVE Restorable'
  BY <1>1, <1>4, BaselinesFrame
<1>5. CASE FileStep
  BY <1>5, RestorableConfig, RestorableRollouts, RestorableReconcile, RestorableWorktree,
     RestorableBaseline, RestorableMarket DEF FileStep
<1>6. CASE Commit
  <2>1. /\ pc = "commit" /\ spoiled' = spoiled
        /\ UNCHANGED <<undo, text, trust, git, backup, before>> /\ GoesOn
    BY <1>6, CommitCases DEF GoesOn
  <2>2. QED
    BY <2>1, RestorableKept DEF Journal
<1>7. CASE Discard
  BY <1>1, <1>7, DiscardCases
<1>8. CASE UNCHANGED vars
  BY <1>8, StutterFrame
     DEF Restorable, Registered, Live, SetAsideBoth, Untouched, TextUndo, GitUndo, TrustUndo
<1>9. QED
  BY <1>2, <1>3, <1>4, <1>5, <1>6, <1>7, <1>8, RestorableApply, RestorableRestore, StepCases

\* No git directory is registered that is not, already.
NoGitMore == \A r : Registered(GitUndo(r))' => Registered(GitUndo(r))

LEMMA ReplaceGit ==
  ASSUME Shape, pc # "restore", GoesOn, NEW f \in Texts, Replace(f)
  PROVE  NoGitMore
<1>1. CASE undo' = undo
  BY <1>1, RegisteredKept DEF NoGitMore
<1>2. CASE undo' = Append(undo, TextUndo(f))
  <2>1. \A u : Registered(u)' <=> Registered(u) \/ u = TextUndo(f)
    BY <1>2, RootForms, RegisteredMore
  <2>2. QED
    BY <2>1, UndoDistinct DEF NoGitMore
<1>3. QED
  BY <1>1, <1>2, ReplaceCases

\* Only the step that sets a baseline aside registers one, and it moves past it.
LEMMA SetAsidesFiles ==
  ASSUME Shape, SetAsides, FileStep, pc' \in Applying
  PROVE  SetAsides'
<1>a. GoesOn /\ pc # "restore" /\ pc \in Applying
  BY FileFrame DEF GoesOn, FilePlaces, Applying, Uncommitted, Opening
<1>b. \A r \in Worktrees : Registered(GitUndo(r)) =>
        pc \in AfterRollouts /\ (pc \in AfterRoots \/ \E i \in DOMAIN Roots : i < at /\ Roots[i] = r)
  BY <1>a DEF SetAsides
<1>1. ASSUME NoGitMore, pc \notin AfterRollouts PROVE SetAsides'
  BY <1>1, <1>b DEF SetAsides, NoGitMore, GitUndo
<1>2. CASE Config
  <2>1. pc = "config" /\ NoGitMore
    <3>1. CASE undo' = undo
      BY <1>a, <1>2, <3>1, RegisteredKept DEF NoGitMore, Config
    <3>2. CASE undo' = Append(undo, TrustUndo)
      <4>1. \A u : Registered(u)' <=> Registered(u) \/ u = TrustUndo
        BY <1>a, <3>2, RootForms, RegisteredMore
      <4>2. QED
        BY <1>2, <4>1, UndoDistinct DEF NoGitMore, Config
    <3>3. QED
      BY <1>2, <3>1, <3>2 DEF Config, Fail, TrustUndo
  <2>2. QED
    BY <2>1, <1>1 DEF AfterRollouts, AfterRoots
<1>3. CASE RewriteRollouts
  <2>1. pc = "rollouts" /\ NoGitMore
    <3>1. CASE undo' = undo
      BY <1>a, <1>3, <3>1, RegisteredKept DEF NoGitMore, RewriteRollouts
    <3>2. ASSUME NEW f \in plan.rollouts, Replace(f) PROVE NoGitMore
      BY <1>a, <3>2, ReplaceGit, RootForms DEF Shape, TypeOK, Plan
    <3>3. QED
      BY <1>3, <3>1, <3>2 DEF RewriteRollouts, Fail
  <2>2. QED
    BY <2>1, <1>1 DEF AfterRollouts, AfterRoots
<1>4. CASE Reconcile
  <2>1. pc = "reconcile" /\ NoGitMore /\ ((pc' = "worktree" /\ at' = at) \/ pc' = "market")
    BY <1>a, <1>4, RegisteredKept DEF NoGitMore, Reconcile, Goto, Fail, Abort, Applying, Uncommitted, Opening
  <2>2. QED
    BY <2>1, <1>b DEF SetAsides, NoGitMore, AfterRollouts, AfterRoots, GitUndo
<1>5. CASE RewriteWorktree
  <2>1. pc = "worktree" /\ pc' = "baseline" /\ at' = at /\ Replace(Roots[at]) /\ Roots[at] \in Texts
    BY <1>5, RootForms DEF RewriteWorktree, Goto, Fail, Abort, Applying, Uncommitted, Opening, Shape, Places
  <2>2. NoGitMore
    BY <2>1, <1>a, ReplaceGit
  <2>3. QED
    BY <2>1, <2>2, <1>b DEF SetAsides, NoGitMore, AfterRollouts, AfterRoots, GitUndo
<1>6. CASE SetAsideBaseline
  <2>1. pc = "baseline" /\ pc' = "reconcile" /\ at' = at + 1 /\ at \in DOMAIN Roots /\ at \in Nat
    BY <1>6 DEF SetAsideBaseline, Goto, Fail, Abort, Applying, Uncommitted, Opening, Shape, Places, TypeOK
  <2>2. undo' = undo \/ undo' = Append(undo, GitUndo(Roots[at]))
    BY <1>6 DEF SetAsideBaseline, SetAside, GitUndo
  <2>3. PICK w \in Worktrees : w = Roots[at]
    BY <2>1, RootPlaces
  <2>4. \A r : Registered(GitUndo(r))' => Registered(GitUndo(r)) \/ r = w
    <3>1. CASE undo' = undo
      BY <1>a, <3>1, RegisteredKept
    <3>2. CASE undo' = Append(undo, GitUndo(Roots[at]))
      <4>1. GitUndo(w) \in Undo /\ undo' = Append(undo, GitUndo(w))
        BY <2>1, <2>3, <3>2, RootForms
      <4>2. \A u : Registered(u)' <=> Registered(u) \/ u = GitUndo(w)
        BY <1>a, <4>1, RegisteredMore
      <4>3. QED
        BY <4>2, UndoDistinct
    <3>3. QED
      BY <2>2, <3>1, <3>2
  <2>5. \A i \in DOMAIN Roots : i < at => i < at + 1
    BY <2>1, RootPlaces
  <2>6. \A r \in Worktrees : Registered(GitUndo(r)) => \E i \in DOMAIN Roots : i < at + 1 /\ Roots[i] = r
    BY <2>1, <2>5, <1>b DEF AfterRoots
  <2>7. \A r \in Worktrees : Registered(GitUndo(r))' => \E i \in DOMAIN Roots : i < at + 1 /\ Roots[i] = r
    BY <2>1, <2>3, <2>4, <2>6
  <2>8. QED
    BY <2>1, <2>7 DEF SetAsides, AfterRollouts, AfterRoots, GitUndo
<1>7. CASE RewriteMarket
  <2>1. pc = "market" /\ pc' = "commit" /\ Replace(Market)
    BY <1>7 DEF RewriteMarket, Goto, Fail, Abort, Applying, Uncommitted, Opening
  <2>2. NoGitMore
    BY <2>1, <1>a, ReplaceGit, RootForms
  <2>3. QED
    BY <2>1, <2>2, <1>b DEF SetAsides, NoGitMore, AfterRollouts, AfterRoots, GitUndo
<1>8. QED
  BY <1>2, <1>3, <1>4, <1>5, <1>6, <1>7 DEF FileStep

LEMMA SetAsidesStep == ASSUME Shape, SetAsides, [Next]_vars PROVE SetAsides'
<1>1. CASE pc' \notin Applying
  BY <1>1 DEF SetAsides
<1>2. CASE Begin \/ Kill \/ Restore \/ CodexWrites
  <2>1. pc' \in {"over", "planned", "restore"}
    BY <1>2, BeginCases, KillFrame, RestoreCases, CodexCases
  <2>2. QED
    BY <2>1, <1>1 DEF Applying, Uncommitted, Opening
<1>3. CASE Apply
  <2>1. undo' = <<>> /\ GoesOn
    BY <1>3, ApplyCases DEF Shape, Places, GoesOn
  <2>2. Live' = 0
    BY <2>1, LiveNext
  <2>3. \A u : ~Registered(u)'
    BY <2>2 DEF Registered
  <2>4. QED
    BY <2>3 DEF SetAsides
<1>4. ASSUME NEW k \in Control, NEW next \in Control, Opens(k, next) PROVE SetAsides'
  <2>1. pc \in Opening /\ pc # "restore" /\ GoesOn /\ undo' = undo
    BY <1>4, OpensFrame DEF GoesOn, Opens, Opening
  <2>2. \A u : Registered(u)' <=> Registered(u)
    BY <2>1, RegisteredKept
  <2>3. pc \in Applying /\ pc \notin AfterRollouts
    BY <2>1 DEF Applying, Uncommitted, Opening, AfterRollouts, AfterRoots
  <2>4. QED
    BY <2>2, <2>3 DEF SetAsides, GitUndo
<1>5. ASSUME NEW r \in Worktrees, CodexBaselines(r) PROVE SetAsides'
  BY <1>1, <1>5, BaselinesFrame DEF Applying, Uncommitted, Opening
<1>6. CASE FileStep
  BY <1>1, <1>6, SetAsidesFiles
<1>7. CASE Commit
  <2>1. CASE pc' \in {"commit", "discard"}
    <3>1. pc' \in AfterRoots /\ pc' \in AfterRollouts
      BY <2>1 DEF AfterRoots, AfterRollouts
    <3>2. QED
      BY <3>1 DEF SetAsides
  <2>2. QED
    BY <1>1, <1>7, <2>1, CommitCases DEF Applying, Uncommitted, Opening
<1>8. CASE Discard
  <2>1. CASE pc' = "discard"
    <3>1. pc' \in AfterRoots /\ pc' \in AfterRollouts
      BY <2>1 DEF AfterRoots, AfterRollouts
    <3>2. QED
      BY <3>1 DEF SetAsides
  <2>2. QED
    BY <1>1, <1>8, <2>1, DiscardCases DEF Applying, Uncommitted, Opening
<1>9. CASE UNCHANGED vars
  BY <1>9, StutterFrame DEF SetAsides, Registered, Live, GitUndo
<1>10. QED
  BY <1>2, <1>3, <1>4, <1>5, <1>6, <1>7, <1>8, <1>9, StepCases

-----------------------------------------------------------------------------
(* The commit *)

\* At the commit a database that still has the old path waits for its turn.
LEMMA CommitState ==
  ASSUME Shape, Databased, pc = "commit"
  PROVE  /\ \A d \in there \ late : db[d] = "old" => d \in writes
         /\ \A d \in writes : before.db[d] = "old"
         /\ \A d \in Databases : \E i \in DOMAIN CommitOrder :
              /\ CommitOrder[i] = d /\ i \in Nat
              /\ IF i < at /\ d \in writes THEN db[d] = "new" ELSE db[d] = before.db[d]
<1>1. \A k \in Families : \A i \in DOMAIN Family[k] :
        Family[k][i] \in there \ late /\ db[Family[k][i]] = "old" => Family[k][i] \in writes
  BY DEF Databased, Opened, Applying, Uncommitted, Opening
<1>2. \A d \in there : \E k \in Families : \E i \in DOMAIN Family[k] : Family[k][i] = d
  BY FamilyPlace DEF Shape, TypeOK
<1>3. \A d \in there \ late : db[d] = "old" => d \in writes
  BY <1>1, <1>2
<1>4. \A d \in writes : before.db[d] = "old"
  BY DEF Databased, Applying
<1>5. \A i \in DOMAIN CommitOrder :
        /\ i \in Nat
        /\ IF i < at /\ CommitOrder[i] \in writes THEN db[CommitOrder[i]] = "new"
           ELSE db[CommitOrder[i]] = before.db[CommitOrder[i]]
  BY CommitTurns DEF Databased
<1>6. \A d \in Databases : \E i \in DOMAIN CommitOrder :
        /\ CommitOrder[i] = d /\ i \in Nat
        /\ IF i < at /\ d \in writes THEN db[d] = "new" ELSE db[d] = before.db[d]
  <2> TAKE d \in Databases
  <2>1. PICK i \in DOMAIN CommitOrder : CommitOrder[i] = d
    BY CommitTurns
  <2>2. QED
    BY <1>5, <2>1
<1>7. QED
  BY <1>3, <1>4, <1>6

\* Once a state database is committed the memories and the queue are.
LEMMA StateCommitsLast ==
  ASSUME Shape, Databased, pc = "commit", NEW s \in InFamily("state"), db[s] # before.db[s],
         NEW d \in there \ late, FamilyOf(d) # "state"
  PROVE  db[d] # "old"
<1> SUFFICES ASSUME db[d] = "old" PROVE FALSE
  OBVIOUS
<1>1. s \in Databases /\ d \in Databases /\ FamilyOf(s) = "state" /\ at \in Nat
  BY DEF Shape, TypeOK, InFamily
<1>2. PICK i \in DOMAIN CommitOrder :
        /\ CommitOrder[i] = s /\ i \in Nat
        /\ IF i < at /\ s \in writes THEN db[s] = "new" ELSE db[s] = before.db[s]
  BY <1>1, CommitState
<1>3. PICK j \in DOMAIN CommitOrder :
        /\ CommitOrder[j] = d /\ j \in Nat
        /\ IF j < at /\ d \in writes THEN db[d] = "new" ELSE db[d] = before.db[d]
  BY <1>1, CommitState
<1>4. i < at
  BY <1>2
<1>5. j < i
  BY <1>1, <1>2, <1>3, CommitTurns
<1>6. d \in writes
  BY CommitState
<1>7. QED
  BY <1>1, <1>2, <1>3, <1>4, <1>5, <1>6

LEMMA StateLastCommit == ASSUME Shape, Databased, pc = "commit" PROVE StateLast
<1>1. \A d \in (InFamily("memories") \cup InFamily("queue")) \ late : d \in there \ late /\ FamilyOf(d) # "state"
  BY DEF InFamily
<1>2. QED
  BY <1>1, StateCommitsLast DEF StateLast

LEMMA StateLastSame ==
  ASSUME StateLast, UNCHANGED <<there, db, before, late>>
  PROVE  StateLast'
  BY DEF StateLast, InFamily

LEMMA StateLastUnwritten ==
  ASSUME db' = before'.db
  PROVE  StateLast'
  BY DEF StateLast

LEMMA RestoresStateLastStep ==
  ASSUME Shape, Databased, RestoresStateLast, [Next]_vars
  PROVE  RestoresStateLast'
<1> SUFFICES ASSUME pc' = "restore" PROVE StateLast'
  BY DEF RestoresStateLast
<1>1. CASE Apply
  BY <1>1, ApplyCases, StateLastUnwritten DEF Disk
<1>2. CASE FileStep
  <2>1. pc \in Uncommitted /\ UNCHANGED <<db, before>>
    BY <1>2, FileFrame DEF FilePlaces, Uncommitted
  <2>2. QED
    BY <2>1, StateLastUnwritten DEF Databased
<1>3. ASSUME NEW k \in Control, NEW next \in Control, Opens(k, next) PROVE StateLast'
  <2>1. pc \in Uncommitted /\ UNCHANGED <<db, before>>
    BY <1>3, OpensFrame DEF Uncommitted
  <2>2. QED
    BY <2>1, StateLastUnwritten DEF Databased
<1>4. CASE Commit
  BY <1>4, CommitCases, StateLastCommit, StateLastSame
<1>5. CASE Restore
  BY <1>5, RestoreCases, StateLastSame DEF RestoresStateLast
<1>6. CASE UNCHANGED vars
  BY <1>6, StutterFrame, StateLastSame DEF RestoresStateLast
<1>7. CASE Begin \/ Kill \/ Discard \/ CodexWrites \/ \E r \in Worktrees : CodexBaselines(r)
  BY <1>7, BeginCases, KillFrame, DiscardCases, CodexCases, BaselinesFrame
<1>8. QED
  BY <1>1, <1>2, <1>3, <1>4, <1>5, <1>6, <1>7, StepCases

-----------------------------------------------------------------------------
(* What the project is found by *)

\* Until the commit the databases are what they were.
LEMMA StillKnown ==
  ASSUME Databased, Anchored, anchor = "state", pc \in Uncommitted
  PROVE  KnownByState
  BY DEF Databased, Anchored, KnownByState

\* Past the marketplace no file and no key has the old path.
LEMMA FilesMoved ==
  ASSUME Filed, pc \in {"commit", "discard"}
  PROVE  /\ \A f \in Texts \ late : text[f] # "old"
         /\ OldKeys = {}
         /\ \A r \in Worktrees : ~(git[r] = "old" /\ text[r] = "new")
<1>1. pc \in AfterConfig /\ pc \in AfterRollouts /\ pc \in AfterRoots /\ pc # "baseline"
  BY DEF AfterConfig, AfterRollouts, AfterRoots
<1>2. \A i \in DOMAIN Roots : Visited(i)
  BY <1>1 DEF Visited
<1>3. \A r \in Worktrees : text[r] # "old" /\ (text[r] = "new" => git[r] \in {"none", "remote"})
  BY <1>1, <1>2, RootPlaces DEF Filed
<1>4. /\ \A f \in Rollouts \ late : text[f] # "old"
      /\ text[Market] # "old" /\ OldKeys = {}
  BY <1>1 DEF Filed
<1>5. QED
  BY <1>3, <1>4 DEF Texts

LEMMA NothingOld ==
  ASSUME Shape, Filed, pc \in {"commit", "discard"}, late = {}, \A d \in there : db[d] # "old"
  PROVE  Old = {}
  BY FilesMoved DEF Old

\* At the commit the state databases know the project until nothing is left of it.
LEMMA CommitAnchored ==
  ASSUME Shape, Remembered, Databased, Filed, Anchored, anchor = "state", pc = "commit"
  PROVE  KnownByState \/ Old = {}
<1> SUFFICES ASSUME ~KnownByState PROVE Old = {}
  OBVIOUS
<1>1. late = {}
  BY DEF Remembered
<1>2. PICK s \in InFamily("state") : before.db[s] = "old"
  BY DEF Anchored
<1>3. db[s] # before.db[s]
  BY <1>2 DEF KnownByState
<1>4. \A d \in there : FamilyOf(d) # "state" => db[d] # "old"
  BY <1>1, <1>3, StateCommitsLast
<1>5. \A d \in there : FamilyOf(d) = "state" => db[d] # "old"
  BY DEF KnownByState, InFamily
<1>6. QED
  BY <1>1, <1>4, <1>5, NothingOld

\* A commit that can fail leaves a state database that knows the project.
LEMMA FailedCommitAnchored ==
  ASSUME Shape, Remembered, Databased, Anchored, anchor = "state", pc = "commit",
         at = 1 \/ (at <= Len(CommitOrder) /\ CommitOrder[at] \in writes)
  PROVE  KnownByState
<1>1. PICK s \in InFamily("state") : before.db[s] = "old"
  BY DEF Anchored
<1>2. s \in Databases /\ s \in there /\ late = {} /\ at \in Nat /\ at >= 1
  BY DEF InFamily, Shape, TypeOK, Remembered, Places
<1>3. PICK i \in DOMAIN CommitOrder :
        /\ CommitOrder[i] = s /\ i \in Nat
        /\ IF i < at /\ s \in writes THEN db[s] = "new" ELSE db[s] = before.db[s]
  BY <1>2, CommitState
<1>4. CASE at = 1
  <2>1. ~(i < at)
    BY <1>3, <1>4, CommitTurns
  <2>2. QED
    BY <1>1, <1>3, <2>1 DEF KnownByState
<1>5. CASE at <= Len(CommitOrder) /\ CommitOrder[at] \in writes
  <2>1. at \in DOMAIN CommitOrder
    BY <1>2, <1>5, CommitTurns
  <2>2. PICK d \in writes : d = CommitOrder[at]
    BY <1>5
  <2>3. d \in Databases /\ d \in there
    BY <2>2 DEF Shape, TypeOK
  <2>4. PICK j \in DOMAIN CommitOrder :
          /\ CommitOrder[j] = d /\ j \in Nat
          /\ IF j < at /\ d \in writes THEN db[d] = "new" ELSE db[d] = before.db[d]
    BY <2>3, CommitState
  <2>5. j = at
    BY <2>1, <2>2, <2>4, CommitTurns
  <2>6. db[d] = "old"
    BY <1>2, <2>4, <2>5, CommitState
  <2>7. CASE FamilyOf(d) = "state"
    BY <2>3, <2>6, <2>7 DEF KnownByState, InFamily
  <2>8. CASE FamilyOf(d) # "state"
    <3>1. db[s] = before.db[s]
      BY <1>2, <2>3, <2>6, <2>8, StateCommitsLast
    <3>2. QED
      BY <1>1, <3>1 DEF KnownByState
  <2>9. QED
    BY <2>7, <2>8
<1>6. QED
  BY <1>4, <1>5

LEMMA KnownSame ==
  ASSUME KnownByState, UNCHANGED <<there, db>>
  PROVE  KnownByState'
  BY DEF KnownByState, InFamily

LEMMA OldSame ==
  ASSUME Old = {}, UNCHANGED <<there, db, text, trust>>
  PROVE  (Old = {})'
  BY DEF Old, OldKeys

LEMMA AnchoredAway ==
  ASSUME pc' \in {"over", "planned"}, (KnownByState \/ Old = {})', pc' # "planned" \/ dev' \/ KnownByState'
  PROVE  Anchored'
  BY DEF Anchored, Uncommitted, Opening

LEMMA AnchoredRestore ==
  ASSUME pc' = "restore", KnownByState' \/ (undo' = <<>> /\ (Old = {})')
  PROVE  Anchored'
  BY DEF Anchored, Uncommitted, Opening

LEMMA AnchoredApply == ASSUME Shape, Anchored, Apply PROVE Anchored'
<1> SUFFICES ASSUME anchor = "state" PROVE Anchored'
  BY ApplyCases DEF Anchored
<1>1. KnownByState \/ Old = {}
  BY ApplyCases DEF Anchored
<1>2. CASE dev /\ pc' = "restore"
  BY <1>1, <1>2, ApplyCases, KnownSame, OldSame, AnchoredRestore DEF Shape, Places
<1>3. CASE ~dev /\ pc' = "state"
  <2>1. KnownByState
    BY <1>3, ApplyCases DEF Anchored
  <2>2. before'.db = db /\ there' = there
    BY ApplyCases DEF Disk
  <2>3. \E d \in InFamily("state") : db[d] = "old"
    BY <2>1 DEF KnownByState
  <2>4. (\E d \in InFamily("state") : before.db[d] = "old")'
    BY <2>2, <2>3 DEF InFamily
  <2>5. QED
    BY <1>3, <2>4 DEF Anchored
<1>4. QED
  BY <1>2, <1>3, ApplyCases

LEMMA AnchoredBegin == ASSUME Anchored, Begin PROVE Anchored'
<1> SUFFICES ASSUME anchor = "state" PROVE Anchored'
  BY BeginCases DEF Anchored
<1>1. KnownByState \/ Old = {}
  BY BeginCases DEF Anchored
<1>2. (KnownByState \/ Old = {})'
  BY <1>1, BeginCases, KnownSame, OldSame
<1>3. CASE pc' = "over"
  BY <1>2, <1>3, AnchoredAway
<1>4. CASE pc' = "planned" /\ (Known \/ dev)
  <2>1. Old = {} => ~Known
    BY DEF Old, Known, KnownByState, InFamily, Texts
  <2>2. dev' \/ KnownByState'
    BY <1>1, <1>4, <2>1, BeginCases, KnownSame
  <2>3. QED
    BY <1>2, <1>4, <2>2, AnchoredAway
<1>5. QED
  BY <1>3, <1>4, BeginCases

\* Whatever its place, a run that is killed leaves the project known, or moved.
LEMMA AnchoredNow ==
  ASSUME Shape, Remembered, Databased, Filed, Anchored, anchor = "state"
  PROVE  KnownByState \/ Old = {}
<1>1. CASE pc \in Uncommitted
  BY <1>1, StillKnown
<1>2. CASE pc = "commit"
  BY <1>2, CommitAnchored
<1>3. CASE pc = "discard"
  BY <1>3, NothingOld DEF Databased, Remembered
<1>4. CASE pc \in {"over", "planned", "restore"}
  BY <1>4 DEF Anchored
<1>5. QED
  BY <1>1, <1>2, <1>3, <1>4 DEF Shape, TypeOK, Control, Uncommitted, Opening

LEMMA AnchoredRestoring == ASSUME Shape, Anchored, Restore PROVE Anchored'
<1> SUFFICES ASSUME anchor = "state" PROVE Anchored'
  BY RestoreCases DEF Anchored
<1>a. pc = "restore" /\ UNCHANGED <<there, db>>
  BY RestoreCases
<1>1. KnownByState \/ (undo = <<>> /\ Old = {})
  BY <1>a DEF Anchored
<1>2. CASE KnownByState
  <2>1. KnownByState'
    BY <1>2, <1>a, KnownSame
  <2>2. QED
    BY <2>1, RestoreCases, AnchoredAway, AnchoredRestore
<1>3. CASE undo = <<>> /\ Old = {}
  <2>1. at = 0
    BY <1>3, <1>a DEF Shape, TypeOK, Places
  <2>2. pc' = "over" /\ UNCHANGED <<text, trust>>
    BY <2>1, RestoreCases
  <2>3. QED
    BY <1>3, <1>a, <2>2, OldSame, AnchoredAway
<1>4. QED
  BY <1>1, <1>2, <1>3

LEMMA AnchoredStep ==
  ASSUME Shape, Remembered, Databased, Filed, Anchored, [Next]_vars
  PROVE  Anchored'
<1>0. ASSUME NEW k \in Control, NEW next \in Control, Opens(k, next) PROVE Anchored'
  <2> SUFFICES ASSUME anchor = "state" PROVE Anchored'
    BY <1>0, OpensFrame DEF Anchored
  <2>1. pc \in Uncommitted /\ UNCHANGED <<there, db, before>>
    BY <1>0, OpensFrame DEF Uncommitted
  <2>2. KnownByState' /\ \E d \in InFamily("state") : before.db[d] = "old"
    BY <2>1, StillKnown, KnownSame DEF Anchored
  <2>3. CASE pc' = "restore"
    BY <2>2, <2>3, AnchoredRestore
  <2>4. CASE pc' # "restore"
    <3>1. pc' \in Opening \cup {"config"}
      BY <1>0, <2>4, OpensFrame DEF Opens, Opening
    <3>2. QED
      BY <2>1, <2>2, <3>1 DEF Anchored, InFamily, Opening
  <2>5. QED
    BY <2>3, <2>4
<1>1. CASE FileStep
  <2> SUFFICES ASSUME anchor = "state" PROVE Anchored'
    BY <1>1, FileFrame DEF Anchored
  <2>1. pc \in Uncommitted /\ UNCHANGED <<there, db, before>>
    BY <1>1, FileFrame DEF FilePlaces, Uncommitted
  <2>2. KnownByState' /\ \E d \in InFamily("state") : before.db[d] = "old"
    BY <2>1, StillKnown, KnownSame DEF Anchored
  <2>3. CASE pc' = "restore"
    BY <2>2, <2>3, AnchoredRestore
  <2>4. CASE pc' # "restore"
    <3>1. pc' \in FilePlaces \cup {"commit"}
      BY <1>1, <2>4, FileFrame
    <3>2. QED
      BY <2>1, <2>2, <3>1 DEF Anchored, InFamily, FilePlaces
  <2>5. QED
    BY <2>3, <2>4
<1>2. CASE Commit
  <2> SUFFICES ASSUME anchor = "state" PROVE Anchored'
    BY <1>2, CommitCases DEF Anchored
  <2>1. CASE pc' = "restore"
    <3>1. KnownByState /\ UNCHANGED <<there, db>>
      BY <1>2, <2>1, CommitCases, FailedCommitAnchored
    <3>2. QED
      BY <2>1, <3>1, KnownSame, AnchoredRestore
  <2>2. CASE pc' \in {"commit", "discard"}
    BY <1>2, <2>2, CommitCases DEF Anchored, InFamily, Uncommitted, Opening
  <2>3. QED
    BY <1>2, <2>1, <2>2, CommitCases
<1>3. CASE Discard
  <2>1. CASE pc' = "discard"
    BY <2>1 DEF Anchored, Uncommitted, Opening
  <2>2. CASE pc' = "over"
    <3> SUFFICES ASSUME anchor = "state" PROVE Anchored'
      BY <1>3, DiscardCases DEF Anchored
    <3>1. (KnownByState \/ Old = {})'
      BY <1>3, AnchoredNow, DiscardCases, KnownSame, OldSame
    <3>2. QED
      BY <2>2, <3>1, AnchoredAway
  <2>3. QED
    BY <1>3, <2>1, <2>2, DiscardCases
<1>4. CASE Kill
  <2> SUFFICES ASSUME anchor = "state" PROVE Anchored'
    BY <1>4, KillFrame DEF Anchored
  <2>1. (KnownByState \/ Old = {})'
    BY <1>4, AnchoredNow, KillFrame, KnownSame, OldSame
  <2>2. QED
    BY <1>4, <2>1, KillFrame, AnchoredAway
<1>5. CASE CodexWrites
  BY <1>5, CodexCases DEF Anchored
<1>6. ASSUME NEW r \in Worktrees, CodexBaselines(r) PROVE Anchored'
  <2> SUFFICES ASSUME anchor = "state" PROVE Anchored'
    BY <1>6, BaselinesFrame DEF Anchored
  <2>1. (KnownByState \/ Old = {})'
    BY <1>6, AnchoredNow, BaselinesFrame, KnownSame, OldSame
  <2>2. QED
    BY <1>6, <2>1, BaselinesFrame, AnchoredAway
<1>7. CASE UNCHANGED vars
  BY <1>7, StutterFrame DEF Anchored, KnownByState, InFamily, Old, OldKeys
<1>8. QED
  BY <1>0, <1>1, <1>2, <1>3, <1>4, <1>5, <1>6, <1>7, AnchoredBegin, AnchoredApply, AnchoredRestoring, StepCases

-----------------------------------------------------------------------------
(* The causes of a failure *)

LEMMA KeyFinite == IsFiniteSet(Key)
<1> DEFINE A == {[root |-> "old", sub |-> TRUE]}
           B == A \cup {[root |-> "old", sub |-> FALSE]}
           C == B \cup {[root |-> "new", sub |-> TRUE]}
           D == C \cup {[root |-> "new", sub |-> FALSE]}
<1>1. IsFiniteSet(A)
  BY FS_Singleton
<1>2. IsFiniteSet(B)
  BY <1>1, FS_AddElement
<1>3. IsFiniteSet(C)
  BY <1>2, FS_AddElement
<1>4. IsFiniteSet(D)
  BY <1>3, FS_AddElement
<1>5. Key \in SUBSET D
  BY DEF Key
<1>6. QED
  BY <1>4, <1>5, FS_Subset

\* A set of keys with two different ones has more than one.
LEMMA TwoKeys ==
  ASSUME NEW keys \in SUBSET Key, NEW a \in keys, NEW b \in keys, a # b
  PROVE  Cardinality(keys) > 1
<1>1. IsFiniteSet(keys)
  BY KeyFinite, FS_Subset
<1>2. IsFiniteSet({a}) /\ Cardinality({a}) = 1
  BY FS_Singleton
<1>3. {a} \in SUBSET keys /\ {a} # keys
  OBVIOUS
<1>4. Cardinality({a}) <= Cardinality(keys) /\ Cardinality(keys) # Cardinality({a})
  BY <1>1, <1>3, FS_Subset
<1>5. Cardinality(keys) \in Nat
  BY <1>1, FS_CardinalityType
<1>6. QED
  BY <1>2, <1>4, <1>5

\* A project with one trust key has it renamed (applyConfigTOMLKeys).
LEMMA OneKeyRenames ==
  ASSUME NEW k \in Key, k.root = "old"
  PROVE  RenameKey({k}, k) # {}
<1>1. Renamed(k, k).root = "new"
  BY DEF Renamed
<1>2. Renamed(k, k) # k
  BY <1>1
<1>3. QED
  BY <1>2 DEF RenameKey

\* The keys cannot be renamed only when there are two of them or more.
LEMMA ConfigFailureHasCause ==
  ASSUME trust \in SUBSET Key, NEW first \in OldKeys, NEW last \in OldKeys,
         OldKeys = {first, last}, RenameKeys(first, last) = {}
  PROVE  Cardinality(trust) > 1
<1>1. first \in trust /\ first \in Key /\ first.root = "old" /\ last \in trust
  BY DEF OldKeys
<1>2. CASE trust = {first}
  <2>1. first = last
    BY <1>1, <1>2
  <2>2. RenameKeys(first, last) = RenameKey({first}, first)
    BY <1>2, <2>1 DEF RenameKeys
  <2>3. QED
    BY <1>1, <2>2, OneKeyRenames
<1>3. CASE \E key \in trust : key # first
  BY <1>1, <1>3, TwoKeys
<1>4. QED
  BY <1>1, <1>2, <1>3

LEMMA CausedConfig ==
  ASSUME Shape, Remembered, PlanKnows, Restorable, Config, pc' = "restore", ~fault'
  PROVE  Cardinality(before'.trust) > 1
<1> USE DEF Config
<1>a. pc = "config" /\ before' = before /\ trust \in SUBSET Key /\ undo = <<>> /\ ~spoiled
  BY DEF kept, Shape, TypeOK, Places, Remembered, Applying, Uncommitted
<1>1. PICK first \in plan.keys, last \in plan.keys :
        plan.keys = {first, last} /\ RenameKeys(first, last) = {}
  BY DEF Fail, Goto, Abort
<1>2. plan.keys = OldKeys
  BY <1>a DEF PlanKnows
<1>3. Cardinality(trust) > 1
  BY <1>a, <1>1, <1>2, ConfigFailureHasCause
<1>4. Live = 0
  BY <1>a DEF Live
<1>5. ~Registered(TrustUndo)
  BY <1>4 DEF Registered
<1>6. trust = before.trust
  BY <1>a, <1>5 DEF Restorable, Uncommitted
<1>7. QED
  BY <1>a, <1>3, <1>6

\* Without drift the databases found are the planned ones, as they were planned.
LEMMA CausedOpens ==
  ASSUME Shape, PlanKnows, NEW k, NEW next, Opens(k, next), pc' = "restore", ~fault'
  PROVE  drift'
<1>a. k \in Opening /\ pc = k /\ drift' = drift
  BY OpensFrame
<1> SUFFICES ASSUME ~drift PROVE FALSE
  BY <1>a DEF Shape, TypeOK
<1>1. /\ plan.dbs = InFamily("state") \cup InFamily("queue")
      /\ \A d \in plan.rows : db[d] = "old"
  BY <1>a DEF PlanKnows
<1>2. ~Drifted(k)
  <2>1. CASE k = "memories"
    BY <2>1 DEF Drifted
  <2>2. CASE k \in {"state", "queue"}
    BY <2>2, <1>1 DEF Drifted, InFamily
  <2>3. QED
    BY <1>a, <2>1, <2>2 DEF Opening
<1>3. \A d : ~Stale(d)
  BY <1>1 DEF Stale
<1>4. next # "restore" /\ k # "restore"
  BY DEF Opens
<1>5. QED
  BY <1>2, <1>3, <1>4, <1>a, OpenCases DEF Opens, Goto

LEMMA CausedStep ==
  ASSUME Shape, Remembered, PlanKnows, Filed, Restorable, Caused, [Next]_vars
  PROVE  Caused'
<1> SUFFICES ASSUME pc' = "restore", ~fault'
             PROVE  dev' \/ drift' \/ Cardinality(before'.trust) > 1
  BY DEF Caused
<1>1. CASE Apply
  BY <1>1, ApplyCases
<1>2. ASSUME NEW k \in Control, NEW next \in Control, Opens(k, next) PROVE drift'
  BY <1>2, CausedOpens
<1>3. CASE Config
  BY <1>3, CausedConfig
<1>4. CASE SetAsideBaseline
  <2>1. pc = "baseline"
    BY <1>4 DEF SetAsideBaseline
  <2>2. backup[Roots[at]] = "none"
    BY <2>1 DEF Filed
  <2>3. fault'
    BY <1>4, <2>2 DEF SetAsideBaseline, Goto, Fail, Abort
  <2>4. QED
    BY <2>3
<1>5. CASE RewriteRollouts \/ Reconcile \/ RewriteWorktree \/ RewriteMarket
  <2>1. fault'
    <3>1. CASE RewriteRollouts
      BY <3>1 DEF RewriteRollouts, Goto, Fail, Abort
    <3>2. CASE Reconcile
      BY <3>2 DEF Reconcile, Goto, Fail, Abort
    <3>3. CASE RewriteWorktree
      BY <3>3 DEF RewriteWorktree, Goto, Fail, Abort
    <3>4. CASE RewriteMarket
      BY <3>4 DEF RewriteMarket, Goto, Fail, Abort
    <3>5. QED
      BY <1>5, <3>1, <3>2, <3>3, <3>4
  <2>2. QED
    BY <2>1
<1>6. CASE Commit
  BY <1>6, CommitCases
<1>7. CASE Restore
  BY <1>7, RestoreCases DEF Caused
<1>8. CASE UNCHANGED vars
  BY <1>8, StutterFrame DEF Caused
<1>9. CASE Begin \/ Kill \/ Discard \/ CodexWrites \/ \E r \in Worktrees : CodexBaselines(r)
  BY <1>9, BeginCases, KillFrame, DiscardCases, CodexCases, BaselinesFrame
<1>10. QED
  BY <1>1, <1>2, <1>3, <1>4, <1>5, <1>6, <1>7, <1>8, <1>9, StepCases DEF FileStep

-----------------------------------------------------------------------------
(* The end of a run *)

LEMMA EndsElsewhere ==
  ASSUME pc' # "over" \/ outcome' \in {"none", "absent", "killed"}
  PROVE  Ends'
  BY DEF Ends, SuccessMovesAll, NoStaleBaseline, FailureRollsBack, FailureHasCause

\* A run that ends well has left the old path nowhere, and no baseline of it.
LEMMA EndsDiscard == ASSUME Shape, Databased, Filed, Discard, pc' = "over" PROVE Ends'
<1>1. /\ pc = "discard" /\ outcome' = "ok"
      /\ UNCHANGED <<there, db, text, trust, git, late>>
  BY DiscardCases
<1>2. \A d \in there \ late : db[d] # "old"
  BY <1>1 DEF Databased
<1>3. /\ \A f \in Texts \ late : text[f] # "old"
      /\ OldKeys = {}
      /\ \A r \in Worktrees : ~(git[r] = "old" /\ text[r] = "new")
  BY <1>1, FilesMoved
<1>4. SuccessMovesAll'
  BY <1>1, <1>2, <1>3 DEF SuccessMovesAll, OldKeys
<1>5. NoStaleBaseline'
  BY <1>1, <1>3 DEF NoStaleBaseline
<1>6. QED
  BY <1>1, <1>4, <1>5 DEF Ends, FailureRollsBack, FailureHasCause

\* A run that ends badly has nothing registered left to undo.
LEMMA EndsRestore ==
  ASSUME Shape, Restorable, RestoresStateLast, Caused, Restore, pc' = "over"
  PROVE  Ends'
<1>1. /\ pc = "restore" /\ at = 0 /\ outcome' = "failed"
      /\ UNCHANGED <<there, db, text, trust, git, backup, spoiled, dev, fault, drift, late, before>>
  BY RestoreCases
<1>2. SuccessMovesAll' /\ NoStaleBaseline'
  BY <1>1 DEF SuccessMovesAll, NoStaleBaseline
<1>3. FailureHasCause'
  BY <1>1 DEF Caused, FailureHasCause
<1>4. ASSUME ~spoiled
      PROVE  /\ text = before.text /\ trust = before.trust
             /\ \A r \in Worktrees : git[r] = before.git[r] /\ backup[r] \in {"none", before.backup[r]}
  <2>1. Live = 0
    BY <1>1 DEF Live
  <2>2. \A u : ~Registered(u)
    BY <2>1 DEF Registered
  <2>3. /\ \A f \in Texts : text[f] = before.text[f]
        /\ trust = before.trust
        /\ \A r \in Worktrees : Untouched(r)
    BY <1>1, <1>4, <2>2 DEF Restorable
  <2>4. text \in [Texts -> Paths] /\ before.text \in [Texts -> Paths]
    BY DEF Shape, TypeOK, BeforeTyped
  <2>5. text = before.text
    BY <2>3, <2>4
  <2>6. QED
    BY <2>3, <2>5 DEF Untouched
<1>5. StateLast
  BY <1>1 DEF RestoresStateLast
<1>6. StateLast'
  BY <1>1, <1>5, StateLastSame
<1>7. FailureRollsBack'
  BY <1>1, <1>4, <1>6 DEF FailureRollsBack, StateLast
<1>8. QED
  BY <1>2, <1>3, <1>7 DEF Ends

\* A fresh baseline is of what the worktree says now.
LEMMA EndsBaselines == ASSUME Shape, Ends, NEW r \in Worktrees, CodexBaselines(r) PROVE Ends'
<1>1. /\ git[r] = "none" /\ git' = [git EXCEPT ![r] = BaselineOf(text[r])]
      /\ UNCHANGED <<pc, outcome, there, db, text, trust, backup, spoiled, dev, fault, drift, late, before>>
  BY BaselinesFrame
<1>2. \A w \in Worktrees : git'[w] = IF w = r THEN BaselineOf(text[r]) ELSE git[w]
  BY <1>1 DEF Shape, TypeOK
<1>3. BaselineOf(text[r]) = "old" => text[r] = "old"
  BY DEF BaselineOf
<1>4. NoStaleBaseline'
  BY <1>1, <1>2, <1>3 DEF Ends, NoStaleBaseline
<1>5. SuccessMovesAll' /\ FailureHasCause'
  BY <1>1 DEF Ends, SuccessMovesAll, FailureHasCause, OldKeys
<1>6. FailureRollsBack'
  <2> SUFFICES ASSUME pc = "over" /\ outcome = "failed" /\ ~spoiled PROVE FailureRollsBack'
    BY <1>1 DEF FailureRollsBack
  <2>1. /\ text = before.text /\ trust = before.trust
        /\ \A w \in Worktrees :
             /\ before.git[w] # "none" => git[w] = before.git[w]
             /\ backup[w] \in {"none", before.backup[w]}
        /\ (\E d \in InFamily("state") : db[d] # before.db[d]) =>
             \A d \in (InFamily("memories") \cup InFamily("queue")) \ late : db[d] # "old"
    BY DEF Ends, FailureRollsBack
  <2>2. \A w \in Worktrees : before.git[w] # "none" => git'[w] = before.git[w]
    BY <1>1, <1>2, <2>1
  <2>3. QED
    BY <1>1, <2>1, <2>2 DEF FailureRollsBack, InFamily
<1>7. QED
  BY <1>4, <1>5, <1>6 DEF Ends

LEMMA EndsStep ==
  ASSUME Shape, Databased, Filed, Restorable, RestoresStateLast, Caused, Ends, [Next]_vars
  PROVE  Ends'
<1>1. CASE Begin \/ Kill
  BY <1>1, BeginCases, KillFrame, EndsElsewhere
<1>2. CASE Apply \/ FileStep \/ Commit \/ CodexWrites
  BY <1>2, ApplyCases, FileFrame, CommitCases, CodexCases, EndsElsewhere DEF FilePlaces
<1>3. ASSUME NEW k \in Control, NEW next \in Control, Opens(k, next) PROVE Ends'
  BY <1>3, OpensFrame, EndsElsewhere DEF Opens
<1>4. CASE Discard
  BY <1>4, EndsDiscard, EndsElsewhere
<1>5. CASE Restore
  BY <1>5, EndsRestore, EndsElsewhere
<1>6. CASE UNCHANGED vars
  BY <1>6, StutterFrame
     DEF Ends, SuccessMovesAll, NoStaleBaseline, FailureRollsBack, FailureHasCause, OldKeys, InFamily
<1>7. QED
  BY <1>1, <1>2, <1>3, <1>4, <1>5, <1>6, EndsBaselines, StepCases

-----------------------------------------------------------------------------
(* The theorems *)

LEMMA InvariantInit == ASSUME Init PROVE IInv
<1>1. Shape
  BY ShapeInit
<1>2. pc = "over" /\ outcome = "none" /\ late = {} /\ drift = FALSE
  BY DEF Init
<1>3. Remembered
  BY <1>2 DEF Remembered, Applying, Uncommitted, Opening
<1>4. PlanKnows
  BY <1>2 DEF PlanKnows, Opening
<1>5. Databased
  BY <1>2, DatabasedNot DEF Applying, Uncommitted, Opening
<1>6. Filed
  BY <1>2 DEF Filed, AfterConfig, AfterRollouts, AfterRoots, Visited
<1>7. Restorable /\ SetAsides /\ RestoresStateLast /\ Caused
  BY <1>2 DEF Restorable, SetAsides, RestoresStateLast, Caused, Applying, Uncommitted, Opening
<1>8. Anchored
  BY <1>2 DEF Anchored, Uncommitted, Opening, Init, Known, Old, KnownByState
<1>9. Ends
  BY <1>2 DEF Ends, SuccessMovesAll, NoStaleBaseline, FailureRollsBack, FailureHasCause
<1>10. QED
  BY <1>1, <1>3, <1>4, <1>5, <1>6, <1>7, <1>8, <1>9 DEF IInv

LEMMA InvariantStep == ASSUME IInv, [Next]_vars PROVE IInv'
<1>1. /\ Shape /\ Remembered /\ PlanKnows /\ Databased /\ Filed
      /\ Restorable /\ SetAsides /\ RestoresStateLast /\ Anchored /\ Caused /\ Ends
  BY DEF IInv
<1>2. Shape' /\ Remembered' /\ PlanKnows'
  BY <1>1, ShapeStep, RememberedStep, PlanKnowsStep
<1>3. Databased' /\ Filed'
  BY <1>1, DatabasedStep, FiledStep
<1>4. Restorable' /\ SetAsides' /\ RestoresStateLast'
  BY <1>1, RestorableStep, SetAsidesStep, RestoresStateLastStep
<1>5. Anchored' /\ Caused' /\ Ends'
  BY <1>1, AnchoredStep, CausedStep, EndsStep
<1>6. QED
  BY <1>2, <1>3, <1>4, <1>5 DEF IInv

LEMMA Invariant == Spec => []IInv
<1>1. Init => IInv
  BY InvariantInit
<1>2. IInv /\ [Next]_vars => IInv'
  BY InvariantStep
<1>3. QED
  BY <1>1, <1>2, PTL DEF Spec

\* In every run, with any number of databases, session logs and worktrees: a
\* move that reports success leaves the old path in no row or file that its plan
\* could know and in no trust key (requireDiscovered, commitSurface).
THEOREM SuccessIsComplete == Spec => []SuccessMovesAll
<1>1. IInv => SuccessMovesAll
  BY DEF IInv, Ends
<1>2. QED
  BY <1>1, Invariant, PTL

\* In every run, no worktree that names the new path keeps a local git baseline of
\* the old one after a success, also when an earlier run had rewritten the
\* worktree and was killed (moveGitBaselineToBackup).
THEOREM SuccessKeepsNoStaleBaseline == Spec => []NoStaleBaseline
<1>1. IInv => NoStaleBaseline
  BY DEF IInv, Ends
<1>2. QED
  BY <1>1, Invariant, PTL

\* In every run, a failed move whose undoing had no error has left every file,
\* trust key and git directory as it was, and has committed a state database only
\* after all the others (Restorer.Restore, commitSurface).
THEOREM FailureIsUndone == Spec => []FailureRollsBack
<1>1. IInv => FailureRollsBack
  BY DEF IInv, Ends
<1>2. QED
  BY <1>1, Invariant, PTL

\* In every run, a project that the state databases know stays known to them until
\* nothing of its old path is left, through failures, partial commits and kills
\* (commitSurface: the state databases commit last).
THEOREM ProjectStaysDiscoverable == Spec => []DiscoverableUntilMoved
<1>1. IInv => DiscoverableUntilMoved
  BY DEF IInv, Anchored, DiscoverableUntilMoved
<1>2. QED
  BY <1>1, Invariant, PTL

\* In every run, a move fails only by a fault, by a reference in codex-dev.db, by
\* what Codex wrote after the plan or by more than one trust key; what an earlier
\* run left behind never stops it (reconcileStrandedGitBackup).
THEOREM FailuresHaveCauses == Spec => []FailureHasCause
<1>1. IInv => FailureHasCause
  BY DEF IInv, Ends
<1>2. QED
  BY <1>1, Invariant, PTL

=============================================================================
