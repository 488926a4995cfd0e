------------------------------ MODULE CodexMove ------------------------------
(***************************************************************************)
(* Codex's side of cc-port move --apply: SQLite databases in three         *)
(* families, each rewritten in a transaction that stays open while the     *)
(* files are rewritten and is committed by the last surface, with a        *)
(* rollback journal (tool.Restorer) for the files only.  The plan is made  *)
(* before the tool's lock is taken, so Codex may still write in between.   *)
(* Any step may fail, the process may be killed between any two, and the   *)
(* same move may be run again.  How the journal keeps a pre-image is the   *)
(* subject of ClaudeMove and one step here.                                *)
(***************************************************************************)
EXTENDS Integers, Sequences, FiniteSets

CONSTANTS
  Family,    \* family of databases -> the files its glob may find, in sorted order
  Rollouts,  \* session logs
  Roots,     \* memory worktrees, each with a git baseline, in walking order
  Market,    \* the plugin marketplace file
  Starts,    \* the sets of databases to start from
  Trusts,    \* the sets of config trust keys to start from
  MaxRuns    \* bound: how often the move is run

Families == {"state", "memories", "queue"}
Databases == UNION {{Family[k][i] : i \in DOMAIN Family[k]} : k \in Families}
FamilyOf(d) == CHOOSE k \in Families : \E i \in DOMAIN Family[k] : Family[k][i] = d
Worktrees == {Roots[i] : i \in DOMAIN Roots}
Texts == Rollouts \cup Worktrees \cup {Market}

(* What a database or file says of the project: nothing, its old path, its  *)
(* new one.                                                                 *)
Paths == {"none", "old", "new"}

(* A trust key names the project or a directory below it.                   *)
Key == [root : {"old", "new"}, sub : BOOLEAN]

(* A worktree's git: none, one with a remote, or a local baseline that holds *)
(* the worktree as it was without the project's path, or with either path.   *)
Git == {"none", "remote", "clean", "old", "new"}
BaselineOf(said) == IF said = "none" THEN "clean" ELSE said

ASSUME FamilyAssumption ==
  /\ Family \in [Families -> Seq(Databases)]
  /\ \A k, l \in Families : \A i \in DOMAIN Family[k], j \in DOMAIN Family[l] :
       Family[k][i] = Family[l][j] => k = l /\ i = j
ASSUME RootsAssumption ==
  /\ Roots \in Seq(Worktrees)
  /\ \A i, j \in DOMAIN Roots : Roots[i] = Roots[j] => i = j
ASSUME TextsAssumption == Market \notin Rollouts \cup Worktrees /\ Rollouts \cap Worktrees = {}
ASSUME StartsAssumption == Starts \subseteq SUBSET Databases
ASSUME TrustsAssumption == Trusts \subseteq SUBSET [root : {"old"}, sub : BOOLEAN]
ASSUME MaxRunsAssumption == MaxRuns \in Nat

VARIABLES
  there,    \* the databases that exist
  db,       \* what each says of the project
  text,     \* what each file says of it
  trust,    \* the trust keys under the project in config.toml
  git,      \* the git directory of each worktree
  backup,   \* the rollback backup beside it
  dev,      \* codex-dev.db refers to the project
  pc,       \* control state of the run
  at,       \* next database, worktree or registration
  plan,     \* what the preflight captured
  writes,   \* databases whose open transaction has written something
  undo,     \* the Restorer's registrations
  renamed,  \* worktrees whose git this run has renamed to its backup
  outcome,  \* how the last run ended
  fault,    \* history: the run met a fault or a cancellation
  drift,    \* history: Codex wrote between the plan and the apply
  late,     \* history: what it wrote then that the plan cannot know
  spoiled,  \* history: the rollback reported an error
  before,   \* history: the disk when the apply began
  anchor,   \* history: by what Codex knew the project at first
  runs      \* runs begun

disk == <<there, db, text, trust, git, backup>>
memory == <<plan, writes, undo, renamed>>
history == <<fault, drift, late, spoiled, before, anchor, runs>>
vars == <<disk, dev, pc, at, memory, outcome, history>>

Control == {"over", "planned", "state", "memories", "queue", "config", "rollouts",
            "reconcile", "worktree", "baseline", "market", "commit", "discard", "restore"}

Plan == [dbs : SUBSET Databases, rows : SUBSET Databases, keys : SUBSET Key,
         rollouts : SUBSET Rollouts]
NoPlan == [dbs |-> {}, rows |-> {}, keys |-> {}, rollouts |-> {}]

Undo == [what : {"text"}, of : Texts] \cup [what : {"git"}, of : Worktrees] \cup {[what |-> "trust"]}

Disk == [db |-> db, text |-> text, trust |-> trust, git |-> git, backup |-> backup]

TypeOK ==
  /\ there \subseteq Databases
  /\ db \in [Databases -> Paths]
  /\ text \in [Texts -> Paths]
  /\ trust \in SUBSET Key
  /\ git \in [Worktrees -> Git] /\ backup \in [Worktrees -> Git \ {"remote"}]
  /\ dev \in BOOLEAN
  /\ pc \in Control /\ at \in Nat
  /\ plan \in Plan
  /\ writes \subseteq there
  /\ undo \in Seq(Undo)
  /\ renamed \subseteq Worktrees
  /\ outcome \in {"none", "ok", "absent", "failed", "killed"}
  /\ fault \in BOOLEAN /\ drift \in BOOLEAN /\ spoiled \in BOOLEAN
  /\ late \subseteq Databases \cup Rollouts
  /\ anchor \in {"state", "files", "none"}
  /\ runs \in 0 .. MaxRuns

-----------------------------------------------------------------------------
(* What Codex knows *)

InFamily(k) == {d \in there : FamilyOf(d) = k}
KnownByState == \E d \in InFamily("state") : db[d] = "old"
OldKeys == {k \in trust : k.root = "old"}

\* Identity: a thread or project-root row, a trust key, or a rollout's directory.
Known == KnownByState \/ OldKeys # {} \/ \E f \in Rollouts : text[f] = "old"

Init ==
  /\ there \in Starts
  /\ db \in [Databases -> {"none", "old"}] /\ \A d \in Databases \ there : db[d] = "none"
  /\ text \in [Texts -> {"none", "old"}]
  /\ trust \in Trusts
  /\ git \in [Worktrees -> Git]
  /\ \A r \in Worktrees : git[r] \in {"none", "remote", BaselineOf(text[r])}
  /\ backup = [r \in Worktrees |-> "none"]
  /\ dev \in BOOLEAN
  /\ pc = "over" /\ at = 0
  /\ plan = NoPlan /\ writes = {} /\ undo = <<>> /\ renamed = {}
  /\ outcome = "none"
  /\ fault = FALSE /\ drift = FALSE /\ late = {} /\ spoiled = FALSE
  /\ before = Disk
  /\ anchor = IF KnownByState THEN "state" ELSE IF Known THEN "files" ELSE "none"
  /\ runs = 0

-----------------------------------------------------------------------------
(* Beginning and ending *)

Goto(label, place) == pc' = label /\ at' = place

\* The end of a process, and of what it kept in memory.
End(why) ==
  /\ Goto("over", 0) /\ outcome' = why
  /\ plan' = NoPlan /\ writes' = {} /\ undo' = <<>> /\ renamed' = {}

\* A run computes its surfaces and captures what they will rewrite.
Begin ==
  /\ pc = "over" /\ runs < MaxRuns
  /\ runs' = runs + 1
  /\ fault' = FALSE /\ drift' = FALSE /\ late' = {} /\ spoiled' = FALSE
  /\ before' = Disk
  /\ \/ ~Known /\ ~dev /\ End("absent")
     \/ /\ Known \/ dev
        /\ Goto("planned", 0) /\ outcome' = "none"
        /\ UNCHANGED <<writes, undo, renamed>>
        /\ plan' = [dbs |-> InFamily("state") \cup InFamily("queue"),
                    rows |-> {d \in InFamily("state") \cup InFamily("queue") : db[d] = "old"},
                    keys |-> OldKeys,
                    rollouts |-> {f \in Rollouts : text[f] = "old"}]
  /\ UNCHANGED <<disk, dev, anchor>>

\* A run that dies takes its open transactions with it; SQLite rolls them back.
Kill ==
  /\ pc # "over"
  /\ End("killed")
  /\ UNCHANGED <<disk, dev, history>>

\* An error: the Restorer undoes the registrations, last first, and the open
\* transactions are rolled back.
Abort ==
  /\ Goto("restore", Len(undo'))
  /\ writes' = {}
Fail == Abort /\ fault' = TRUE

\* Under the lock the apply begins.  A reference in codex-dev.db refuses it.
Apply ==
  /\ pc = "planned"
  /\ before' = Disk
  /\ \/ dev /\ UNCHANGED undo /\ Abort
     \/ ~dev /\ Goto("state", 1) /\ UNCHANGED <<writes, undo>>
  /\ UNCHANGED <<disk, dev, plan, renamed, outcome, fault, drift, late, spoiled, anchor, runs>>

kept == <<dev, outcome, drift, late, spoiled, before, anchor, runs>>

-----------------------------------------------------------------------------
(* The databases *)

\* The places of the databases that the glob finds, from a place on.
Discovered(k, from) == {i \in DOMAIN Family[k] : i >= from /\ Family[k][i] \in there}

\* Mutant: nobody compares the databases found with those planned.
DriftedNever(k) == FALSE

\* The state and queue databases found must be exactly the planned ones.
Drifted(k) == k # "memories" /\ InFamily(k) # {d \in plan.dbs : FamilyOf(d) = k}

\* A planned row must still hold what the plan read; the memories have no plan.
Stale(d) == d \in plan.rows /\ db[d] # "old"
ToWrite(d) == IF FamilyOf(d) = "memories" THEN db[d] = "old" ELSE d \in plan.rows

\* Open a transaction on every database of a family and rewrite inside it.
OpenFamily(k, next) ==
  /\ pc = k
  /\ \/ Drifted(k) /\ UNCHANGED <<undo, fault>> /\ Abort
     \/ ~Drifted(k)
        /\ \/ /\ Discovered(k, at) = {}
              /\ Goto(next, 1)
              /\ UNCHANGED <<writes, undo, fault>>
           \/ \E i \in Discovered(k, at) :
              /\ \A j \in Discovered(k, at) : i <= j
              /\ UNCHANGED undo
              /\ LET d == Family[k][i] IN
                 \/ Stale(d) /\ UNCHANGED fault /\ Abort
                 \/ /\ ~Stale(d)
                    /\ writes' = IF ToWrite(d) THEN writes \cup {d} ELSE writes
                    /\ Goto(k, i + 1)
                    /\ UNCHANGED fault
                 \/ Fail
  /\ UNCHANGED <<disk, plan, renamed, kept>>

OpenDatabases ==
  OpenFamily("state", "memories") \/ OpenFamily("memories", "queue") \/ OpenFamily("queue", "config")

-----------------------------------------------------------------------------
(* The files *)

\* Every occurrence of a matched key is replaced by the new project path.
Renamed(key, matched) ==
  IF key.root = "old" /\ (matched.sub => key.sub)
  THEN [root |-> "new", sub |-> key.sub /\ ~matched.sub] ELSE key

\* No key changed, or two that become one, is an error, for which the empty set
\* stands.
RenameKey(keys, matched) ==
  IF \/ \A key \in keys : Renamed(key, matched) = key
     \/ \E one, other \in keys : one # other /\ Renamed(one, matched) = Renamed(other, matched)
  THEN {} ELSE {Renamed(key, matched) : key \in keys}

\* One matched key after the other; there are at most two.
RenameKeys(first, last) ==
  LET once == RenameKey(trust, first) IN IF first = last THEN once ELSE RenameKey(once, last)

Config ==
  /\ pc = "config"
  /\ \/ /\ plan.keys = {}
        /\ Goto("rollouts", 1)
        /\ UNCHANGED <<trust, writes, undo, fault>>
     \/ \E first, last \in plan.keys :
          LET result == RenameKeys(first, last) IN
          /\ plan.keys = {first, last}
          /\ \/ /\ result # {}
                /\ trust' = result
                /\ undo' = Append(undo, [what |-> "trust"])
                /\ Goto("rollouts", 1)
                /\ UNCHANGED <<writes, fault>>
             \/ result = {} /\ UNCHANGED <<trust, undo, fault>> /\ Abort
     \/ UNCHANGED <<trust, undo>> /\ Fail
  /\ UNCHANGED <<there, db, text, git, backup, plan, renamed, kept>>

\* Register the pre-image and replace the file; unchanged bytes are left alone.
Replace(f) ==
  IF text[f] = "old"
  THEN text' = [text EXCEPT ![f] = "new"] /\ undo' = Append(undo, [what |-> "text", of |-> f])
  ELSE UNCHANGED <<text, undo>>

RewriteRollouts ==
  /\ pc = "rollouts"
  /\ \/ \E f \in plan.rollouts :
          /\ Replace(f)
          /\ plan' = [plan EXCEPT !.rollouts = @ \ {f}]
          /\ UNCHANGED <<pc, at, writes, fault>>
     \/ /\ plan.rollouts = {}
        /\ Goto("reconcile", 1)
        /\ UNCHANGED <<text, plan, writes, undo, fault>>
     \/ UNCHANGED <<text, plan, undo>> /\ Fail
  /\ UNCHANGED <<there, db, trust, git, backup, renamed, kept>>

\* Mutant: a backup left by a run that was killed stays.
Reconciled(r) == backup

\* A backup that an interrupted run left behind is removed.
WithoutBackup(r) == [backup EXCEPT ![r] = "none"]

Reconcile ==
  /\ pc = "reconcile"
  /\ \/ /\ at <= Len(Roots)
        /\ \/ /\ backup' = WithoutBackup(Roots[at])
              /\ Goto("worktree", at)
              /\ UNCHANGED <<writes, undo, fault>>
           \/ UNCHANGED <<backup, undo>> /\ Fail
     \/ /\ at > Len(Roots)
        /\ Goto("market", 1)
        /\ UNCHANGED <<backup, writes, undo, fault>>
  /\ UNCHANGED <<there, db, text, trust, git, plan, renamed, kept>>

RewriteWorktree ==
  /\ pc = "worktree"
  /\ \/ Replace(Roots[at]) /\ Goto("baseline", at) /\ UNCHANGED <<writes, fault>>
     \/ UNCHANGED <<text, undo>> /\ Fail
  /\ UNCHANGED <<there, db, trust, git, backup, plan, renamed, kept>>

\* Mutant: the baseline goes only when this run has rewritten the worktree.
OutdatedByThisRun(r) ==
  /\ git[r] \notin {"none", "remote"}
  /\ \E i \in DOMAIN undo : undo[i] = [what |-> "text", of |-> r]

\* A local baseline is outdated when the worktree has the new path, by this run
\* or an earlier one.
Outdated(r) == git[r] \notin {"none", "remote"} /\ text[r] = "new"

\* Mutant: the rename is not registered.
SetAsideForgotten(r) ==
  /\ git' = [git EXCEPT ![r] = "none"]
  /\ backup' = [backup EXCEPT ![r] = git[r]]
  /\ UNCHANGED undo

\* Its undo is registered, and the baseline renamed to its backup.
SetAside(r) ==
  /\ undo' = Append(undo, [what |-> "git", of |-> r])
  /\ git' = [git EXCEPT ![r] = "none"]
  /\ backup' = [backup EXCEPT ![r] = git[r]]

\* A rename that fails is registered already; a backup in its place is an error.
SetAsideBaseline ==
  /\ pc = "baseline"
  /\ \/ /\ ~Outdated(Roots[at])
        /\ Goto("reconcile", at + 1)
        /\ UNCHANGED <<git, backup, writes, undo, renamed, fault>>
     \/ /\ Outdated(Roots[at]) /\ backup[Roots[at]] = "none"
        /\ SetAside(Roots[at])
        /\ renamed' = renamed \cup {Roots[at]}
        /\ Goto("reconcile", at + 1)
        /\ UNCHANGED <<writes, fault>>
     \/ /\ Outdated(Roots[at])
        /\ undo' = Append(undo, [what |-> "git", of |-> Roots[at]])
        /\ UNCHANGED <<git, backup, renamed>> /\ Fail
     \/ /\ fault' = (fault \/ backup[Roots[at]] = "none")
        /\ UNCHANGED <<git, backup, undo, renamed>> /\ Abort
  /\ UNCHANGED <<there, db, text, trust, plan, kept>>

RewriteMarket ==
  /\ pc = "market"
  /\ \/ Replace(Market) /\ Goto("commit", 1) /\ UNCHANGED <<writes, fault>>
     \/ UNCHANGED <<text, undo>> /\ Fail
  /\ UNCHANGED <<there, db, trust, git, backup, plan, renamed, kept>>

-----------------------------------------------------------------------------
(* Commit, Restore *)

\* Mutant: the databases commit in the order they were opened.
CommitAsOpened == Family["state"] \o Family["memories"] \o Family["queue"]

\* The state databases are what the project is found by: they commit last.
CommitOrder == Family["memories"] \o Family["queue"] \o Family["state"]

\* One commit after the other; one that fails ends the run, and what was committed
\* stays.  A transaction that wrote nothing has nothing to fail on, and a database
\* that is not there has none.
Commit ==
  /\ pc = "commit"
  /\ \/ /\ at <= Len(CommitOrder)
        /\ db' = IF CommitOrder[at] \in writes THEN [db EXCEPT ![CommitOrder[at]] = "new"] ELSE db
        /\ Goto("commit", at + 1)
        /\ UNCHANGED <<writes, undo, fault>>
     \/ /\ at > Len(CommitOrder)
        /\ Goto("discard", 1)
        /\ UNCHANGED <<db, writes, undo, fault>>
     \/ /\ at = 1 \/ (at <= Len(CommitOrder) /\ CommitOrder[at] \in writes)
        /\ UNCHANGED <<db, undo>> /\ Fail
  /\ UNCHANGED <<there, text, trust, git, backup, plan, renamed, kept>>

\* The git backups of this run are removed, errors ignored, and it has succeeded.
Discard ==
  /\ pc = "discard"
  /\ \/ /\ at <= Len(Roots)
        /\ \/ Roots[at] \in renamed /\ backup' = [backup EXCEPT ![Roots[at]] = "none"]
           \/ UNCHANGED backup
        /\ Goto("discard", at + 1)
        /\ UNCHANGED <<memory, outcome>>
     \/ /\ at > Len(Roots)
        /\ End("ok")
        /\ UNCHANGED backup
  /\ UNCHANGED <<there, db, text, trust, git, dev, history>>

\* The pre-image of the config was taken when the run began to apply.  Undoing a
\* rename that never happened finds no backup.
UndoOne(u) ==
  \/ u.what = "text" /\ text' = [text EXCEPT ![u.of] = "old"] /\ UNCHANGED <<trust, git, backup>>
  \/ u.what = "trust" /\ trust' = before.trust /\ UNCHANGED <<text, git, backup>>
  \/ /\ u.what = "git"
     /\ IF backup[u.of] = "none" THEN UNCHANGED <<git, backup>>
        ELSE git' = [git EXCEPT ![u.of] = backup[u.of]] /\ backup' = [backup EXCEPT ![u.of] = "none"]
     /\ UNCHANGED <<text, trust>>

Restore ==
  /\ pc = "restore"
  /\ \/ /\ at > 0
        /\ \/ UndoOne(undo[at]) /\ UNCHANGED spoiled
           \/ spoiled' = TRUE /\ UNCHANGED <<text, trust, git, backup>>
        /\ Goto("restore", at - 1)
        /\ UNCHANGED <<memory, outcome>>
     \/ /\ at = 0
        /\ End("failed")
        /\ UNCHANGED <<text, trust, git, backup, spoiled>>
  /\ UNCHANGED <<there, db, dev, fault, drift, late, before, anchor, runs>>

Step ==
  \/ Apply \/ OpenDatabases \/ Config \/ RewriteRollouts
  \/ Reconcile \/ RewriteWorktree \/ SetAsideBaseline \/ RewriteMarket
  \/ Commit \/ Discard \/ Restore

-----------------------------------------------------------------------------
(* Codex itself *)

\* Between runs Codex gives a worktree without git a fresh baseline.
CodexBaselines(r) ==
  /\ pc = "over" /\ git[r] = "none"
  /\ git' = [git EXCEPT ![r] = BaselineOf(text[r])]
  /\ UNCHANGED <<there, db, text, trust, backup, dev, pc, at, memory, outcome, history>>

\* A session that comes and goes between the plan and the lock: a database
\* generation appears or is dropped, a row or a rollout of the project appears,
\* a row goes.
CodexWrites ==
  /\ pc = "planned" /\ ~drift
  /\ drift' = TRUE /\ anchor' = "none"
  /\ \/ \E d \in Databases \ there :
          /\ there' = there \cup {d}
          /\ \E said \in {"none", "old"} : db' = [db EXCEPT ![d] = said]
          /\ UNCHANGED <<text, late>>
     \/ \E d \in there :
          /\ there' = there \ {d}
          /\ db' = [db EXCEPT ![d] = "none"]
          /\ UNCHANGED <<text, late>>
     \/ \E d \in there :
          /\ \/ db[d] = "old" /\ db' = [db EXCEPT ![d] = "none"] /\ UNCHANGED late
             \/ db[d] # "old" /\ db' = [db EXCEPT ![d] = "old"] /\ late' = late \cup {d}
          /\ UNCHANGED <<there, text>>
     \/ \E f \in Rollouts :
          /\ text[f] # "old"
          /\ text' = [text EXCEPT ![f] = "old"] /\ late' = late \cup {f}
          /\ UNCHANGED <<there, db>>
  /\ UNCHANGED <<trust, git, backup, dev, pc, at, memory, outcome, fault, spoiled, before, runs>>

Next ==
  \/ Begin \/ Step \/ Kill
  \/ CodexWrites
  \/ \E r \in Worktrees : CodexBaselines(r)

Spec == Init /\ [][Next]_vars

-----------------------------------------------------------------------------
(* Properties *)

Stays(said) == said = "old"

\* A move that reports success leaves no reference to the old path in anything
\* the plan could know: every row and file of the time of the plan, and every
\* state or queue database, also one that came later (requireDiscovered).
SuccessMovesAll ==
  pc = "over" /\ outcome = "ok" =>
    /\ \A d \in there \ late : db[d] # "old"
    /\ \A f \in Texts \ late : text[f] # "old"
    /\ OldKeys = {}

\* After a successful move no worktree that has the new path keeps a local git
\* baseline of the old one, whichever run rewrote it (moveGitBaselineToBackup).
NoStaleBaseline ==
  pc = "over" /\ outcome = "ok" =>
    \A r \in Worktrees : ~(git[r] = "old" /\ text[r] = "new")

\* A failed move that could undo everything has left every file and every git
\* directory as it was.  Databases that had committed stay so, and a state
\* database among them only when no other one is left behind (commitSurface).
FailureRollsBack ==
  pc = "over" /\ outcome = "failed" /\ ~spoiled =>
    /\ text = before.text /\ trust = before.trust
    /\ \A r \in Worktrees :
         /\ before.git[r] # "none" => git[r] = before.git[r]
         /\ backup[r] \in {"none", before.backup[r]}
    /\ (\E d \in InFamily("state") : db[d] # before.db[d]) =>
         \A d \in (InFamily("memories") \cup InFamily("queue")) \ late : db[d] # "old"

Old == {d \in there : db[d] = "old"} \cup {f \in Texts : text[f] = "old"} \cup OldKeys

\* A project that the state databases know stays known to them until nothing of
\* its old path is left, whatever failed, committed in part or was killed: the
\* move can always be run again (commitSurface).
DiscoverableUntilMoved ==
  pc = "over" /\ anchor = "state" /\ Old # {} => KnownByState

\* A move fails only by a fault, by codex-dev.db, by what Codex wrote meanwhile or
\* by a trust key below the project beside the project's own, of which one is
\* renamed with the other; nothing that an earlier run left behind stops it.
FailureHasCause ==
  pc = "over" /\ outcome = "failed" /\ ~fault =>
    dev \/ drift \/ Cardinality(before.trust) > 1

\* What internal/rewrite/README.md says of a key below the project: it stays
\* addressable under the moved project.
TrustKeepsItsPath ==
  pc = "over" /\ outcome = "ok" =>
    trust = {[k EXCEPT !.root = "new"] : k \in before.trust}
=============================================================================
