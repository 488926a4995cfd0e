------------------------------ MODULE RunGuard ------------------------------
(***************************************************************************)
(* The guard around every mutating cc-port command: internal/lock and the  *)
(* bracket that move.Apply and importer.Run put around their writes.       *)
(*                                                                         *)
(* A run preflights its selected tools in registry order.  Per tool it     *)
(* asks the tool's live-writer witness and only then tries the tool's      *)
(* advisory lock, without waiting.  Holding every lock it asks all the     *)
(* witnesses again, then writes, then releases in reverse order.  A move   *)
(* computes its surfaces for a tool BEFORE it locks the tool; an import    *)
(* reads and stages the archive after it holds every lock.                 *)
(*                                                                         *)
(* The tools themselves know nothing of the lock: a writer may start or    *)
(* stop between any two steps.  A process may be killed between any two    *)
(* steps; the kernel then drops its locks.                                 *)
(***************************************************************************)
EXTENDS Integers

CONSTANTS
  N,         \* number of registered tools; a tool is its place in the registry
  Runs,      \* cc-port processes
  Commands,  \* the command lines a process may be started with
  NoRun      \* the holder of a free lock

Tools == 1 .. N

Command == [kind : {"move", "import"}, tools : SUBSET Tools \ {{}}, ignore : BOOLEAN]

ASSUME NAssumption == N \in Nat \ {0}
ASSUME CommandsAssumption == Commands \subseteq Command
ASSUME NoRunAssumption == NoRun \notin Runs
ASSUME RunsAssumption == Runs # {}

VARIABLES
  cmd,       \* cmd[r]: command line of run r
  pc,        \* pc[r]: control state of run r
  prepared,  \* prepared[r]: tools run r has preflighted, locks included
  present,   \* present[r]: tools run r found something to write for
  passed,    \* passed[r]: tools the current recheck or write loop has passed
  outcome,   \* outcome[r]: how run r ends
  ignored,   \* ignored[r]: tools whose live writer run r chose to ignore
  flock,     \* flock[t]: holder of the advisory lock of tool t
  live,      \* live[t]: a session of tool t is running
  steady     \* history: steady[r], tools with a session that has been running
             \* ever since run r held all its locks

procVars == <<prepared, present, passed, outcome, ignored>>
vars == <<cmd, pc, prepared, present, passed, outcome, ignored, flock, live, steady>>

Control == {"surfaces", "witness", "trylock", "stage", "recheck",
            "write", "release", "gone"}
Outcome == {"none", "ok", "live", "contended", "failed", "killed"}

TypeOK ==
  /\ cmd \in [Runs -> Commands]
  /\ pc \in [Runs -> Control]
  /\ prepared \in [Runs -> SUBSET Tools]
  /\ present \in [Runs -> SUBSET Tools]
  /\ passed \in [Runs -> SUBSET Tools]
  /\ outcome \in [Runs -> Outcome]
  /\ ignored \in [Runs -> SUBSET Tools]
  /\ flock \in [Tools -> Runs \cup {NoRun}]
  /\ live \in [Tools -> BOOLEAN]
  /\ steady \in [Runs -> SUBSET Tools]

\* What a run does first for each tool it selects.
FirstLabel(r) == IF cmd[r].kind = "move" THEN "surfaces" ELSE "witness"

Init ==
  /\ cmd \in [Runs -> Commands]
  /\ pc = [r \in Runs |-> FirstLabel(r)]
  /\ prepared = [r \in Runs |-> {}]
  /\ present = [r \in Runs |-> {}]
  /\ passed = [r \in Runs |-> {}]
  /\ outcome = [r \in Runs |-> "none"]
  /\ ignored = [r \in Runs |-> {}]
  /\ flock = [t \in Tools |-> NoRun]
  /\ live \in [Tools -> BOOLEAN]
  /\ steady = [r \in Runs |-> {}]

-----------------------------------------------------------------------------
(* Helpers *)

Earliest(t, S) == t \in S /\ \A u \in S : t <= u
Latest(t, S)   == t \in S /\ \A u \in S : u <= t

\* Mutant: imports nest their locks from the last registered tool inwards.
NextTargetImportReversed(r, t) ==
  IF cmd[r].kind = "import" THEN Latest(t, cmd[r].tools \ prepared[r])
                            ELSE Earliest(t, cmd[r].tools \ prepared[r])

\* The preflight loop visits the selected tools in registry order.
NextTarget(r, t) == Earliest(t, cmd[r].tools \ prepared[r])

Goto(r, label) == pc' = [pc EXCEPT ![r] = label]

\* Apply and Run return; their locals are gone and the deferred releases run.
Return(r, why) ==
  /\ outcome' = [outcome EXCEPT ![r] = why]
  /\ Goto(r, "release")
  /\ present' = [present EXCEPT ![r] = {}]
  /\ passed' = [passed EXCEPT ![r] = {}]
  /\ steady' = [steady EXCEPT ![r] = {}]

-----------------------------------------------------------------------------
(* One run *)

\* A move computes the next tool's surfaces; no lock is held on that tool yet.
\* The tool may not know the project (absent), or computing may fail.
Surfaces(r) ==
  /\ pc[r] = "surfaces"
  /\ \/ /\ \E t \in Tools :
             /\ NextTarget(r, t)
             /\ present' \in {present, [present EXCEPT ![r] = @ \cup {t}]}
        /\ Goto(r, "witness")
        /\ UNCHANGED <<passed, outcome, steady>>
     \/ Return(r, "failed")
  /\ UNCHANGED <<cmd, prepared, ignored, flock, live>>

\* The witness of the next tool runs before its lock is tried.  With
\* --ignore-live-sessions it records writers and reports none.
AskWitness(r) ==
  /\ pc[r] = "witness"
  /\ \E t \in Tools :
       /\ NextTarget(r, t)
       /\ \/ /\ live[t] /\ ~cmd[r].ignore
             /\ Return(r, "live")
             /\ UNCHANGED ignored
          \/ /\ live[t] => cmd[r].ignore
             /\ Goto(r, "trylock")
             /\ ignored' = [ignored EXCEPT ![r] = IF live[t] THEN @ \cup {t} ELSE @]
             /\ UNCHANGED <<present, passed, outcome, steady>>
          \/ Return(r, "failed") /\ UNCHANGED ignored
  /\ UNCHANGED <<cmd, prepared, flock, live>>

\* What follows the lock of tool t: the next tool, or, holding all, the work.
LabelAfterLock(r, t) ==
  IF prepared[r] \cup {t} # cmd[r].tools THEN FirstLabel(r)
  ELSE IF cmd[r].kind = "move" THEN "recheck" ELSE "stage"

Running == {t \in Tools : live[t]}

\* Tool t is now the run's; when it is the last one, the sessions running at
\* this moment are those that a write could overlook.
TakeLock(r, t) ==
  /\ flock' = [flock EXCEPT ![t] = r]
  /\ prepared' = [prepared EXCEPT ![r] = @ \cup {t}]
  /\ Goto(r, LabelAfterLock(r, t))
  /\ steady' = [steady EXCEPT ![r] =
                  IF LabelAfterLock(r, t) = FirstLabel(r) THEN {} ELSE Running]
  /\ UNCHANGED <<present, passed, outcome>>

\* Mutant: a lock file that is already there is taken for an own stale one.
TryLockAnyway(r) ==
  /\ pc[r] = "trylock"
  /\ \E t \in Tools : NextTarget(r, t) /\ TakeLock(r, t)
  /\ UNCHANGED <<cmd, ignored, live>>

\* Try the advisory lock without waiting; another holder refuses the run.
TryLock(r) ==
  /\ pc[r] = "trylock"
  /\ \E t \in Tools :
       /\ NextTarget(r, t)
       /\ \/ flock[t] = NoRun /\ TakeLock(r, t)
          \/ flock[t] # NoRun /\ Return(r, "contended") /\ UNCHANGED <<flock, prepared>>
          \/ Return(r, "failed") /\ UNCHANGED <<flock, prepared>>
  /\ UNCHANGED <<cmd, ignored, live>>

\* An import reads the archive, finds the tools it has a block for, and stages
\* their entries beside their destinations; on any error the temps are removed.
Stage(r) ==
  /\ pc[r] = "stage"
  /\ \/ /\ Goto(r, "recheck")
        /\ \E found \in SUBSET cmd[r].tools : present' = [present EXCEPT ![r] = found]
        /\ UNCHANGED <<passed, outcome, steady>>
     \/ Return(r, "failed")
  /\ UNCHANGED <<cmd, prepared, ignored, flock, live>>

\* The recheck has asked every target in `targets`: refuse or go on.
RecheckEnds(r, targets) ==
  /\ targets \subseteq passed[r]
  /\ \/ /\ outcome[r] = "none"
        /\ Goto(r, "write")
        /\ passed' = [passed EXCEPT ![r] = {}]
        /\ UNCHANGED <<present, outcome, steady>>
     \/ outcome[r] # "none" /\ Return(r, outcome[r])
  /\ UNCHANGED ignored

\* One more target's witness; a writer or a failed scan is remembered.
RecheckAsks(r, t) ==
  /\ passed' = [passed EXCEPT ![r] = @ \cup {t}]
  /\ ignored' = [ignored EXCEPT ![r] = IF live[t] /\ cmd[r].ignore THEN @ \cup {t} ELSE @]
  /\ \/ outcome' = [outcome EXCEPT ![r] = IF live[t] /\ ~cmd[r].ignore THEN "live" ELSE @]
     \/ outcome' = [outcome EXCEPT ![r] = "failed"]
  /\ UNCHANGED <<pc, present, steady>>

\* Mutant: the recheck loop walks the tools the run will write, not all targets.
RecheckPresentOnly(r) ==
  /\ pc[r] = "recheck"
  /\ \/ \E t \in Tools : Earliest(t, present[r] \ passed[r]) /\ RecheckAsks(r, t)
     \/ RecheckEnds(r, present[r])
  /\ UNCHANGED <<cmd, prepared, flock, live>>

\* The recheck asks every target's witness once more, one after the other, and
\* refuses when any of them reported a writer or could not run.
Recheck(r) ==
  /\ pc[r] = "recheck"
  /\ \/ \E t \in Tools : Earliest(t, cmd[r].tools \ passed[r]) /\ RecheckAsks(r, t)
     \/ RecheckEnds(r, cmd[r].tools)
  /\ UNCHANGED <<cmd, prepared, flock, live>>

\* Write the next tool.  A tool's failed move is rolled back and the next tool
\* still runs; a failed promotion or finalize ends the import.
WriteTool(r) ==
  /\ pc[r] = "write"
  /\ \E t \in Tools :
       /\ Earliest(t, present[r] \ passed[r])
       /\ \/ /\ passed' = [passed EXCEPT ![r] = @ \cup {t}]
             /\ \/ UNCHANGED outcome
                \/ cmd[r].kind = "move" /\ outcome' = [outcome EXCEPT ![r] = "failed"]
             /\ UNCHANGED <<pc, present, steady>>
          \/ cmd[r].kind = "import" /\ Return(r, "failed")
  /\ UNCHANGED <<cmd, prepared, ignored, flock, live>>

WriteDone(r) ==
  /\ pc[r] = "write"
  /\ present[r] \subseteq passed[r]
  /\ Return(r, IF outcome[r] = "none" THEN "ok" ELSE outcome[r])
  /\ UNCHANGED <<cmd, prepared, ignored, flock, live>>

\* Deferred releases, last lock first.  A failed unlock turns a success into a
\* reported failure, and the lock stays with the process until it exits.
Release(r) ==
  /\ pc[r] = "release"
  /\ \E t \in Tools :
       /\ Latest(t, prepared[r])
       /\ prepared' = [prepared EXCEPT ![r] = @ \ {t}]
       /\ \/ flock' = [flock EXCEPT ![t] = NoRun] /\ UNCHANGED outcome
          \/ /\ outcome' = [outcome EXCEPT ![r] = IF @ = "ok" THEN "failed" ELSE @]
             /\ UNCHANGED flock
  /\ UNCHANGED <<cmd, pc, present, passed, ignored, live, steady>>

\* Mutant: the lock is the file's presence, which outlives the process.
LocksLeftBy(r) == flock

\* The kernel drops a process's advisory locks when the process ends.
LocksWithout(r) == [t \in Tools |-> IF flock[t] = r THEN NoRun ELSE flock[t]]

\* The process is gone, and everything it kept in memory.
Vanish(r, why) ==
  /\ Goto(r, "gone")
  /\ outcome' = [outcome EXCEPT ![r] = why]
  /\ prepared' = [prepared EXCEPT ![r] = {}]
  /\ present' = [present EXCEPT ![r] = {}]
  /\ passed' = [passed EXCEPT ![r] = {}]
  /\ ignored' = [ignored EXCEPT ![r] = {}]
  /\ steady' = [steady EXCEPT ![r] = {}]
  /\ flock' = LocksWithout(r)

Exit(r) ==
  /\ pc[r] = "release"
  /\ prepared[r] = {}
  /\ Vanish(r, outcome[r])
  /\ UNCHANGED <<cmd, live>>

Kill(r) ==
  /\ pc[r] # "gone"
  /\ Vanish(r, "killed")
  /\ UNCHANGED <<cmd, live>>

Step(r) ==
  \/ Surfaces(r) \/ AskWitness(r) \/ TryLock(r) \/ Stage(r) \/ Recheck(r)
  \/ WriteTool(r) \/ WriteDone(r) \/ Release(r) \/ Exit(r)

-----------------------------------------------------------------------------
(* The tools' own sessions *)

WriterStarts(t) ==
  /\ ~live[t]
  /\ live' = [live EXCEPT ![t] = TRUE]
  /\ UNCHANGED <<cmd, pc, procVars, flock, steady>>

WriterStops(t) ==
  /\ live[t]
  /\ live' = [live EXCEPT ![t] = FALSE]
  /\ steady' = [r \in Runs |-> steady[r] \ {t}]
  /\ UNCHANGED <<cmd, pc, procVars, flock>>

Next ==
  \/ \E r \in Runs : Step(r) \/ Kill(r)
  \/ \E t \in Tools : WriterStarts(t) \/ WriterStops(t)

\* Nothing in a run waits for anyone, so the scheduler keeps it going.
Fairness == \A r \in Runs : WF_vars(Step(r))

Spec == Init /\ [][Next]_vars
FairSpec == Spec /\ Fairness

-----------------------------------------------------------------------------
(* Properties *)

\* What run r may be creating, replacing or removing under a tool's home:
\* staging temps of any selected tool, then the destinations themselves.
Touching(r) ==
  CASE pc[r] = "stage" -> cmd[r].tools
    [] pc[r] \in {"recheck", "write"} -> present[r]
    [] OTHER -> {}

\* Two runs never touch the same tool's state at the same time, whatever mix
\* of move and import they are (internal/lock: Acquire, WithLock).
MutualExclusion ==
  \A r, s \in Runs : r # s => Touching(r) \cap Touching(s) = {}

\* A session that was already running when the run held all its locks, and has
\* run ever since, is never overlooked by a run that writes: such a run was
\* told to ignore sessions and has this tool on the list it will print.  Tools
\* that turned out absent count (lock.RecheckActiveWriters over all targets).
NoSessionOverlooked ==
  \A r \in Runs : pc[r] = "write" =>
    \A t \in steady[r] \cap cmd[r].tools : cmd[r].ignore /\ t \in ignored[r]

\* Runs that only ever get in each other's way cannot all lose: because every
\* run locks in registry order and never waits, one of them gets through.
ContentionSparesOne ==
  /\ \A r \in Runs : pc[r] = "gone"
  /\ \A r \in Runs : outcome[r] \in {"ok", "contended"}
  => \E r \in Runs : outcome[r] = "ok"

\* A lock is never held for good: a run that took it either releases it or its
\* process ends, killed or not, and the kernel releases it.
LocksAreFreed ==
  \A r \in Runs, t \in Tools : flock[t] = r ~> flock[t] # r

\* The guard implements ExclusiveRuns.
Phase(r) ==
  CASE pc[r] = "write" -> "writing"
    [] pc[r] \in {"release", "gone"} -> "over"
    [] OTHER -> "waiting"

Promise == INSTANCE ExclusiveRuns
             WITH wanted <- [r \in Runs |-> cmd[r].tools],
                  phase <- [r \in Runs |-> Phase(r)]

ImplementsExclusiveRuns == Promise!Spec
=============================================================================
