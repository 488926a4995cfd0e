-------------------------- MODULE RunGuard_proofs --------------------------
(***************************************************************************)
(* Proofs about RunGuard, for any number of runs and tools and any command *)
(* lines: its type invariant, that two runs never touch the same tool,     *)
(* that no steady session is overlooked, that contention spares one run,   *)
(* and that it implements ExclusiveRuns.                                   *)
(***************************************************************************)
EXTENDS RunGuard, TLAPS

(* Commands select tools and say whether to ignore sessions. *)
LEMMA CommandFields ==
  ASSUME NEW c \in Commands
  PROVE  /\ c.kind \in {"move", "import"}
         /\ c.tools \subseteq Tools
         /\ c.ignore \in BOOLEAN
  BY CommandsAssumption DEF Command

(* Every place a run can be sent to is a control state. *)
LEMMA LabelTypes ==
  ASSUME TypeOK, NEW r \in Runs, NEW t \in Tools
  PROVE  FirstLabel(r) \in Control /\ LabelAfterLock(r, t) \in Control
  BY DEF FirstLabel, LabelAfterLock, Control

(* What a return does keeps the types of what it changes. *)
LEMMA ReturnTypes ==
  ASSUME TypeOK, NEW r \in Runs, NEW why \in Outcome, Return(r, why)
  PROVE  /\ pc' \in [Runs -> Control]
         /\ outcome' \in [Runs -> Outcome]
         /\ present' \in [Runs -> SUBSET Tools]
         /\ passed' \in [Runs -> SUBSET Tools]
         /\ steady' \in [Runs -> SUBSET Tools]
  BY DEF TypeOK, Return, Goto, Control

(* Taking a lock keeps the types. *)
LEMMA TakeLockTypes ==
  ASSUME TypeOK, NEW r \in Runs, NEW t \in Tools, TakeLock(r, t)
  PROVE  /\ pc' \in [Runs -> Control]
         /\ prepared' \in [Runs -> SUBSET Tools]
         /\ flock' \in [Tools -> Runs \cup {NoRun}]
         /\ steady' \in [Runs -> SUBSET Tools]
         /\ UNCHANGED <<present, passed, outcome>>
  <1>1. FirstLabel(r) \in Control /\ LabelAfterLock(r, t) \in Control
    BY LabelTypes
  <1>2. Running \subseteq Tools
    BY DEF Running
  <1> QED
    BY <1>1, <1>2 DEF TypeOK, TakeLock, Goto

(* Vanishing keeps the types. *)
LEMMA VanishTypes ==
  ASSUME TypeOK, NEW r \in Runs, NEW why \in Outcome, Vanish(r, why),
         UNCHANGED <<cmd, live>>
  PROVE  TypeOK'
  <1>1. flock' \in [Tools -> Runs \cup {NoRun}]
    BY DEF TypeOK, Vanish, LocksWithout
  <1> QED
    BY <1>1 DEF TypeOK, Vanish, Goto, Control

(* Every step keeps the type invariant. *)
LEMMA TypeStep == TypeOK /\ [Next]_vars => TypeOK'
  <1> SUFFICES ASSUME TypeOK, [Next]_vars PROVE TypeOK'
    OBVIOUS
  <1> USE DEF Outcome
  <1>1. ASSUME NEW r \in Runs, Surfaces(r) PROVE TypeOK'
    <2>1. CASE Return(r, "failed")
      BY <1>1, <2>1, ReturnTypes DEF Surfaces, TypeOK
    <2>2. CASE ~Return(r, "failed")
      BY <1>1, <2>2 DEF Surfaces, TypeOK, Goto, Control
    <2> QED
      BY <2>1, <2>2
  <1>2. ASSUME NEW r \in Runs, AskWitness(r) PROVE TypeOK'
    <2>1. CASE \E why \in {"live", "failed"} : Return(r, why) /\ UNCHANGED ignored
      BY <1>2, <2>1, ReturnTypes DEF AskWitness, TypeOK
    <2>2. CASE ~\E why \in {"live", "failed"} : Return(r, why) /\ UNCHANGED ignored
      BY <1>2, <2>2 DEF AskWitness, TypeOK, Goto, Control
    <2> QED
      BY <2>1, <2>2
  <1>3. ASSUME NEW r \in Runs, TryLock(r) PROVE TypeOK'
    <2>1. CASE \E why \in {"contended", "failed"} : Return(r, why) /\ UNCHANGED <<flock, prepared>>
      BY <1>3, <2>1, ReturnTypes DEF TryLock, TypeOK
    <2>2. CASE \E t \in Tools : TakeLock(r, t)
      BY <1>3, <2>2, TakeLockTypes DEF TryLock, TypeOK
    <2> QED
      BY <1>3, <2>1, <2>2 DEF TryLock
  <1>4. ASSUME NEW r \in Runs, Stage(r) PROVE TypeOK'
    <2>1. CASE Return(r, "failed")
      BY <1>4, <2>1, ReturnTypes DEF Stage, TypeOK
    <2>2. CASE ~Return(r, "failed")
      <3>1. cmd[r].tools \subseteq Tools
        BY CommandFields DEF TypeOK
      <3> QED
        BY <1>4, <2>2, <3>1 DEF Stage, TypeOK, Goto, Control
    <2> QED
      BY <2>1, <2>2
  <1>5. ASSUME NEW r \in Runs, Recheck(r) PROVE TypeOK'
    <2>1. CASE \E t \in Tools : RecheckAsks(r, t)
      BY <1>5, <2>1 DEF Recheck, RecheckAsks, TypeOK
    <2>2. CASE Return(r, outcome[r]) /\ UNCHANGED ignored
      <3>1. outcome[r] \in Outcome
        BY DEF TypeOK
      <3> QED
        BY <1>5, <2>2, <3>1, ReturnTypes DEF Recheck, TypeOK
    <2>3. CASE Goto(r, "write") /\ passed' = [passed EXCEPT ![r] = {}]
               /\ UNCHANGED <<present, outcome, steady, ignored>>
      BY <1>5, <2>3 DEF Recheck, TypeOK, Goto, Control
    <2> QED
      BY <1>5, <2>1, <2>2, <2>3 DEF Recheck, RecheckEnds
  <1>6. ASSUME NEW r \in Runs, WriteTool(r) PROVE TypeOK'
    <2>1. CASE Return(r, "failed")
      BY <1>6, <2>1, ReturnTypes DEF WriteTool, TypeOK
    <2>2. CASE ~Return(r, "failed")
      BY <1>6, <2>2 DEF WriteTool, TypeOK
    <2> QED
      BY <2>1, <2>2
  <1>7. ASSUME NEW r \in Runs, WriteDone(r) PROVE TypeOK'
    <2>1. (IF outcome[r] = "none" THEN "ok" ELSE outcome[r]) \in Outcome
      BY DEF TypeOK
    <2> QED
      BY <1>7, <2>1, ReturnTypes DEF WriteDone, TypeOK
  <1>8. ASSUME NEW r \in Runs, Release(r) PROVE TypeOK'
    BY <1>8 DEF Release, TypeOK, Outcome
  <1>9. ASSUME NEW r \in Runs, Exit(r) PROVE TypeOK'
    <2>1. outcome[r] \in Outcome
      BY DEF TypeOK
    <2> QED
      BY <1>9, <2>1, VanishTypes DEF Exit
  <1>10. ASSUME NEW r \in Runs, Kill(r) PROVE TypeOK'
    BY <1>10, VanishTypes DEF Kill
  <1>11. ASSUME NEW t \in Tools, WriterStarts(t) \/ WriterStops(t) PROVE TypeOK'
    <2>1. CASE WriterStarts(t)
      BY <2>1 DEF WriterStarts, TypeOK, procVars
    <2>2. CASE WriterStops(t)
      <3>1. steady' \in [Runs -> SUBSET Tools]
        BY <2>2 DEF WriterStops, TypeOK
      <3> QED
        BY <2>2, <3>1 DEF WriterStops, TypeOK, procVars
    <2> QED
      BY <1>11, <2>1, <2>2
  <1>12. CASE UNCHANGED vars
    BY <1>12 DEF TypeOK, vars, procVars
  <1> QED
    BY <1>1, <1>2, <1>3, <1>4, <1>5, <1>6, <1>7, <1>8, <1>9, <1>10, <1>11, <1>12
       DEF Next, Step

(* Every variable keeps its type. *)
THEOREM Typing == Spec => []TypeOK
  <1>1. Init => TypeOK
    BY DEF Init, TypeOK, Control, Outcome, FirstLabel
  <1> QED
    BY <1>1, TypeStep, PTL DEF Spec

-----------------------------------------------------------------------------
(* Locks *)

(* What keeps two runs apart: a run really holds every lock it believes to   *)
(* hold, it works only when it holds all of them, and what it writes it      *)
(* selected.                                                                 *)
HoldsPrepared == \A r \in Runs : \A t \in prepared[r] : flock[t] = r

WorksLocked ==
  \A r \in Runs : pc[r] \in {"stage", "recheck", "write"} => cmd[r].tools \subseteq prepared[r]

PresentSelected == \A r \in Runs : present[r] \subseteq cmd[r].tools

LockInv == HoldsPrepared /\ WorksLocked /\ PresentSelected

(* A run that returns still holds what it held, and works no more. *)
LEMMA ReturnLocks ==
  ASSUME TypeOK, LockInv, NEW r \in Runs, NEW why, Return(r, why),
         UNCHANGED <<cmd, prepared, flock>>
  PROVE  LockInv'
  BY DEF TypeOK, LockInv, HoldsPrepared, WorksLocked, PresentSelected, Return, Goto

(* A free lock is believed held by nobody, so taking it fools nobody. *)
LEMMA TakeLockLocks ==
  ASSUME TypeOK, LockInv, NEW r \in Runs, NEW t \in Tools,
         flock[t] = NoRun, TakeLock(r, t), UNCHANGED cmd
  PROVE  LockInv'
  <1>1. HoldsPrepared'
    <2> SUFFICES ASSUME NEW s \in Runs, NEW u \in prepared'[s] PROVE flock'[u] = s
      BY DEF HoldsPrepared
    <2>1. prepared'[s] \subseteq Tools /\ prepared[s] \subseteq Tools
      BY TakeLockTypes DEF TypeOK
    <2>2. CASE s = r /\ u = t
      BY <2>2 DEF TakeLock, TypeOK
    <2>3. CASE ~(s = r /\ u = t)
      <3>1. u \in prepared[s]
        BY <2>3 DEF TakeLock, TypeOK
      <3>2. flock[u] = s /\ u # t
        BY <3>1, NoRunAssumption DEF LockInv, HoldsPrepared
      <3> QED
        BY <2>1, <3>2 DEF TakeLock, TypeOK
    <2> QED
      BY <2>2, <2>3
  <1>2. WorksLocked'
    BY DEF LockInv, WorksLocked, TakeLock, Goto, LabelAfterLock, FirstLabel, TypeOK
  <1>3. PresentSelected'
    BY DEF LockInv, PresentSelected, TakeLock
  <1> QED
    BY <1>1, <1>2, <1>3 DEF LockInv

(* A process that ends takes only its own locks with it. *)
LEMMA VanishLocks ==
  ASSUME TypeOK, LockInv, NEW r \in Runs, NEW why, Vanish(r, why), UNCHANGED <<cmd, live>>
  PROVE  LockInv'
  BY DEF TypeOK, LockInv, HoldsPrepared, WorksLocked, PresentSelected, Vanish, Goto, LocksWithout

(* Every step keeps the lock invariant. *)
LEMMA LockStep == TypeOK /\ LockInv /\ [Next]_vars => LockInv'
  <1> SUFFICES ASSUME TypeOK, LockInv, [Next]_vars PROVE LockInv'
    OBVIOUS
  <1> USE DEF LockInv, HoldsPrepared, WorksLocked, PresentSelected
  <1>1. ASSUME NEW r \in Runs, Surfaces(r) PROVE LockInv'
    <2>1. CASE Return(r, "failed")
      BY <1>1, <2>1, ReturnLocks DEF Surfaces
    <2>2. CASE ~Return(r, "failed")
      BY <1>1, <2>2 DEF Surfaces, NextTarget, Earliest, Goto, TypeOK
    <2> QED
      BY <2>1, <2>2
  <1>2. ASSUME NEW r \in Runs, AskWitness(r) PROVE LockInv'
    <2>1. CASE \E why \in {"live", "failed"} : Return(r, why)
      BY <1>2, <2>1, ReturnLocks DEF AskWitness
    <2>2. CASE ~\E why \in {"live", "failed"} : Return(r, why)
      BY <1>2, <2>2 DEF AskWitness, Goto, TypeOK
    <2> QED
      BY <2>1, <2>2
  <1>3. ASSUME NEW r \in Runs, TryLock(r) PROVE LockInv'
    <2>1. CASE \E why \in {"contended", "failed"} : Return(r, why) /\ UNCHANGED <<flock, prepared>>
      BY <1>3, <2>1, ReturnLocks DEF TryLock
    <2>2. CASE \E t \in Tools : flock[t] = NoRun /\ TakeLock(r, t)
      BY <1>3, <2>2, TakeLockLocks DEF TryLock
    <2> QED
      BY <1>3, <2>1, <2>2 DEF TryLock
  <1>4. ASSUME NEW r \in Runs, Stage(r) PROVE LockInv'
    <2>1. CASE Return(r, "failed")
      BY <1>4, <2>1, ReturnLocks DEF Stage
    <2>2. CASE ~Return(r, "failed")
      BY <1>4, <2>2 DEF Stage, Goto, TypeOK
    <2> QED
      BY <2>1, <2>2
  <1>5. ASSUME NEW r \in Runs, Recheck(r) PROVE LockInv'
    <2>1. CASE \E t \in Tools : RecheckAsks(r, t)
      BY <1>5, <2>1 DEF Recheck, RecheckAsks, TypeOK
    <2>2. CASE Return(r, outcome[r])
      BY <1>5, <2>2, ReturnLocks DEF Recheck
    <2>3. CASE Goto(r, "write") /\ UNCHANGED present
      BY <1>5, <2>3 DEF Recheck, TypeOK, Goto
    <2> QED
      BY <1>5, <2>1, <2>2, <2>3 DEF Recheck, RecheckEnds
  <1>6. ASSUME NEW r \in Runs, WriteTool(r) PROVE LockInv'
    <2>1. CASE Return(r, "failed")
      BY <1>6, <2>1, ReturnLocks DEF WriteTool
    <2>2. CASE ~Return(r, "failed")
      BY <1>6, <2>2 DEF WriteTool
    <2> QED
      BY <2>1, <2>2
  <1>7. ASSUME NEW r \in Runs, WriteDone(r) PROVE LockInv'
    BY <1>7, ReturnLocks DEF WriteDone
  <1>8. ASSUME NEW r \in Runs, Release(r) PROVE LockInv'
    <2>1. PICK t \in Tools : /\ Latest(t, prepared[r])
                             /\ prepared' = [prepared EXCEPT ![r] = @ \ {t}]
                             /\ flock' \in {flock, [flock EXCEPT ![t] = NoRun]}
      BY <1>8 DEF Release
    <2>2. flock[t] = r
      BY <2>1 DEF Latest
    <2>3. HoldsPrepared'
      <3> SUFFICES ASSUME NEW s \in Runs, NEW u \in prepared'[s] PROVE flock'[u] = s
        BY DEF HoldsPrepared
      <3>1. u \in prepared[s] /\ u # t
        BY <2>1, <2>2 DEF TypeOK
      <3> QED
        BY <2>1, <3>1 DEF TypeOK
    <2>4. WorksLocked' /\ PresentSelected'
      BY <1>8, <2>1 DEF Release, TypeOK
    <2> QED
      BY <2>3, <2>4
  <1>9. ASSUME NEW r \in Runs, Exit(r) PROVE LockInv'
    BY <1>9, VanishLocks DEF Exit
  <1>10. ASSUME NEW r \in Runs, Kill(r) PROVE LockInv'
    BY <1>10, VanishLocks DEF Kill
  <1>11. ASSUME NEW t \in Tools, WriterStarts(t) \/ WriterStops(t) PROVE LockInv'
    BY <1>11 DEF WriterStarts, WriterStops, procVars
  <1>12. CASE UNCHANGED vars
    BY <1>12 DEF vars, procVars
  <1> QED
    BY <1>1, <1>2, <1>3, <1>4, <1>5, <1>6, <1>7, <1>8, <1>9, <1>10, <1>11, <1>12
       DEF Next, Step

(* The lock invariant holds in every reachable state. *)
THEOREM Locking == Spec => []LockInv
  <1>1. Init => LockInv
    BY DEF Init, LockInv, HoldsPrepared, WorksLocked, PresentSelected, FirstLabel
  <1> QED
    BY <1>1, Typing, LockStep, PTL DEF Spec

(* What a run touches it holds the lock of. *)
LEMMA TouchingPrepared ==
  ASSUME TypeOK, LockInv, NEW r \in Runs
  PROVE  Touching(r) \subseteq prepared[r]
  BY DEF Touching, LockInv, WorksLocked, PresentSelected

(* Two runs never touch the same tool's state at the same time, for any      *)
(* number of runs and tools (lock.Acquire, lock.WithLock).                   *)
THEOREM Exclusion == Spec => []MutualExclusion
  <1>1. TypeOK /\ LockInv => MutualExclusion
    <2> SUFFICES ASSUME TypeOK, LockInv, NEW r \in Runs, NEW s \in Runs, r # s,
                        NEW t \in Touching(r) \cap Touching(s)
                 PROVE  FALSE
      BY DEF MutualExclusion
    <2>1. t \in prepared[r] /\ t \in prepared[s]
      BY TouchingPrepared
    <2> QED
      BY <2>1 DEF LockInv, HoldsPrepared
  <1> QED
    BY <1>1, Typing, Locking, PTL

-----------------------------------------------------------------------------
(* Sessions *)

(* What the recheck knows half way: the sessions it has to account for still *)
(* run, it starts from nothing, and each one it passed it has either refused *)
(* or noted down.                                                            *)
SteadyRuns == \A r \in Runs : \A t \in steady[r] : live[t]

PassedIsFresh == \A r \in Runs : pc[r] \notin {"recheck", "write"} => passed[r] = {}

Noted(r, t) == cmd[r].ignore /\ t \in ignored[r]

PassedIsSeen ==
  \A r \in Runs : pc[r] = "recheck" =>
    \A t \in steady[r] \cap passed[r] : outcome[r] # "none" \/ Noted(r, t)

SessionInv == SteadyRuns /\ PassedIsFresh /\ PassedIsSeen /\ NoSessionOverlooked

(* A run that returns has no sessions left to account for. *)
LEMMA ReturnSessions ==
  ASSUME TypeOK, SessionInv, NEW r \in Runs, NEW why, Return(r, why),
         ignored' \in [Runs -> SUBSET Tools],
         \A s \in Runs \ {r} : ignored'[s] = ignored[s],
         UNCHANGED <<cmd, live>>
  PROVE  SessionInv'
  BY DEF TypeOK, SessionInv, SteadyRuns, PassedIsFresh, PassedIsSeen, Noted,
         NoSessionOverlooked, Return, Goto

(* Neither has a process that is gone. *)
LEMMA VanishSessions ==
  ASSUME TypeOK, SessionInv, NEW r \in Runs, NEW why, Vanish(r, why), UNCHANGED <<cmd, live>>
  PROVE  SessionInv'
  BY DEF TypeOK, SessionInv, SteadyRuns, PassedIsFresh, PassedIsSeen, Noted,
         NoSessionOverlooked, Vanish, Goto

(* Locking starts the account; the recheck has passed nobody yet. *)
LEMMA TakeLockSessions ==
  ASSUME TypeOK, SessionInv, NEW r \in Runs, NEW t \in Tools, pc[r] = "trylock",
         TakeLock(r, t), UNCHANGED <<cmd, ignored, live>>
  PROVE  SessionInv'
  <1>1. SteadyRuns'
    BY DEF TypeOK, SessionInv, SteadyRuns, TakeLock, Running
  <1>2. LabelAfterLock(r, t) # "write" /\ passed[r] = {}
    BY DEF LabelAfterLock, FirstLabel, SessionInv, PassedIsFresh
  <1>3. PassedIsFresh'
    BY <1>2 DEF TypeOK, SessionInv, PassedIsFresh, TakeLock, Goto
  <1>4. PassedIsSeen'
    BY <1>2 DEF TypeOK, SessionInv, PassedIsSeen, Noted, TakeLock, Goto
  <1>5. NoSessionOverlooked'
    BY <1>2 DEF TypeOK, SessionInv, NoSessionOverlooked, TakeLock, Goto
  <1> QED
    BY <1>1, <1>3, <1>4, <1>5 DEF SessionInv

(* A target the recheck asks is refused or noted if its session is steady. *)
LEMMA RecheckAsksSessions ==
  ASSUME TypeOK, SessionInv, NEW r \in Runs, NEW t \in Tools, pc[r] = "recheck",
         RecheckAsks(r, t), UNCHANGED <<cmd, live>>
  PROVE  SessionInv'
  <1>1. SteadyRuns' /\ PassedIsFresh' /\ NoSessionOverlooked'
    BY DEF TypeOK, SessionInv, SteadyRuns, PassedIsFresh, NoSessionOverlooked, RecheckAsks
  <1>2. ASSUME NEW s \in Runs, pc'[s] = "recheck", NEW u \in steady'[s] \cap passed'[s]
        PROVE  outcome'[s] # "none" \/ Noted(s, u)'
    <2>1. CASE s # r
      BY <1>2, <2>1 DEF TypeOK, SessionInv, PassedIsSeen, Noted, RecheckAsks
    <2>2. CASE s = r /\ u = t
      <3>1. live[t]
        BY <1>2, <2>2 DEF SessionInv, SteadyRuns, RecheckAsks
      <3>2. CASE cmd[r].ignore
        BY <2>2, <3>1, <3>2 DEF TypeOK, Noted, RecheckAsks
      <3>3. CASE ~cmd[r].ignore
        BY <2>2, <3>1, <3>3 DEF TypeOK, RecheckAsks
      <3> QED
        BY <3>2, <3>3
    <2>3. CASE s = r /\ u # t
      <3>1. u \in steady[r] \cap passed[r]
        BY <1>2, <2>3 DEF TypeOK, RecheckAsks
      <3>2. outcome[r] # "none" \/ Noted(r, u)
        BY <3>1 DEF SessionInv, PassedIsSeen
      <3>3. outcome[r] # "none" => outcome'[r] # "none"
        BY DEF TypeOK, RecheckAsks
      <3>4. Noted(r, u) => Noted(r, u)'
        BY DEF TypeOK, RecheckAsks, Noted
      <3> QED
        BY <2>3, <3>2, <3>3, <3>4
    <2> QED
      BY <2>1, <2>2, <2>3
  <1> QED
    BY <1>1, <1>2 DEF SessionInv, PassedIsSeen

(* A recheck that goes on has asked every target, so nobody is overlooked. *)
LEMMA RecheckPassesSessions ==
  ASSUME TypeOK, SessionInv, NEW r \in Runs, pc[r] = "recheck", outcome[r] = "none",
         cmd[r].tools \subseteq passed[r], Goto(r, "write"),
         passed' = [passed EXCEPT ![r] = {}],
         UNCHANGED <<cmd, present, outcome, steady, ignored, live>>
  PROVE  SessionInv'
  <1>1. \A t \in steady[r] \cap cmd[r].tools : Noted(r, t)
    BY DEF SessionInv, PassedIsSeen
  <1>2. NoSessionOverlooked'
    BY <1>1 DEF TypeOK, SessionInv, NoSessionOverlooked, Noted, Goto
  <1>3. SteadyRuns' /\ PassedIsFresh' /\ PassedIsSeen'
    BY DEF TypeOK, SessionInv, SteadyRuns, PassedIsFresh, PassedIsSeen, Noted, Goto
  <1> QED
    BY <1>2, <1>3 DEF SessionInv

(* Every step keeps the account of sessions. *)
LEMMA SessionStep == TypeOK /\ SessionInv /\ [Next]_vars => SessionInv'
  <1> SUFFICES ASSUME TypeOK, SessionInv, [Next]_vars PROVE SessionInv'
    OBVIOUS
  <1>0. TypeOK'
    BY TypeStep
  <1> USE DEF SessionInv, SteadyRuns, PassedIsFresh, PassedIsSeen, Noted, NoSessionOverlooked
  <1>1. ASSUME NEW r \in Runs, Surfaces(r) PROVE SessionInv'
    <2>1. CASE Return(r, "failed")
      BY <1>1, <2>1, ReturnSessions DEF Surfaces, TypeOK
    <2>2. CASE ~Return(r, "failed")
      BY <1>1, <2>2 DEF Surfaces, Goto, TypeOK
    <2> QED
      BY <2>1, <2>2
  <1>2. ASSUME NEW r \in Runs, AskWitness(r) PROVE SessionInv'
    <2>1. CASE \E why \in {"live", "failed"} : Return(r, why) /\ UNCHANGED ignored
      BY <1>2, <2>1, ReturnSessions DEF AskWitness, TypeOK
    <2>2. CASE ~\E why \in {"live", "failed"} : Return(r, why) /\ UNCHANGED ignored
      BY <1>2, <2>2 DEF AskWitness, Goto, TypeOK
    <2> QED
      BY <2>1, <2>2
  <1>3. ASSUME NEW r \in Runs, TryLock(r) PROVE SessionInv'
    <2>1. CASE \E why \in {"contended", "failed"} : Return(r, why)
      BY <1>3, <2>1, ReturnSessions DEF TryLock, TypeOK
    <2>2. CASE \E t \in Tools : TakeLock(r, t)
      BY <1>3, <2>2, TakeLockSessions DEF TryLock
    <2> QED
      BY <1>3, <2>1, <2>2 DEF TryLock
  <1>4. ASSUME NEW r \in Runs, Stage(r) PROVE SessionInv'
    <2>1. CASE Return(r, "failed")
      BY <1>4, <2>1, ReturnSessions DEF Stage, TypeOK
    <2>2. CASE ~Return(r, "failed")
      BY <1>4, <2>2 DEF Stage, Goto, TypeOK
    <2> QED
      BY <2>1, <2>2
  <1>5. ASSUME NEW r \in Runs, Recheck(r) PROVE SessionInv'
    <2>1. CASE \E t \in Tools : RecheckAsks(r, t)
      BY <1>5, <2>1, RecheckAsksSessions DEF Recheck
    <2>2. CASE Return(r, outcome[r]) /\ UNCHANGED ignored
      BY <1>5, <2>2, ReturnSessions DEF Recheck, TypeOK
    <2>3. CASE /\ outcome[r] = "none" /\ cmd[r].tools \subseteq passed[r]
               /\ Goto(r, "write") /\ passed' = [passed EXCEPT ![r] = {}]
               /\ UNCHANGED <<present, outcome, steady, ignored>>
      BY <1>5, <2>3, RecheckPassesSessions DEF Recheck
    <2> QED
      BY <1>5, <2>1, <2>2, <2>3 DEF Recheck, RecheckEnds
  <1>6. ASSUME NEW r \in Runs, WriteTool(r) PROVE SessionInv'
    <2>1. CASE Return(r, "failed")
      BY <1>6, <2>1, ReturnSessions DEF WriteTool, TypeOK
    <2>2. CASE ~Return(r, "failed")
      BY <1>6, <2>2 DEF WriteTool, TypeOK
    <2> QED
      BY <2>1, <2>2
  <1>7. ASSUME NEW r \in Runs, WriteDone(r) PROVE SessionInv'
    BY <1>7, ReturnSessions DEF WriteDone, TypeOK
  <1>8. ASSUME NEW r \in Runs, Release(r) PROVE SessionInv'
    <2>1. pc[r] = "release" /\ UNCHANGED <<cmd, pc, passed, ignored, live, steady>>
      BY <1>8 DEF Release
    <2>2. \A s \in Runs \ {r} : outcome'[s] = outcome[s]
      BY <1>8 DEF Release, TypeOK
    <2> QED
      BY <2>1, <2>2
  <1>9. ASSUME NEW r \in Runs, Exit(r) PROVE SessionInv'
    BY <1>9, VanishSessions DEF Exit
  <1>10. ASSUME NEW r \in Runs, Kill(r) PROVE SessionInv'
    BY <1>10, VanishSessions DEF Kill
  <1>11. ASSUME NEW t \in Tools, WriterStarts(t) PROVE SessionInv'
    BY <1>11 DEF WriterStarts, procVars, TypeOK
  <1>12. ASSUME NEW t \in Tools, WriterStops(t) PROVE SessionInv'
    BY <1>12 DEF WriterStops, procVars, TypeOK
  <1>13. CASE UNCHANGED vars
    BY <1>13 DEF vars, procVars
  <1> QED
    BY <1>1, <1>2, <1>3, <1>4, <1>5, <1>6, <1>7, <1>8, <1>9, <1>10, <1>11, <1>12, <1>13
       DEF Next, Step

(* No session that was running when a run held all its locks, and still is,  *)
(* is overlooked by a run that writes (lock.RecheckActiveWriters).           *)
THEOREM Sessions == Spec => []NoSessionOverlooked
  <1>1. Init => SessionInv
    BY DEF Init, SessionInv, SteadyRuns, PassedIsFresh, PassedIsSeen, Noted,
           NoSessionOverlooked, FirstLabel
  <1>2. SessionInv => NoSessionOverlooked
    BY DEF SessionInv
  <1> QED
    BY <1>1, <1>2, Typing, SessionStep, PTL DEF Spec

-----------------------------------------------------------------------------
(* Refinement *)

(* Every step of a run is a step, or no step, of the promise. *)
LEMMA RunStepsPromised ==
  ASSUME TypeOK, LockInv, NEW r \in Runs, Step(r) \/ Kill(r)
  PROVE  [Promise!Next]_(Promise!vars)
  <1> DEFINE wanted == [s \in Runs |-> cmd[s].tools]
             phase == [s \in Runs |-> Phase(s)]
  <1>1. cmd' = cmd /\ wanted' = wanted
    BY DEF Step, Kill, Exit, Surfaces, AskWitness, TryLock, Stage, Recheck, WriteTool,
           WriteDone, Release
  <1>2. pc' = pc \/ \E label \in Control : Goto(r, label)
    BY LabelTypes DEF Step, Kill, Exit, Vanish, Surfaces, AskWitness, TryLock, TakeLock, Stage, Recheck,
           RecheckAsks, RecheckEnds, WriteTool, WriteDone, Release, Return, NextTarget, Earliest, Control
  <1>3. \A s \in Runs : s # r => Phase(s)' = Phase(s)
    BY <1>2 DEF TypeOK, Goto, Phase
  <1>4. phase' = [phase EXCEPT ![r] = Phase(r)']
    BY <1>3
  <1>5. CASE Phase(r)' = Phase(r)
    <2>1. phase' = phase
      BY <1>3, <1>5
    <2> QED
      BY <1>1, <2>1 DEF Promise!vars
  <1>6. CASE Phase(r) = "waiting" /\ Phase(r)' = "over"
    <2>1. Promise!Refuse(r)
      BY <1>1, <1>4, <1>6 DEF Promise!Refuse, Promise!Waiting, Promise!Over
    <2> QED
      BY <2>1 DEF Promise!Next
  <1>7. CASE Phase(r) = "writing" /\ Phase(r)' = "over"
    <2>1. Promise!Leave(r)
      BY <1>1, <1>4, <1>7 DEF Promise!Leave, Promise!Writing, Promise!Over
    <2> QED
      BY <2>1 DEF Promise!Next
  <1>8. CASE pc[r] = "recheck" /\ Phase(r) = "waiting" /\ Phase(r)' = "writing"
    <2>1. \A s \in Runs : Phase(s) = "writing" => cmd[s].tools \cap cmd[r].tools = {}
      <3> SUFFICES ASSUME NEW s \in Runs, pc[s] = "write",
                          NEW t \in cmd[s].tools \cap cmd[r].tools
                   PROVE  FALSE
        BY DEF Phase
      <3>1. t \in prepared[s] /\ t \in prepared[r]
        BY <1>8 DEF LockInv, WorksLocked
      <3>2. s = r
        BY <3>1 DEF LockInv, HoldsPrepared
      <3> QED
        BY <1>8, <3>2
    <2>2. Promise!Enter(r)
      BY <1>1, <1>4, <1>8, <2>1 DEF Promise!Enter, Promise!Waiting, Promise!Writing
    <2> QED
      BY <2>2 DEF Promise!Next
  <1>9. \/ Phase(r)' = Phase(r)
        \/ Phase(r) = "waiting" /\ Phase(r)' = "over"
        \/ Phase(r) = "writing" /\ Phase(r)' = "over"
        \/ pc[r] = "recheck" /\ Phase(r) = "waiting" /\ Phase(r)' = "writing"
    BY <1>2 DEF TypeOK, Phase, Goto, Control, Step, Kill, Exit, Vanish, Surfaces, AskWitness, TryLock,
           TakeLock, LabelAfterLock, FirstLabel, Stage, Recheck, RecheckAsks,
           RecheckEnds, WriteTool, WriteDone, Release, Return
  <1> QED
    BY <1>5, <1>6, <1>7, <1>8, <1>9

(* The guard implements ExclusiveRuns: the runs let through at the same time *)
(* select disjoint tools, each is let through at most once, and none writes  *)
(* once refused.                                                             *)
THEOREM GuardImplements == Spec => ImplementsExclusiveRuns
  <1>1. Init => Promise!Init
    <2> SUFFICES ASSUME Init PROVE Promise!Init
      OBVIOUS
    <2>1. \A r \in Runs : Phase(r) = "waiting"
      BY DEF Init, Phase, FirstLabel
    <2>2. \A r \in Runs : cmd[r].tools \subseteq Tools
      BY CommandFields DEF Init
    <2> QED
      BY <2>1, <2>2 DEF Promise!Init, Promise!Waiting
  <1>2. TypeOK /\ LockInv /\ [Next]_vars => [Promise!Next]_(Promise!vars)
    <2> SUFFICES ASSUME TypeOK, LockInv, [Next]_vars PROVE [Promise!Next]_(Promise!vars)
      OBVIOUS
    <2>1. ASSUME NEW r \in Runs, Step(r) \/ Kill(r) PROVE [Promise!Next]_(Promise!vars)
      BY <2>1, RunStepsPromised
    <2>2. CASE UNCHANGED <<cmd, pc>>
      BY <2>2 DEF Promise!vars, Phase
    <2> QED
      BY <2>1, <2>2 DEF Next, WriterStarts, WriterStops, vars
  <1> QED
    BY <1>1, <1>2, Typing, Locking, PTL DEF Spec, ImplementsExclusiveRuns, Promise!Spec
-----------------------------------------------------------------------------
(* Contention *)

(* Why not everybody can lose.  A run that has not decided takes its locks   *)
(* from below, so one that is refused is refused by the holder of a lock     *)
(* above all of its own.  Hence whatever a refused run still holds, somebody *)
(* who is not refused is ahead of it: done, or holding a lock further up.    *)
Undecided ==
  \A r \in Runs : pc[r] \in {"surfaces", "witness", "trylock", "stage"} => outcome[r] = "none"

Working ==
  \A r \in Runs : pc[r] \in {"recheck", "write"} => outcome[r] \in {"none", "live", "failed"}

Decided == \A r \in Runs : pc[r] \in {"release", "gone"} => outcome[r] # "none"

TakesInOrder ==
  \A r \in Runs : outcome[r] = "none" =>
    /\ \A t \in Tools : flock[t] = r => t \in prepared[r]
    /\ \A t \in prepared[r], u \in cmd[r].tools \ prepared[r] : t < u

OnlyContention == \A r \in Runs : outcome[r] \in {"none", "ok", "contended"}

Ahead(s, t) ==
  \/ outcome[s] = "ok"
  \/ outcome[s] = "none" /\ \E u \in Tools : flock[u] = s /\ t < u

Beaten(r) ==
  /\ \E s \in Runs : outcome[s] \in {"none", "ok"}
  /\ \A t \in Tools : flock[t] = r => \E s \in Runs : Ahead(s, t)

LosesToAhead == OnlyContention => \A r \in Runs : outcome[r] = "contended" => Beaten(r)

DecisionInv == Undecided /\ Working /\ Decided

ContentionInv == DecisionInv /\ TakesInOrder /\ LosesToAhead

(* A run decides once, when it stops preparing or writing.                   *)
LEMMA DecisionStep == TypeOK /\ DecisionInv /\ [Next]_vars => DecisionInv'
  <1> SUFFICES ASSUME TypeOK, DecisionInv, [Next]_vars PROVE DecisionInv'
    OBVIOUS
  <1> USE DEF DecisionInv, Undecided, Working, Decided
  <1>1. ASSUME NEW r \in Runs, Surfaces(r) PROVE DecisionInv'
    BY <1>1 DEF Surfaces, Return, Goto, TypeOK
  <1>2. ASSUME NEW r \in Runs, AskWitness(r) PROVE DecisionInv'
    BY <1>2 DEF AskWitness, Return, Goto, TypeOK
  <1>3. ASSUME NEW r \in Runs, TryLock(r) PROVE DecisionInv'
    <2>1. CASE \E t \in Tools : TakeLock(r, t)
      BY <1>3, <2>1 DEF TryLock, TakeLock, LabelAfterLock, FirstLabel, Goto, TypeOK
    <2>2. CASE \E why \in {"contended", "failed"} : Return(r, why)
      BY <1>3, <2>2 DEF TryLock, Return, Goto, TypeOK
    <2> QED
      BY <1>3, <2>1, <2>2 DEF TryLock
  <1>4. ASSUME NEW r \in Runs, Stage(r) PROVE DecisionInv'
    BY <1>4 DEF Stage, Return, Goto, TypeOK
  <1>5. ASSUME NEW r \in Runs, Recheck(r) PROVE DecisionInv'
    <2>1. CASE \E t \in Tools : RecheckAsks(r, t)
      BY <1>5, <2>1 DEF Recheck, RecheckAsks, TypeOK
    <2>2. CASE RecheckEnds(r, cmd[r].tools)
      BY <1>5, <2>2 DEF Recheck, RecheckEnds, Return, Goto, TypeOK
    <2> QED
      BY <1>5, <2>1, <2>2 DEF Recheck
  <1>6. ASSUME NEW r \in Runs, WriteTool(r) PROVE DecisionInv'
    BY <1>6 DEF WriteTool, Return, Goto, TypeOK
  <1>7. ASSUME NEW r \in Runs, WriteDone(r) PROVE DecisionInv'
    BY <1>7 DEF WriteDone, Return, Goto, TypeOK
  <1>8. ASSUME NEW r \in Runs, Release(r) PROVE DecisionInv'
    <2>1. pc[r] = "release" /\ pc' = pc
      BY <1>8 DEF Release
    <2>2. \A s \in Runs : outcome'[s] = outcome[s] \/ (s = r /\ outcome'[s] = "failed")
      BY <1>8 DEF Release, TypeOK
    <2>3. ASSUME NEW s \in Runs
          PROVE  /\ pc[s] \in {"surfaces", "witness", "trylock", "stage"} => outcome'[s] = "none"
                 /\ pc[s] \in {"recheck", "write"} => outcome'[s] \in {"none", "live", "failed"}
                 /\ pc[s] \in {"release", "gone"} => outcome'[s] # "none"
      <3>1. CASE s = r
        <4>1. outcome'[s] = outcome[s] \/ outcome'[s] = "failed"
          BY <2>2
        <4> QED
          BY <2>1, <3>1, <4>1
      <3>2. CASE s # r
        BY <2>2, <3>2
      <3> QED
        BY <3>1, <3>2
    <2> QED
      BY <2>1, <2>3
  <1>9. ASSUME NEW r \in Runs, Exit(r) PROVE DecisionInv'
    BY <1>9 DEF Exit, Vanish, Goto, TypeOK
  <1>10. ASSUME NEW r \in Runs, Kill(r) PROVE DecisionInv'
    BY <1>10 DEF Kill, Vanish, Goto, TypeOK
  <1>11. CASE UNCHANGED <<pc, outcome>>
    BY <1>11
  <1> QED
    BY <1>1, <1>2, <1>3, <1>4, <1>5, <1>6, <1>7, <1>8, <1>9, <1>10, <1>11
       DEF Next, Step, WriterStarts, WriterStops, procVars, vars

(* What one step of a run does to what contention is about: it goes on with  *)
(* its locks, it takes a free one, it is refused one, it fails for another   *)
(* reason, it succeeds, or it drops locks after it decided.                  *)
GoesOn(r) == UNCHANGED <<cmd, prepared, flock, outcome>>

Takes(r) ==
  /\ outcome[r] = "none"
  /\ \E t \in Tools : NextTarget(r, t) /\ flock[t] = NoRun /\ TakeLock(r, t)
  /\ UNCHANGED cmd

IsRefused(r) ==
  /\ outcome[r] = "none"
  /\ outcome' = [outcome EXCEPT ![r] = "contended"]
  /\ \E t \in Tools : NextTarget(r, t) /\ flock[t] # NoRun
  /\ UNCHANGED <<cmd, prepared, flock>>

Spoils(r) ==
  /\ outcome'[r] \notin {"none", "ok", "contended"}
  /\ outcome' = [outcome EXCEPT ![r] = outcome'[r]]
  /\ UNCHANGED cmd
  /\ \A s \in Runs \ {r} : prepared'[s] = prepared[s]
  /\ \A t \in Tools : flock'[t] = flock[t] \/ (flock[t] = r /\ flock'[t] = NoRun)

Succeeds(r) ==
  /\ outcome[r] = "none"
  /\ outcome' = [outcome EXCEPT ![r] = "ok"]
  /\ UNCHANGED <<cmd, prepared, flock>>

Drops(r) ==
  /\ outcome[r] # "none"
  /\ UNCHANGED <<cmd, outcome>>
  /\ \A s \in Runs \ {r} : prepared'[s] = prepared[s]
  /\ \A t \in Tools : flock'[t] = flock[t] \/ (flock[t] = r /\ flock'[t] = NoRun)

Move(r) == GoesOn(r) \/ Takes(r) \/ IsRefused(r) \/ Spoils(r) \/ Succeeds(r) \/ Drops(r)

(* Every step of a run is one of these. *)
LEMMA StepMoves ==
  ASSUME TypeOK, LockInv, DecisionInv, NEW r \in Runs, Step(r) \/ Kill(r)
  PROVE  Move(r)
  <1> USE DEF DecisionInv, Undecided, Working, Decided
  <1>1. CASE Surfaces(r)
    BY <1>1 DEF Surfaces, Return, Move, GoesOn, Spoils, TypeOK
  <1>2. CASE AskWitness(r)
    BY <1>2 DEF AskWitness, Return, Move, GoesOn, Spoils, TypeOK
  <1>3. CASE TryLock(r)
    <2>1. CASE \E t \in Tools : NextTarget(r, t) /\ flock[t] = NoRun /\ TakeLock(r, t)
      BY <1>3, <2>1 DEF TryLock, Move, Takes
    <2>2. CASE Return(r, "contended") /\ UNCHANGED <<flock, prepared>>
               /\ \E t \in Tools : NextTarget(r, t) /\ flock[t] # NoRun
      BY <1>3, <2>2 DEF TryLock, Return, Move, IsRefused
    <2>3. CASE Return(r, "failed") /\ UNCHANGED <<flock, prepared>>
      BY <1>3, <2>3 DEF TryLock, Return, Move, Spoils, TypeOK
    <2> QED
      BY <1>3, <2>1, <2>2, <2>3 DEF TryLock
  <1>4. CASE Stage(r)
    BY <1>4 DEF Stage, Return, Move, GoesOn, Spoils, TypeOK
  <1>5. CASE Recheck(r)
    <2>1. CASE \E t \in Tools : RecheckAsks(r, t)
      <3>1. outcome' = [outcome EXCEPT ![r] = outcome'[r]] /\ outcome'[r] \in {outcome[r], "live", "failed"}
        BY <2>1 DEF RecheckAsks, TypeOK
      <3>2. outcome'[r] = "none" \/ outcome'[r] \in {"live", "failed"}
        BY <1>5, <3>1 DEF Recheck
      <3>3. outcome'[r] = "none" => outcome' = outcome
        BY <3>1, <3>2 DEF TypeOK
      <3> QED
        BY <1>5, <3>1, <3>2, <3>3 DEF Recheck, Move, GoesOn, Spoils
    <2>2. CASE RecheckEnds(r, cmd[r].tools)
      BY <1>5, <2>2 DEF Recheck, RecheckEnds, Return, Move, GoesOn, Spoils, TypeOK
    <2> QED
      BY <1>5, <2>1, <2>2 DEF Recheck
  <1>6. CASE WriteTool(r)
    BY <1>6 DEF WriteTool, Return, Move, GoesOn, Spoils, TypeOK
  <1>7. CASE WriteDone(r)
    BY <1>7 DEF WriteDone, Return, Move, Succeeds, Spoils, TypeOK
  <1>8. CASE Release(r)
    <2>1. PICK t \in Tools : /\ Latest(t, prepared[r])
                             /\ prepared' = [prepared EXCEPT ![r] = @ \ {t}]
                             /\ \/ flock' = [flock EXCEPT ![t] = NoRun] /\ UNCHANGED outcome
                                \/ /\ outcome' = [outcome EXCEPT ![r] =
                                                    IF @ = "ok" THEN "failed" ELSE @]
                                   /\ UNCHANGED flock
      BY <1>8 DEF Release
    <2>2. flock[t] = r
      BY <2>1 DEF Latest, LockInv, HoldsPrepared
    <2>3. UNCHANGED cmd /\ outcome[r] # "none" /\ \A s \in Runs \ {r} : prepared'[s] = prepared[s]
      BY <1>8, <2>1 DEF Release, TypeOK
    <2>4. CASE outcome' = outcome
      BY <2>1, <2>2, <2>3, <2>4 DEF Move, Drops, TypeOK
    <2>5. CASE outcome' # outcome
      <3>1. outcome[r] = "ok" /\ outcome' = [outcome EXCEPT ![r] = "failed"] /\ UNCHANGED flock
        BY <2>1, <2>5 DEF TypeOK
      <3> QED
        BY <2>3, <3>1 DEF Move, Spoils, TypeOK
    <2> QED
      BY <2>4, <2>5
  <1>9. CASE Exit(r)
    <2>1. outcome' = outcome
      BY <1>9 DEF Exit, Vanish, TypeOK
    <2> QED
      BY <1>9, <2>1 DEF Exit, Vanish, LocksWithout, Move, Drops, TypeOK
  <1>10. CASE Kill(r)
    BY <1>10 DEF Kill, Vanish, LocksWithout, Move, Spoils, TypeOK
  <1> QED
    BY <1>1, <1>2, <1>3, <1>4, <1>5, <1>6, <1>7, <1>8, <1>9, <1>10 DEF Step

(* Locks are taken from below, and kept until the run decides. *)
LEMMA MoveInOrder ==
  ASSUME TypeOK, TakesInOrder, NEW r \in Runs, Move(r)
  PROVE  TakesInOrder'
  <1>1. CASE GoesOn(r)
    BY <1>1 DEF GoesOn, TakesInOrder
  <1>2. CASE Takes(r)
    <2>1. PICK t \in Tools : NextTarget(r, t) /\ flock[t] = NoRun /\ TakeLock(r, t)
      BY <1>2 DEF Takes
    <2>2. cmd[r].tools \subseteq Tools /\ prepared[r] \subseteq Tools
      BY CommandFields DEF TypeOK
    <2>3. cmd' = cmd /\ outcome' = outcome
      BY <1>2, <2>1 DEF Takes, TakeLock
    <2>4. ASSUME NEW s \in Runs, outcome[s] = "none", NEW u \in Tools, flock'[u] = s
          PROVE  u \in prepared'[s]
      BY <2>1, <2>4 DEF TakeLock, TypeOK, TakesInOrder
    <2>5. ASSUME NEW s \in Runs, outcome[s] = "none",
                 NEW u \in prepared'[s], NEW w \in cmd[s].tools \ prepared'[s]
          PROVE  u < w
      <3>1. CASE s # r
        BY <2>1, <2>5, <3>1 DEF TakeLock, TypeOK, TakesInOrder
      <3>2. CASE s = r /\ u # t
        BY <2>1, <2>5, <3>2 DEF TakeLock, TypeOK, TakesInOrder
      <3>3. CASE s = r /\ u = t
        <4>1. t <= w /\ w # t
          BY <2>1, <2>5, <3>3 DEF TakeLock, TypeOK, NextTarget, Earliest
        <4> QED
          BY <2>2, <2>5, <3>3, <4>1, NAssumption DEF Tools
      <3> QED
        BY <3>1, <3>2, <3>3
    <2> QED
      BY <2>3, <2>4, <2>5 DEF TakesInOrder
  <1>3. CASE IsRefused(r) \/ Succeeds(r)
    BY <1>3 DEF IsRefused, Succeeds, TakesInOrder, TypeOK
  <1>4. CASE Spoils(r) \/ Drops(r)
    <2>1. outcome'[r] # "none" /\ \A s \in Runs \ {r} : outcome'[s] = outcome[s]
      BY <1>4 DEF Spoils, Drops, TypeOK
    <2>2. \A s \in Runs \ {r}, t \in Tools : flock'[t] = s => flock[t] = s
      BY <1>4, NoRunAssumption DEF Spoils, Drops
    <2> QED
      BY <1>4, <2>1, <2>2 DEF Spoils, Drops, TakesInOrder
  <1> QED
    BY <1>1, <1>2, <1>3, <1>4 DEF Move

(* The run that is refused lock t holds only locks below t; whoever holds t, *)
(* or is ahead of its holder, is ahead of them all.                          *)
LEMMA RefusedIsBeaten ==
  ASSUME TypeOK, TakesInOrder, LosesToAhead, OnlyContention, NEW r \in Runs, IsRefused(r)
  PROVE  \E s \in Runs \ {r} :
           \/ outcome[s] = "ok"
           \/ outcome[s] = "none" /\ \E u \in Tools : flock[u] = s /\
                \A w \in Tools : flock[w] = r => w < u
  <1>1. PICK t \in Tools : NextTarget(r, t) /\ flock[t] # NoRun
    BY DEF IsRefused
  <1>2. t \in cmd[r].tools \ prepared[r] /\ outcome[r] = "none"
    BY <1>1 DEF NextTarget, Earliest, IsRefused
  <1>3. \A w \in Tools : flock[w] = r => w < t
    BY <1>2 DEF TakesInOrder
  <1>4. PICK h \in Runs : flock[t] = h
    BY <1>1 DEF TypeOK
  <1>5. h # r
    BY <1>2, <1>4 DEF TakesInOrder
  <1>6. CASE outcome[h] \in {"none", "ok"}
    BY <1>3, <1>4, <1>5, <1>6
  <1>7. CASE outcome[h] = "contended"
    <2>1. PICK s \in Runs : Ahead(s, t)
      BY <1>4, <1>7 DEF LosesToAhead, Beaten
    <2>2. CASE outcome[s] = "ok"
      BY <1>2, <2>2
    <2>3. CASE outcome[s] = "none" /\ \E u \in Tools : flock[u] = s /\ t < u
      <3>1. PICK u \in Tools : flock[u] = s /\ t < u
        BY <2>3
      <3>2. \A w \in Tools : w < t => w < u
        BY <3>1, NAssumption DEF Tools
      <3>3. s # r
        <4>1. ~(u < t)
          BY <3>1, NAssumption DEF Tools
        <4> QED
          BY <1>3, <3>1, <4>1
      <3> QED
        BY <1>3, <2>3, <3>1, <3>2, <3>3
    <2> QED
      BY <2>1, <2>2, <2>3 DEF Ahead
  <1> QED
    BY <1>6, <1>7 DEF OnlyContention

(* Nobody is left behind: a run that loses loses to somebody ahead of it. *)
LEMMA MoveLoses ==
  ASSUME TypeOK, TypeOK', TakesInOrder, LosesToAhead, NEW r \in Runs, Move(r)
  PROVE  LosesToAhead'
  <1> SUFFICES ASSUME OnlyContention', NEW c \in Runs, outcome'[c] = "contended"
               PROVE  Beaten(c)'
    BY DEF LosesToAhead
  <1>1. CASE Spoils(r)
    BY <1>1 DEF OnlyContention, Spoils
  <1>2. CASE IsRefused(r)
    <2>1. OnlyContention
      BY <1>2 DEF OnlyContention, IsRefused, TypeOK
    <2>2. PICK s \in Runs \ {r} :
            \/ outcome[s] = "ok"
            \/ outcome[s] = "none" /\ \E u \in Tools : flock[u] = s /\
                 \A w \in Tools : flock[w] = r => w < u
      BY <1>2, <2>1, RefusedIsBeaten
    <2>3. flock' = flock /\ \A x \in Runs \ {r} : outcome'[x] = outcome[x]
      BY <1>2 DEF IsRefused, TypeOK
    <2>4. outcome'[s] \in {"none", "ok"}
      BY <2>2, <2>3
    <2>5. ASSUME NEW t \in Tools, flock[t] = c PROVE \E x \in Runs : Ahead(x, t)'
      <3>1. CASE c = r
        BY <2>2, <2>3, <2>5, <3>1 DEF Ahead
      <3>2. CASE c # r
        <4>1. PICK x \in Runs : Ahead(x, t)
          BY <2>1, <2>3, <2>5, <3>2 DEF LosesToAhead, Beaten
        <4>2. CASE x # r
          BY <2>3, <4>1, <4>2 DEF Ahead
        <4>3. CASE x = r
          <5>1. PICK u \in Tools : flock[u] = r /\ t < u
            BY <1>2, <4>1, <4>3 DEF Ahead, IsRefused
          <5>2. CASE outcome[s] = "ok"
            BY <2>3, <5>2 DEF Ahead
          <5>3. CASE outcome[s] # "ok"
            <6>1. PICK v \in Tools : flock[v] = s /\ u < v
              BY <2>2, <5>1, <5>3
            <6>2. t < v
              BY <5>1, <6>1, NAssumption DEF Tools
            <6> QED
              BY <2>2, <2>3, <5>3, <6>1, <6>2 DEF Ahead
          <5> QED
            BY <5>2, <5>3
        <4> QED
          BY <4>2, <4>3
      <3> QED
        BY <3>1, <3>2
    <2> QED
      BY <2>3, <2>4, <2>5 DEF Beaten
  <1>3. CASE GoesOn(r) \/ Takes(r) \/ Succeeds(r) \/ Drops(r)
    <2>1. \A x \in Runs : \/ outcome'[x] = outcome[x]
                          \/ outcome[x] = "none" /\ outcome'[x] = "ok"
      BY <1>3 DEF GoesOn, Takes, TakeLock, Succeeds, Drops, TypeOK
    <2>2. OnlyContention /\ outcome[c] = "contended"
      BY <2>1 DEF OnlyContention
    <2>3. Beaten(c)
      BY <2>2 DEF LosesToAhead
    <2>4. ASSUME NEW t \in Tools, flock'[t] = c PROVE flock[t] = c
      <3>1. outcome[r] = "none" => c # r
        BY <2>2
      <3> QED
        BY <1>3, <2>4, <3>1, NoRunAssumption DEF GoesOn, Takes, TakeLock, Succeeds, Drops, TypeOK
    <2>5. ASSUME NEW x \in Runs, NEW u \in Tools, outcome[x] = "none", flock[u] = x
          PROVE  flock'[u] = x
      BY <1>3, <2>5, NoRunAssumption DEF GoesOn, Takes, TakeLock, Succeeds, Drops, TypeOK
    <2>6. ASSUME NEW x \in Runs, NEW t \in Tools, Ahead(x, t) PROVE Ahead(x, t)'
      BY <2>1, <2>5, <2>6 DEF Ahead
    <2>7. \E s \in Runs : outcome'[s] \in {"none", "ok"}
      BY <2>1, <2>3 DEF Beaten
    <2> QED
      BY <2>3, <2>4, <2>6, <2>7 DEF Beaten
  <1> QED
    BY <1>1, <1>2, <1>3 DEF Move

(* Every step keeps the account of contention. *)
LEMMA ContentionStep == TypeOK /\ LockInv /\ ContentionInv /\ [Next]_vars => ContentionInv'
  <1> SUFFICES ASSUME TypeOK, LockInv, ContentionInv, [Next]_vars PROVE ContentionInv'
    OBVIOUS
  <1>1. TypeOK' /\ DecisionInv'
    BY TypeStep, DecisionStep DEF ContentionInv
  <1>2. ASSUME NEW r \in Runs, Step(r) \/ Kill(r) PROVE ContentionInv'
    <2>1. Move(r)
      BY <1>2, StepMoves DEF ContentionInv
    <2> QED
      BY <1>1, <2>1, MoveInOrder, MoveLoses DEF ContentionInv
  <1>3. CASE UNCHANGED <<cmd, prepared, outcome, flock>>
    BY <1>1, <1>3 DEF ContentionInv, TakesInOrder, LosesToAhead, OnlyContention, Beaten, Ahead
  <1> QED
    BY <1>2, <1>3 DEF Next, WriterStarts, WriterStops, procVars, vars

(* Runs that only ever get in each other's way cannot all lose, for any      *)
(* number of runs and tools (registry order of the preflight, and            *)
(* lock.Acquire, which never waits).                                         *)
THEOREM ContentionIsFair == Spec => []ContentionSparesOne
  <1>1. Init => ContentionInv
    <2> SUFFICES ASSUME Init PROVE ContentionInv
      OBVIOUS
    <2>1. DecisionInv /\ LosesToAhead
      BY DEF Init, DecisionInv, Undecided, Working, Decided, LosesToAhead, FirstLabel
    <2>2. TakesInOrder
      BY NoRunAssumption DEF Init, TakesInOrder
    <2> QED
      BY <2>1, <2>2 DEF ContentionInv
  <1>2. ContentionInv => ContentionSparesOne
    <2> SUFFICES ASSUME ContentionInv, \A r \in Runs : pc[r] = "gone",
                        \A r \in Runs : outcome[r] \in {"ok", "contended"}
                 PROVE  \E r \in Runs : outcome[r] = "ok"
      BY DEF ContentionSparesOne
    <2>1. PICK r \in Runs : TRUE
      BY RunsAssumption
    <2>2. CASE outcome[r] = "contended"
      <3>1. OnlyContention
        BY DEF OnlyContention
      <3>2. PICK s \in Runs : outcome[s] \in {"none", "ok"}
        BY <2>2, <3>1 DEF ContentionInv, LosesToAhead, Beaten
      <3> QED
        BY <3>2
    <2> QED
      BY <2>2
  <1> QED
    BY <1>1, <1>2, Typing, Locking, ContentionStep, PTL DEF Spec
=============================================================================
