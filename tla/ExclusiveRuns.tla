--------------------------- MODULE ExclusiveRuns ---------------------------
(***************************************************************************)
(* What the command guard promises: of the cc-port invocations that want   *)
(* to rewrite tool state, those let through at the same time select        *)
(* disjoint sets of tools, an invocation is let through at most once, and  *)
(* one that was refused never writes.  How witnesses and advisory locks    *)
(* bring that about is the business of RunGuard, which implements this.    *)
(***************************************************************************)
CONSTANTS
  Runs,      \* invocations
  Tools      \* tools whose state they may rewrite

VARIABLES
  wanted,    \* wanted[r]: the tools run r selects, fixed by its command line
  phase      \* phase[r]: where run r stands

Waiting == "waiting"
Writing == "writing"
Over    == "over"

vars == <<wanted, phase>>

Init ==
  /\ wanted \in [Runs -> SUBSET Tools]
  /\ phase = [r \in Runs |-> Waiting]

Enter(r) ==
  /\ phase[r] = Waiting
  /\ \A s \in Runs : phase[s] = Writing => wanted[s] \cap wanted[r] = {}
  /\ phase' = [phase EXCEPT ![r] = Writing]
  /\ UNCHANGED wanted

Refuse(r) ==
  /\ phase[r] = Waiting
  /\ phase' = [phase EXCEPT ![r] = Over]
  /\ UNCHANGED wanted

Leave(r) ==
  /\ phase[r] = Writing
  /\ phase' = [phase EXCEPT ![r] = Over]
  /\ UNCHANGED wanted

Next == \E r \in Runs : Enter(r) \/ Refuse(r) \/ Leave(r)

Spec == Init /\ [][Next]_vars
=============================================================================
