---------------------------- MODULE ImportBatch ----------------------------
(***************************************************************************)
(* What an archive import tells its caller about the files it stages.      *)
(* "landed": every destination holds what the archive has for it.          *)
(* "untouched": no destination changed.  Only a run that was killed, or    *)
(* that reports faults while rolling back, leaves the caller not knowing,  *)
(* and then every destination is still whole, the old one or the new one.  *)
(* Importer implements this.                                               *)
(***************************************************************************)
CONSTANTS
  Files,    \* destinations
  Bodies,   \* what a destination may contain
  Absent    \* the content of a destination that does not exist

VARIABLES
  files,    \* files[f]: what destination f contains
  batch,    \* batch[f]: what the archive has for f, Absent when nothing
  told      \* what the caller knows

vars == <<files, batch, told>>

Content == Bodies \cup {Absent}

Overlay == [f \in Files |-> IF batch[f] = Absent THEN files[f] ELSE batch[f]]

Init ==
  /\ files \in [Files -> Content]
  /\ batch \in [Files -> Content]
  /\ told = "untouched"

Begin ==
  /\ told # "running"
  /\ told' = "running"
  /\ UNCHANGED <<files, batch>>

Land ==
  /\ told = "running"
  /\ files' = Overlay
  /\ told' = "landed"
  /\ UNCHANGED batch

Refuse ==
  /\ told = "running"
  /\ told' = "untouched"
  /\ UNCHANGED <<files, batch>>

Confuse ==
  /\ told \in {"running", "landed"}
  /\ \E mixed \in SUBSET Files :
       files' = [f \in Files |-> IF f \in mixed THEN Overlay[f] ELSE files[f]]
  /\ told' = "unknown"
  /\ UNCHANGED batch

Next == Begin \/ Land \/ Refuse \/ Confuse

Spec == Init /\ [][Next]_vars
=============================================================================
