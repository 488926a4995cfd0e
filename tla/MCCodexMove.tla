---------------------------- MODULE MCCodexMove ----------------------------
(* Values for the constants of CodexMove. *)
EXTENDS CodexMove

CONSTANTS s1, s2, m1, q1, w1

TwoGenerations ==
  [k \in Families |-> CASE k = "state" -> <<s1, s2>> [] k = "memories" -> <<m1>> [] k = "queue" -> <<q1>>]
OneGeneration ==
  [k \in Families |-> CASE k = "state" -> <<s1>> [] k = "memories" -> <<m1>> [] k = "queue" -> <<>>]
TwoStarts == {{s1, m1, q1}, {s1, s2, m1}}
OneStart == {{s1, m1}}
OneRoot == <<w1>>

Project == [root |-> "old", sub |-> FALSE]
Below == [root |-> "old", sub |-> TRUE]
ProjectTrust == {{}, {Project}, {Project, Below}}
NestedTrust == {{Below}}
=============================================================================
