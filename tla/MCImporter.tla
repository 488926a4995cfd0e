----------------------------- MODULE MCImporter -----------------------------
(***************************************************************************)
(* TLC instances of Importer: two destinations, a replacing tool (1) and an*)
(* appending tool (2).                                                     *)
(***************************************************************************)
EXTENDS Importer, TLC

CONSTANTS f1, f2, old, new, x, y

File(f) == [kind |-> "file", file |-> f, body |-> new]
Line(t, l) == [kind |-> "line", tool |-> t, line |-> l]

\* Entry names are all different, as the exporter writes them.
PlainArchives ==
  { <<File(f1), Line(1, x), File(f2), Line(2, x), Line(2, y)>>,
    <<File(f2), File(f1)>> }
=============================================================================
