----------------------------- MODULE MCRunGuard -----------------------------
(***************************************************************************)
(* TLC instance of RunGuard over the two tools cc-port registers and two   *)
(* processes, each started with one of three command lines: a move of both *)
(* tools that ignores sessions, an import of both that refuses them, and a *)
(* refusing move of one tool only.                                         *)
(***************************************************************************)
EXTENDS RunGuard

On(kind, tools, ignore) == [kind |-> kind, tools |-> tools, ignore |-> ignore]

ThreeCommands ==
  {On("move", {1, 2}, TRUE), On("import", {1, 2}, FALSE), On("move", {1}, FALSE)}
=============================================================================
