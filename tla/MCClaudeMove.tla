---------------------------- MODULE MCClaudeMove ----------------------------
(***************************************************************************)
(* TLC instances of ClaudeMove: a file of each sort, rewritten in the      *)
(* order of the surfaces.                                                  *)
(***************************************************************************)
EXTENDS ClaudeMove, TLC

CONSTANTS history, session, transcript, note, source

SurfaceOrder == <<history, transcript, session>>
=============================================================================
