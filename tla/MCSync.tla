------------------------------- MODULE MCSync -------------------------------
(* Values for the constants of Sync. *)
EXTENDS Sync

CONSTANTS key, other

Pushes == [verb : {"push"}, apply : {TRUE}, force : BOOLEAN, pass : {Plain, key}]
Pulls == [verb : {"pull"}, apply : {TRUE}, force : {FALSE}, pass : {Plain, key}]
DryRuns == [verb : {"push", "pull"}, apply : {FALSE}, force : {FALSE}, pass : {Plain}]
AllCommands == Pushes \cup Pulls \cup DryRuns
OnePush == [verb : {"push"}, apply : {TRUE}, force : {FALSE}, pass : {Plain}]
=============================================================================
