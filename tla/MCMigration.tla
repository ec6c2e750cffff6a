---------------------------- MODULE MCMigration -----------------------------
(***************************************************************************)
(* Start-up for TLC: two shelves, and two strings to name their devices.   *)
(***************************************************************************)
EXTENDS Migration

CONSTANTS s1, s2, x1, x2

MCShelves == {s1, s2}
MCSerials == {x1, x2}
=============================================================================
