---------------------------- MODULE MCShelfSetup ----------------------------
(***************************************************************************)
(* The shelf management page for TLC: one shelf and two handlers.          *)
(***************************************************************************)
EXTENDS ShelfSetup

CONSTANTS s1, t1, t2

MCShelves == {s1}
MCClicks == {t1, t2}
=============================================================================
