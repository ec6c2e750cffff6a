---------------------------- MODULE MCDashboard -----------------------------
(***************************************************************************)
(* The status page for TLC: two shelves, the timer and two handlers.       *)
(***************************************************************************)
EXTENDS Dashboard

CONSTANTS s1, s2, t1, t2

MCShelves == {s1, s2}
MCClicks == {t1, t2}
=============================================================================
