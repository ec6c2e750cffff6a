------------------------ MODULE MCObservationQueries ------------------------
(***************************************************************************)
(* Values for TLC: devices with two offsets from UTC, and limits on both   *)
(* sides of the bounds of a page.                                          *)
(***************************************************************************)
EXTENDS ObservationQueries, TLC

CONSTANTS s1, s2

MCShelves == {s1, s2}
MCOffsets == {0, 1}
MCLimits == -1..3

\* One shelf is like the other.
MCSymmetry == Permutations(MCShelves)
=============================================================================
