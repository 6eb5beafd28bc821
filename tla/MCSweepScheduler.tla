--------------------------- MODULE MCSweepScheduler ---------------------------
(***************************************************************************)
(* SweepScheduler for TLC: a site due at every tick and one due at every   *)
(* second, one worker, so that the second site waits and a sweep is        *)
(* overtaken by the next tick.                                             *)
(***************************************************************************)
EXTENDS SweepScheduler

CONSTANTS s1, s2

TwoSites == {s1, s2}
Intervals == [s \in TwoSites |-> IF s = s1 THEN 1 ELSE 2]
=============================================================================
