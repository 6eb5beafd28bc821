------------------------------ MODULE MCAnalytics ------------------------------
(* Two sites and two checkers, two ranges, a history of a few ticks that is empty or *)
(* seeded.  Nothing tells one checker from the other.                                *)
EXTENDS Analytics

Symmetry == Permutations(Checkers)

=============================================================================
