-------------------------- MODULE MCCertificateWarnings --------------------------
(***************************************************************************)
(* CertificateWarnings for TLC: two bands and three lifetimes, one beyond  *)
(* both bands, one inside the loose band and one inside the tight band, so *)
(* that a certificate crosses bands and is replaced from and into any.     *)
(* Nothing tells one check from another.                                   *)
(***************************************************************************)
EXTENDS CertificateWarnings, TLC

Symmetry == Permutations(Checks)
=============================================================================
