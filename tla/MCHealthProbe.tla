---------------------------- MODULE MCHealthProbe ----------------------------
(***************************************************************************)
(* HealthProbe for TLC: two https names, an IP address over http and a     *)
(* name refused by its text; one public and one private address, so that   *)
(* an answer of DNS is empty, public, private or mixed.                    *)
(***************************************************************************)
EXTENDS HealthProbe
=============================================================================
