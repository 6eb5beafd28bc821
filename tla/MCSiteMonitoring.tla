--------------------------- MODULE MCSiteMonitoring ---------------------------
(***************************************************************************)
(* SiteMonitoring for TLC.  One site: checks of different sites share no   *)
(* document.  Thresholds of two let one failure be noise and two an        *)
(* outage; the target goes down and comes back more often than once.       *)
(***************************************************************************)
EXTENDS SiteMonitoring
=============================================================================
