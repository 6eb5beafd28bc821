---------------------------- MODULE MCClientSession ----------------------------
(***************************************************************************)
(* ClientSession for TLC.  Two users share the browser; two badge requests *)
(* overlap; one fault; the page is loaded twice.                           *)
(***************************************************************************)
EXTENDS ClientSession
=============================================================================
